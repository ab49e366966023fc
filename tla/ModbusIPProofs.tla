----------------------------- MODULE ModbusIPProofs -----------------------------
(***************************************************************************)
(* Proofs about ModbusIP, for any peers, slots, transactions and frames.   *)
(*                                                                         *)
(* Slots: a connection that is made has a number of its own, so that none  *)
(* in a slot comes up again, and a new one finds no live one of its peer   *)
(* and side.  Transactions: their numbers are handed out once, and one in  *)
(* the list has not been called back.  Frames of masters: each begins in   *)
(* one place of one stream, and not once it was served or refused; what    *)
(* can come after that is its rest, which is never taken for a beginning.  *)
(***************************************************************************)
EXTENDS ModbusIP, SequenceTheorems, FiniteSetTheorems, WellFoundedInduction, NaturalsInduction, TLAPS

Numbered ==
  /\ \A i \in 1..Slots : tcpclient[i] # Unanswered => tcpclient[i].k <= conns
  /\ \A k \in DOMAIN backlog : backlog[k].side = "in" /\ backlog[k].k <= conns

OneLive ==
  \A i, j \in 1..Slots :
    /\ tcpclient[i] \in open /\ tcpclient[j] \in open
    /\ tcpclient[i].ip = tcpclient[j].ip /\ tcpclient[i].side = tcpclient[j].side
    => i = j

AskedOut == \A a \in asked : a.conn.side = "out"

LateRests == \A c \in Conn : \A k \in DOMAIN late[c] : late[c][k].part = "rest"

\* The transactions of a list ts and the callbacks made so far, n requests in.
Distinct(ts, made, n) ==
  /\ \A k \in DOMAIN ts : ts[k].id <= n /\ \A x \in made : x.id # ts[k].id
  /\ \A j, k \in DOMAIN ts : ts[j].id = ts[k].id => j = k
  /\ \A x \in made : x.id <= n /\ x.of \in {0, x.id}
  /\ \A x, y \in made : x.id = y.id => x = y

\* The frames that begin in the streams st, when those of done were served or
\* refused and n is the last number of a frame.
Masters == {c \in Conn : c.side = "in"}
Begins(s, k) == k \in DOMAIN s /\ s[k].part = "front"
Fronts(st, done, n) ==
  /\ \A c \in Masters, k \in Nat :
       Begins(st[c], k) => st[c][k].frame \notin done /\ st[c][k].frame.of <= n
  /\ \A c, d \in Masters, k, l \in Nat :
       Begins(st[c], k) /\ Begins(st[d], l) /\ st[c][k].frame = st[d][l].frame => c = d /\ k = l
  /\ \A f \in done : f.of <= n
  /\ \A c \in Conn \ Masters, k \in Nat : Begins(st[c], k) => st[c][k].frame.fc # "big"

-----------------------------------------------------------------------------
(* Slots and queues *)

LEMMA FirstIn ==
  ASSUME NEW S \in SUBSET (1..Slots), S # {}
  PROVE  First(S) \in S
<1> DEFINE R == OpToRel(<, Nat)
<1>1. IsWellFoundedOn(R, Nat)
  BY NatLessThanWellFounded
<1>2. \A x, y \in Nat : <<x, y>> \in R <=> x < y
  BY DEF OpToRel
<1>3. S \subseteq Nat
  OBVIOUS
<1> HIDE DEF R
<1>4. PICK i \in S : \A j \in S : <<j, i>> \notin R
  BY <1>1, <1>3, WFMin
<1>5. ASSUME NEW j \in S PROVE i <= j
  <2>1. i \in Nat /\ j \in Nat /\ <<j, i>> \notin R
    BY <1>3, <1>4
  <2>2. ~(j < i)
    BY <1>2, <2>1
  <2> QED BY <2>1, <2>2
<1> QED BY <1>5 DEF First

LEMMA RestElements ==
  ASSUME NEW S, NEW s \in Seq(S), NEW count \in Nat, NEW t, t = SubSeq(s, count + 1, Len(s))
  PROVE  /\ t \in Seq(S)
         /\ \A k \in DOMAIN t : k \in Nat /\ k + count \in DOMAIN s /\ t[k] = s[k + count]
<1>1. Len(s) \in Nat
  OBVIOUS
<1>2. CASE count + 1 <= Len(s)
  <2>1. \A k \in count + 1 .. Len(s) : s[k] \in S
    OBVIOUS
  <2>2. count + 1 \in Int /\ Len(s) \in Int
    BY <1>1
  <2>3. /\ t \in Seq(S) /\ Len(t) = Len(s) - (count + 1) + 1
        /\ \A k \in 1 .. Len(s) - (count + 1) + 1 : t[k] = s[count + 1 + k - 1]
    BY <1>2, <2>1, <2>2, SubSeqProperties
  <2>4. ASSUME NEW k \in DOMAIN t PROVE k \in Nat /\ k + count \in DOMAIN s /\ t[k] = s[k + count]
    <3>1. k \in 1 .. Len(s) - count
      BY <1>1, <2>3
    <3>2. t[k] = s[count + 1 + k - 1] /\ count + 1 + k - 1 = k + count
      BY <1>1, <2>3, <3>1
    <3> QED BY <1>1, <3>1, <3>2
  <2> QED BY <2>3, <2>4
<1>3. CASE count + 1 > Len(s)
  <2>1. t = <<>>
    BY <1>1, <1>3, SubSeqEmpty
  <2> QED BY <2>1
<1> QED BY <1>1, <1>2, <1>3

LEMMA RemovedElements ==
  ASSUME NEW S, NEW s \in Seq(S), NEW i \in DOMAIN s, NEW t, t = RemoveAt(s, i)
  PROVE  /\ t \in Seq(S) /\ Len(s) \in Nat /\ Len(t) = Len(s) - 1
         /\ \A k \in DOMAIN t : /\ k \in Nat
                                /\ t[k] = IF k < i THEN s[k] ELSE s[k + 1]
                                /\ k < i => k \in DOMAIN s
                                /\ k >= i => k + 1 \in DOMAIN s
<1> DEFINE m == Len(s)
           u == SubSeq(s, 1, i - 1)
           v == SubSeq(s, i + 1, m)
<1>1. m \in Nat /\ i \in 1..m /\ DOMAIN s = 1..m
  OBVIOUS
<1>2. t = u \o v
  BY DEF RemoveAt
<1>3. u \in Seq(S) /\ Len(u) = i - 1 /\ \A k \in 1..(i - 1) : u[k] = s[k]
  BY <1>1
<1>4. v \in Seq(S) /\ Len(v) = m - i /\ \A k \in 1..(m - i) : v[k] = s[k + i]
  BY <1>1
<1> HIDE DEF m, u, v
<1>5. /\ t \in Seq(S) /\ Len(t) = m - 1
      /\ \A k \in 1..(m - 1) : t[k] = IF k <= i - 1 THEN u[k] ELSE v[k - (i - 1)]
  <2>0. u \in Seq(S) /\ v \in Seq(S)
    BY <1>3, <1>4
  <2>1. /\ t \in Seq(S) /\ Len(t) = Len(u) + Len(v)
        /\ \A k \in 1..Len(u) + Len(v) : t[k] = IF k <= Len(u) THEN u[k] ELSE v[k - Len(u)]
    BY <1>2, <2>0, ConcatProperties
  <2>2. Len(u) = i - 1 /\ Len(v) = m - i /\ (i - 1) + (m - i) = m - 1
    BY <1>1, <1>3, <1>4
  <2> QED BY <2>1, <2>2
<1>6. ASSUME NEW k \in DOMAIN t
      PROVE  /\ k \in Nat /\ t[k] = IF k < i THEN s[k] ELSE s[k + 1]
             /\ k < i => k \in DOMAIN s
             /\ k >= i => k + 1 \in DOMAIN s
  <2>1. k \in 1..(m - 1)
    BY <1>5
  <2>2. CASE k < i
    <3>1. k \in 1..(i - 1) /\ k <= i - 1
      BY <1>1, <2>1, <2>2
    <3> QED BY <1>1, <1>3, <1>5, <2>1, <3>1
  <2>3. CASE k >= i
    <3>1. k - (i - 1) \in 1..(m - i) /\ ~(k <= i - 1) /\ k - (i - 1) + i = k + 1
      BY <1>1, <2>1, <2>3
    <3>2. t[k] = v[k - (i - 1)] /\ v[k - (i - 1)] = s[k + 1]
      BY <1>4, <1>5, <2>1, <3>1
    <3> QED BY <1>1, <2>1, <2>3, <3>2
  <2> QED BY <1>1, <2>1, <2>2, <2>3
<1> QED BY <1>1, <1>5, <1>6 DEF m

-----------------------------------------------------------------------------
(* Types *)

LEMMA TypesInit == Init => TypeOK
<1> SUFFICES ASSUME Init PROVE TypeOK
  OBVIOUS
<1>1. <<>> \in Seq(Piece) /\ <<>> \in Seq(Conn) /\ <<>> \in Seq([id : 1..MaxSends, forced : BOOLEAN])
      /\ Len(<<>>) = 0
  OBVIOUS
<1>2. 0 \in 0..MaxConns /\ 0 \in 0..MaxSends /\ 0 \in 0..MaxFrames /\ 0 <= MaxTrans
  BY BoundAssumption, SlotsAssumption
<1>3. stream \in [Conn -> Seq(Piece)] /\ late \in [Conn -> Seq(Piece)]
  BY <1>1 DEF Init
<1> QED BY <1>1, <1>2, <1>3 DEF Init, TypeOK

LEMMA ClosedTypes ==
  ASSUME TypeOK, NEW gone, CloseAll(gone)
  PROVE  /\ open' \subseteq Conn /\ asked' \subseteq asked
         /\ stream' \in [Conn -> Seq(Piece)] /\ late' \in [Conn -> Seq(Piece)]
<1>1. <<>> \in Seq(Piece)
  OBVIOUS
<1> QED BY <1>1 DEF TypeOK, CloseAll

LEMMA ConsumedTypes ==
  ASSUME TypeOK, NEW i \in 1..Slots, Readable(i), NEW n \in Nat, Consume(i, n)
  PROVE  /\ tcpclient[i] \in Conn /\ stream[tcpclient[i]] \in Seq(Piece)
         /\ Next1(i) \in Piece /\ stream' \in [Conn -> Seq(Piece)]
<1> DEFINE c == tcpclient[i]
           s == stream[c]
<1>1. c \in Conn
  BY DEF Readable, TypeOK
<1>2. s \in Seq(Piece) /\ s # <<>>
  BY <1>1 DEF Readable, TypeOK
<1>3. stream' = [stream EXCEPT ![c] = SubSeq(s, n + 1, Len(s))]
  BY DEF Consume
<1>4. Next1(i) = s[1]
  BY DEF Next1
<1> HIDE DEF s, c
<1>5. SubSeq(s, n + 1, Len(s)) \in Seq(Piece)
  BY <1>2, RestElements
<1>6. s[1] \in Piece
  BY <1>2
<1> QED BY <1>1, <1>2, <1>3, <1>4, <1>5, <1>6 DEF TypeOK, s, c

LEMMA SentTypes ==
  ASSUME TypeOK, NEW c \in Conn, NEW f \in Frame, NEW whole \in BOOLEAN, Send1(c, f, whole)
  PROVE  stream' \in [Conn -> Seq(Piece)] /\ late' \in [Conn -> Seq(Piece)]
<1> DEFINE front == [frame |-> f, part |-> "front"]
           rest == [frame |-> f, part |-> "rest"]
           s == stream[c]
           added == IF whole THEN <<front, rest>> ELSE <<front>>
           left == IF whole THEN <<>> ELSE <<rest>>
<1>1. front \in Piece /\ rest \in Piece /\ s \in Seq(Piece)
  BY DEF Piece, TypeOK
<1>2. stream' = [stream EXCEPT ![c] = s \o added] /\ late' = [late EXCEPT ![c] = left]
  BY DEF Send1
<1> HIDE DEF front, rest, s
<1>3. added \in Seq(Piece) /\ left \in Seq(Piece)
  <2>1. <<front, rest>> \in Seq(Piece) /\ <<front>> \in Seq(Piece) /\ <<rest>> \in Seq(Piece)
        /\ <<>> \in Seq(Piece)
    BY <1>1
  <2> QED BY <2>1
<1> HIDE DEF added, left
<1>4. s \o added \in Seq(Piece)
  BY <1>1, <1>3
<1> QED BY <1>2, <1>3, <1>4 DEF TypeOK

Trans == [id : 1..MaxSends, forced : BOOLEAN]

LEMMA Transaction ==
  ASSUME TypeOK, NEW k \in DOMAIN trans
  PROVE  trans[k] \in Trans /\ trans[k].id \in 1..MaxSends
<1>1. trans \in Seq(Trans)
  BY DEF TypeOK, Trans
<1>2. trans[k] \in Trans
  BY <1>1
<1> QED BY <1>2 DEF Trans

LEMMA TypesApplication == TypeOK /\ Application => TypeOK'
<1> SUFFICES ASSUME TypeOK, Application PROVE TypeOK'
  OBVIOUS
<1>1. ASSUME NEW ip \in Peer, AppConnect(ip) PROVE TypeOK'
  <2> DEFINE c == [ip |-> ip, side |-> "out", k |-> conns + 1]
  <2>1. c \in Conn /\ conns + 1 \in 0..MaxConns
    BY <1>1, BoundAssumption DEF TypeOK, AppConnect, Connect, Conn
  <2>2. /\ tcpclient' = [tcpclient EXCEPT ![First(FreeSlots)] = c] /\ conns' = conns + 1
        /\ open' \in {open, open \cup {c}}
    BY <1>1 DEF AppConnect, Connect
  <2> HIDE DEF c
  <2>3. tcpclient' \in [1..Slots -> Conn \cup {Unanswered}]
    BY <2>1, <2>2 DEF TypeOK
  <2> QED BY <1>1, <2>1, <2>2, <2>3 DEF TypeOK, AppConnect
<1>2. ASSUME NEW ip \in Peer, Disconnect(ip) PROVE TypeOK'
  <2>1. PICK i \in With(ip, "out") :
          /\ CloseAll({tcpclient[i]})
          /\ tcpclient' = [tcpclient EXCEPT ![i] = Unanswered]
          /\ UNCHANGED <<backlog, conns, trans, id, called, frames, served, refused>>
    BY <1>2 DEF Disconnect
  <2>2. tcpclient' \in [1..Slots -> Conn \cup {Unanswered}]
    BY <2>1 DEF TypeOK
  <2> QED BY <2>1, <2>2, ClosedTypes DEF TypeOK
<1>3. ASSUME NEW ip \in Peer, SendConnects(ip) PROVE TypeOK'
  BY <1>1, <1>3 DEF SendConnects
<1>4. ASSUME NEW ip \in Peer, NEW waits \in BOOLEAN, NEW taken \in BOOLEAN, Send(ip, waits, taken)
      PROVE  TypeOK'
  <2> DEFINE i == First(With(ip, "out"))
             t == [id |-> id + 1, forced |-> FALSE]
  <2>1. i \in With(ip, "out")
    BY <1>4, FirstIn DEF With, Send
  <2>2. tcpclient[i] \in Conn
    BY <2>1 DEF With, TypeOK
  <2>3. id + 1 \in 1..MaxSends /\ id + 1 \in 0..MaxSends
    BY <1>4, BoundAssumption DEF Send, TypeOK
  <2>4. /\ id' = id + 1
        /\ asked' = asked \/ asked' = asked \cup {[conn |-> tcpclient[i], id |-> id + 1]}
        /\ trans' = trans \/ trans' = Append(trans, t)
        /\ Len(trans) < MaxTrans
        /\ UNCHANGED <<tcpclient, called, served, refused, network>>
    BY <1>4 DEF Send
  <2>5. t \in [id : 1..MaxSends, forced : BOOLEAN]
    BY <2>3
  <2> HIDE DEF i, t
  <2>6. trans' \in Seq([id : 1..MaxSends, forced : BOOLEAN]) /\ Len(trans') <= MaxTrans
    <3> DEFINE n == Len(trans)
    <3>1. trans \in Seq(Trans) /\ t \in Trans /\ n <= MaxTrans
      BY <2>5 DEF TypeOK, Trans
    <3>2. Append(trans, t) \in Seq(Trans) /\ Len(Append(trans, t)) = n + 1 /\ n \in Nat
      BY <3>1
    <3>3. n < MaxTrans
      BY <2>4
    <3> HIDE DEF n
    <3>4. n + 1 <= MaxTrans
      BY <3>2, <3>3, SlotsAssumption
    <3>5. CASE trans' = trans
      BY <3>1, <3>5 DEF n, Trans
    <3>6. CASE trans' = Append(trans, t)
      BY <3>2, <3>4, <3>6 DEF Trans
    <3> QED BY <2>4, <3>5, <3>6
  <2>7. asked' \subseteq [conn : Conn, id : 1..MaxSends]
    BY <2>2, <2>3, <2>4 DEF TypeOK
  <2> QED BY <2>3, <2>4, <2>6, <2>7 DEF TypeOK, network
<1>5. CASE DropTransactions
  <2> DEFINE T == [id : 1..MaxSends, forced : BOOLEAN]
  <2>1. trans \in Seq(T) /\ Len(trans) <= MaxTrans
    BY DEF TypeOK
  <2>2. \A k \in DOMAIN trans : [trans[k] EXCEPT !.forced = TRUE] \in T
    BY Transaction DEF Trans
  <2>3. trans' = [k \in DOMAIN trans |-> [trans[k] EXCEPT !.forced = TRUE]]
    BY <1>5 DEF DropTransactions
  <2> HIDE DEF T
  <2>4. trans' \in Seq(T) /\ Len(trans') = Len(trans)
    <3>1. DOMAIN trans = 1..Len(trans) /\ Len(trans) \in Nat
      BY <2>1
    <3>2. trans' \in [1..Len(trans) -> T]
      BY <2>2, <2>3, <3>1
    <3> QED BY <3>1, <3>2
  <2> QED BY <1>5, <2>1, <2>4 DEF TypeOK, DropTransactions, network, T
<1> QED BY <1>1, <1>2, <1>3, <1>4, <1>5 DEF Application

LEMMA EndedTypes ==
  ASSUME TypeOK, NEW k \in DOMAIN trans, trans' = Without(k)
  PROVE  trans' \in Seq([id : 1..MaxSends, forced : BOOLEAN]) /\ Len(trans') <= MaxTrans
<1>1. trans \in Seq([id : 1..MaxSends, forced : BOOLEAN]) /\ Len(trans) <= MaxTrans
  BY DEF TypeOK
<1> DEFINE t == trans'
<1>2. t = RemoveAt(trans, k)
  BY DEF Without
<1> HIDE DEF t
<1>3. t \in Seq([id : 1..MaxSends, forced : BOOLEAN]) /\ Len(t) = Len(trans) - 1 /\ Len(trans) \in Nat
  BY <1>1, <1>2, RemovedElements
<1>4. t \in Seq([id : 1..MaxSends, forced : BOOLEAN]) /\ Len(t) <= MaxTrans
  BY <1>1, <1>3, SlotsAssumption
<1> QED BY <1>4 DEF t

LEMMA TypesCleanup == TypeOK /\ Cleanup => TypeOK'
<1> SUFFICES ASSUME TypeOK, Cleanup PROVE TypeOK'
  OBVIOUS
<1>1. ASSUME NEW i \in 1..Slots, FreeClosed(i) PROVE TypeOK'
  <2>1. tcpclient' \in [1..Slots -> Conn \cup {Unanswered}]
    BY <1>1 DEF FreeClosed, TypeOK
  <2> QED BY <1>1, <2>1 DEF FreeClosed, TypeOK, network
<1>2. ASSUME NEW k \in DOMAIN trans, End(k) PROVE TypeOK'
  <2>1. trans[k].id \in 1..MaxSends
    BY Transaction
  <2>2. 0 \in 0..(MaxSends + MaxFrames)
    BY BoundAssumption
  <2>3. called' \subseteq [id : 1..MaxSends, code : Event, of : 0..(MaxSends + MaxFrames)]
    BY <1>2, <2>1, <2>2 DEF End, TypeOK, Event
  <2>4. trans' \in Seq([id : 1..MaxSends, forced : BOOLEAN]) /\ Len(trans') <= MaxTrans
    BY <1>2, EndedTypes DEF End
  <2> QED BY <1>2, <2>3, <2>4 DEF End, TypeOK, network
<1> QED BY <1>1, <1>2 DEF Cleanup

LEMMA TypesAccept == \A admitted \in BOOLEAN : TypeOK /\ Accept(admitted) => TypeOK'
<1> SUFFICES ASSUME NEW admitted \in BOOLEAN, TypeOK, Accept(admitted) PROVE TypeOK'
  OBVIOUS
<1>1. backlog \in Seq(Conn) /\ backlog # <<>> /\ backlog' = Tail(backlog)
  BY DEF Accept, TypeOK
<1>2. Head(backlog) \in Conn /\ backlog' \in Seq(Conn)
  BY <1>1
<1>3. tcpclient' \in [1..Slots -> Conn \cup {Unanswered}]
  BY <1>2 DEF Accept, TypeOK
<1>4. \E gone : CloseAll(gone)
  BY DEF Accept
<1>5. UNCHANGED <<conns, trans, id, called, frames, served, refused>>
  BY DEF Accept
<1> QED BY <1>2, <1>3, <1>4, <1>5, ClosedTypes DEF TypeOK

LEMMA TypesServe == \A i \in 1..Slots : TypeOK /\ Serve(i) => TypeOK'
<1> SUFFICES ASSUME NEW i \in 1..Slots, TypeOK, Serve(i) PROVE TypeOK'
  OBVIOUS
<1> DEFINE f == Next1(i).frame
<1>1. CASE Resync(i)
  <2>1. <<>> \in Seq(Piece)
    OBVIOUS
  <2>2. stream' \in [Conn -> Seq(Piece)]
    BY <1>1, <2>1 DEF Resync, TypeOK
  <2> QED BY <1>1, <2>2 DEF Resync, TypeOK
<1>2. ASSUME InStep(i), NEW n \in 1..2, Consume(i, n)
      PROVE  f \in Frame /\ stream' \in [Conn -> Seq(Piece)]
  <2>1. Readable(i) /\ n \in Nat
    BY <1>2 DEF InStep
  <2>2. Next1(i) \in Piece /\ stream' \in [Conn -> Seq(Piece)]
    BY <1>2, <2>1, ConsumedTypes
  <2> QED BY <2>2 DEF Piece
<1>3. CASE Oversized(i)
  <2>1. f \in Frame /\ stream' \in [Conn -> Seq(Piece)]
    BY <1>2, <1>3 DEF Oversized
  <2> QED BY <1>3, <2>1 DEF Oversized, TypeOK
<1>4. CASE Short(i)
  <2>1. f \in Frame /\ stream' \in [Conn -> Seq(Piece)]
    BY <1>2, <1>4 DEF Short
  <2> QED BY <1>4, <2>1 DEF Short, TypeOK
<1>5. CASE ServeRequest(i)
  <2>1. f \in Frame /\ stream' \in [Conn -> Seq(Piece)]
    BY <1>2, <1>5 DEF ServeRequest
  <2> QED BY <1>5, <2>1 DEF ServeRequest, TypeOK
<1>6. CASE TakeResponse(i)
  <2>1. f \in Frame /\ stream' \in [Conn -> Seq(Piece)] /\ f.fc # "big"
    BY <1>2, <1>6 DEF TakeResponse
  <2>2. Code(f) \in Event /\ f.of \in 0..(MaxSends + MaxFrames)
    BY <2>1, BoundAssumption DEF Frame, Code, Event
  <2>3. \/ UNCHANGED <<trans, called>>
        \/ \E k \in Named(f) :
             /\ called' = called \cup {[id |-> trans[k].id, code |-> Code(f), of |-> f.of]}
             /\ trans' = Without(k)
    BY <1>6 DEF TakeResponse
  <2> HIDE DEF f
  <2>4. /\ called' \subseteq [id : 1..MaxSends, code : Event, of : 0..(MaxSends + MaxFrames)]
        /\ trans' \in Seq([id : 1..MaxSends, forced : BOOLEAN]) /\ Len(trans') <= MaxTrans
    <3>1. CASE UNCHANGED <<trans, called>>
      BY <3>1 DEF TypeOK
    <3>2. ASSUME NEW k \in Named(f),
                 called' = called \cup {[id |-> trans[k].id, code |-> Code(f), of |-> f.of]},
                 trans' = Without(k)
          PROVE  /\ called' \subseteq [id : 1..MaxSends, code : Event, of : 0..(MaxSends + MaxFrames)]
                 /\ trans' \in Seq([id : 1..MaxSends, forced : BOOLEAN]) /\ Len(trans') <= MaxTrans
      <4>1. k \in DOMAIN trans
        BY DEF Named
      <4>2. trans[k].id \in 1..MaxSends
        BY <4>1, Transaction
      <4>3. [id |-> trans[k].id, code |-> Code(f), of |-> f.of]
              \in [id : 1..MaxSends, code : Event, of : 0..(MaxSends + MaxFrames)]
        BY <2>2, <4>2
      <4> QED BY <3>2, <4>1, <4>3, EndedTypes DEF TypeOK
    <3> QED BY <2>3, <3>1, <3>2
  <2> QED BY <1>6, <2>1, <2>4 DEF TakeResponse, TypeOK
<1> QED BY <1>1, <1>3, <1>4, <1>5, <1>6 DEF Serve

LEMMA TypesNetwork == TypeOK /\ Network => TypeOK'
<1> SUFFICES ASSUME TypeOK, Network PROVE TypeOK'
  OBVIOUS
<1>1. ASSUME NEW a \in asked, NEW fc \in {"asked", "other", "exception"}, NEW whole \in BOOLEAN,
             SlaveAnswers(a, fc, whole)
      PROVE  TypeOK'
  <2>1. a.conn \in Conn /\ [of |-> a.id, fc |-> fc] \in Frame
    BY BoundAssumption DEF TypeOK, Frame
  <2>2. stream' \in [Conn -> Seq(Piece)] /\ late' \in [Conn -> Seq(Piece)]
    BY <1>1, <2>1, SentTypes DEF SlaveAnswers
  <2> QED BY <1>1, <2>2 DEF SlaveAnswers, TypeOK
<1>2. ASSUME NEW ip \in Peer, MasterConnects(ip) PROVE TypeOK'
  <2> DEFINE c == [ip |-> ip, side |-> "in", k |-> conns + 1]
  <2>1. c \in Conn /\ conns + 1 \in 0..MaxConns
    BY <1>2, BoundAssumption DEF TypeOK, MasterConnects, Conn
  <2>2. conns' = conns + 1 /\ open' = open \cup {c} /\ backlog' = Append(backlog, c)
    BY <1>2 DEF MasterConnects
  <2> HIDE DEF c
  <2>3. open' \subseteq Conn /\ backlog' \in Seq(Conn)
    BY <2>1, <2>2 DEF TypeOK
  <2> QED BY <1>2, <2>1, <2>2, <2>3 DEF TypeOK, MasterConnects
<1>3. ASSUME NEW c \in open, NEW fc \in {"asked", "big"}, NEW whole \in BOOLEAN,
             MasterAsks(c, fc, whole)
      PROVE  TypeOK'
  <2>1. /\ c \in Conn /\ [of |-> MaxSends + frames + 1, fc |-> fc] \in Frame
        /\ frames + 1 \in 0..MaxFrames
    BY <1>3, BoundAssumption DEF TypeOK, Frame, MasterAsks
  <2>2. stream' \in [Conn -> Seq(Piece)] /\ late' \in [Conn -> Seq(Piece)]
    BY <1>3, <2>1, SentTypes DEF MasterAsks
  <2> QED BY <1>3, <2>1, <2>2 DEF MasterAsks, TypeOK
<1>4. ASSUME NEW c \in Conn, RestArrives(c) PROVE TypeOK'
  <2>1. <<>> \in Seq(Piece) /\ stream[c] \in Seq(Piece) /\ late[c] \in Seq(Piece)
    BY DEF TypeOK
  <2>2. stream[c] \o late[c] \in Seq(Piece)
    BY <2>1
  <2>3. stream' \in [Conn -> Seq(Piece)] /\ late' \in [Conn -> Seq(Piece)]
    BY <1>4, <2>1, <2>2 DEF RestArrives, TypeOK
  <2> QED BY <1>4, <2>3 DEF RestArrives, TypeOK
<1>5. ASSUME NEW c \in Conn, PeerCloses(c) PROVE TypeOK'
  BY <1>5, ClosedTypes DEF PeerCloses, TypeOK
<1> QED BY <1>1, <1>2, <1>3, <1>4, <1>5 DEF Network

LEMMA Types == TypeOK /\ [Next]_vars => TypeOK'
<1>1. TypeOK /\ UNCHANGED vars => TypeOK'
  BY DEF TypeOK, vars
<1> QED BY <1>1, TypesApplication, TypesCleanup, TypesAccept, TypesServe, TypesNetwork DEF Next

-----------------------------------------------------------------------------
(* The slots *)

SlotInv == Numbered /\ OneLive

\* Slots given up and connections gone down.
LEMMA SlotsFewer ==
  ASSUME TypeOK, SlotInv, \A i \in 1..Slots : tcpclient'[i] \in {tcpclient[i], Unanswered},
         open' \subseteq open, UNCHANGED <<backlog, conns>>
  PROVE  SlotInv'
<1>1. Numbered'
  BY DEF SlotInv, Numbered
<1>2. \A i \in 1..Slots : tcpclient'[i] \in open' => tcpclient[i] = tcpclient'[i] /\ tcpclient[i] \in open
  BY UnansweredAssumption DEF TypeOK
<1>3. OneLive'
  BY <1>2 DEF SlotInv, OneLive
<1> QED BY <1>1, <1>3 DEF SlotInv

\* A connection goes into a slot: no other slot has a live one of its peer and
\* side.
LEMMA SlotTaken ==
  ASSUME TypeOK, SlotInv, NEW c \in Conn, NEW s \in 1..Slots,
         conns' >= conns, conns' \in Nat, c.k <= conns',
         \A i \in 1..Slots \ {s} : tcpclient'[i] \in {tcpclient[i], Unanswered},
         tcpclient'[s] = c,
         open' \subseteq open \cup {c},
         \A i \in 1..Slots \ {s} : tcpclient'[i] # c,
         \A i \in 1..Slots \ {s} :
           tcpclient'[i] \in open => ~(tcpclient'[i].ip = c.ip /\ tcpclient'[i].side = c.side),
         \A k \in DOMAIN backlog' : backlog'[k].side = "in" /\ backlog'[k].k <= conns'
  PROVE  SlotInv'
<1>1. Numbered'
  <2>1. ASSUME NEW i \in 1..Slots, tcpclient'[i] # Unanswered PROVE tcpclient'[i].k <= conns'
    <3>1. CASE i = s
      BY <3>1
    <3>2. CASE i # s
      <4>1. tcpclient'[i] = tcpclient[i] /\ tcpclient[i] \in Conn /\ tcpclient[i].k <= conns
        BY <2>1, <3>2 DEF TypeOK, SlotInv, Numbered
      <4>2. tcpclient[i].k \in Nat /\ conns \in Nat
        BY <4>1, BoundAssumption DEF Conn, TypeOK
      <4> QED BY <4>1, <4>2
    <3> QED BY <3>1, <3>2
  <2> QED BY <2>1 DEF Numbered
<1>2. OneLive'
  <2> SUFFICES ASSUME NEW i \in 1..Slots, NEW j \in 1..Slots,
                      tcpclient'[i] \in open', tcpclient'[j] \in open',
                      tcpclient'[i].ip = tcpclient'[j].ip,
                      tcpclient'[i].side = tcpclient'[j].side
               PROVE  i = j
    BY DEF OneLive
  <2>1. CASE i # s /\ j # s
    <3>1. tcpclient'[i] \in open /\ tcpclient'[j] \in open
      BY <2>1
    <3>2. tcpclient'[i] = tcpclient[i] /\ tcpclient'[j] = tcpclient[j]
      BY <2>1, <3>1, UnansweredAssumption DEF TypeOK
    <3> QED BY <3>1, <3>2 DEF SlotInv, OneLive
  <2>2. CASE i = s /\ j # s
    BY <2>2
  <2>3. CASE i # s /\ j = s
    BY <2>3
  <2> QED BY <2>1, <2>2, <2>3
<1> QED BY <1>1, <1>2 DEF SlotInv

\* A connection made now is in no slot.
LEMMA NewInNoSlot ==
  ASSUME TypeOK, SlotInv, NEW c \in Conn, c.k = conns + 1
  PROVE  \A i \in 1..Slots : tcpclient[i] # c
<1>1. conns \in Nat /\ c # Unanswered
  BY BoundAssumption, UnansweredAssumption DEF TypeOK
<1> QED BY <1>1 DEF SlotInv, Numbered

LEMMA SlotsConnect == \A ip \in Peer : TypeOK /\ SlotInv /\ AppConnect(ip) => SlotInv'
<1> SUFFICES ASSUME NEW ip \in Peer, TypeOK, SlotInv, AppConnect(ip) PROVE SlotInv'
  OBVIOUS
<1> DEFINE c == [ip |-> ip, side |-> "out", k |-> conns + 1]
           s == First(FreeSlots)
<1>1. c \in Conn /\ conns \in Nat
  BY BoundAssumption DEF TypeOK, AppConnect, Connect, Conn
<1>2. s \in FreeSlots
  BY FirstIn DEF FreeSlots, AppConnect, Connect
<1>3. s \in 1..Slots
  BY <1>2 DEF FreeSlots
<1>4. /\ tcpclient' = [tcpclient EXCEPT ![s] = c] /\ conns' = conns + 1
      /\ open' \in {open, open \cup {c}} /\ backlog' = backlog /\ With(ip, "out") = {}
  BY DEF AppConnect, Connect
<1>5. c.k = conns + 1 /\ c.ip = ip /\ c.side = "out"
  OBVIOUS
<1> HIDE DEF c, s
<1>6. \A i \in 1..Slots : tcpclient[i] # c
  BY <1>1, <1>5, NewInNoSlot
<1>7. tcpclient'[s] = c /\ \A i \in 1..Slots \ {s} : tcpclient'[i] = tcpclient[i]
  BY <1>3, <1>4 DEF TypeOK
<1>8. \A i \in 1..Slots \ {s} :
        tcpclient'[i] \in open => ~(tcpclient'[i].ip = c.ip /\ tcpclient'[i].side = c.side)
  BY <1>4, <1>5, <1>7 DEF With
<1>9. \A k \in DOMAIN backlog' : backlog'[k].side = "in" /\ backlog'[k].k <= conns'
  <2>1. ASSUME NEW k \in DOMAIN backlog PROVE backlog[k].side = "in" /\ backlog[k].k <= conns + 1
    <3>1. backlog[k] \in Conn
      BY DEF TypeOK
    <3>2. backlog[k].k \in Nat /\ backlog[k].k <= conns /\ backlog[k].side = "in"
      BY <3>1, BoundAssumption DEF Conn, SlotInv, Numbered
    <3> QED BY <1>1, <3>2
  <2> QED BY <1>4, <2>1
<1>10. conns' >= conns /\ conns' \in Nat /\ c.k <= conns'
  BY <1>1, <1>4, <1>5
<1>11. open' \subseteq open \cup {c}
  BY <1>4
<1> QED BY <1>1, <1>3, <1>6, <1>7, <1>8, <1>9, <1>10, <1>11, SlotTaken

LEMMA SlotsAccept == \A admitted \in BOOLEAN : TypeOK /\ SlotInv /\ Accept(admitted) => SlotInv'
<1> SUFFICES ASSUME NEW admitted \in BOOLEAN, TypeOK, SlotInv, Accept(admitted) PROVE SlotInv'
  OBVIOUS
<1> DEFINE c == Head(backlog)
           old == IF c \in open /\ admitted THEN With(c.ip, "in") ELSE {}
           kept == [i \in 1..Slots |-> IF i \in old THEN Unanswered ELSE tcpclient[i]]
           free == FreeSlots \cup old
           stays == c \in open /\ admitted /\ free # {}
           s == First(free)
<1>1. /\ backlog # <<>> /\ backlog' = Tail(backlog) /\ conns' = conns
      /\ tcpclient' = IF stays THEN [kept EXCEPT ![s] = c] ELSE kept
      /\ \E gone : CloseAll(gone)
  BY DEF Accept
<1>2. open' \subseteq open
  BY <1>1 DEF CloseAll
<1>3. /\ c \in Conn /\ c.side = "in" /\ c.k <= conns /\ conns \in Nat
      /\ \A k \in DOMAIN backlog' : backlog'[k].side = "in" /\ backlog'[k].k <= conns'
  <2>1. backlog \in Seq(Conn) /\ 1 \in DOMAIN backlog /\ c = backlog[1]
    BY <1>1 DEF TypeOK
  <2>2. \A k \in DOMAIN backlog : backlog[k].side = "in" /\ backlog[k].k <= conns
    BY DEF SlotInv, Numbered
  <2>3. conns \in Nat
    BY BoundAssumption DEF TypeOK
  <2>4. \A k \in DOMAIN backlog' : k + 1 \in DOMAIN backlog /\ backlog'[k] = backlog[k + 1]
    BY <1>1, <2>1
  <2>5. c \in Conn
    BY <2>1
  <2> QED BY <1>1, <2>1, <2>2, <2>3, <2>4, <2>5
<1>4. old \subseteq 1..Slots /\ free \subseteq 1..Slots
  BY DEF With, FreeSlots
<1>5. c \in open /\ admitted => old = With(c.ip, "in")
  OBVIOUS
<1>6. \A i \in 1..Slots : kept[i] \in {tcpclient[i], Unanswered} /\ (i \notin old => kept[i] = tcpclient[i])
                          /\ (i \in old => kept[i] = Unanswered)
  OBVIOUS
<1>7. kept \in [1..Slots -> Conn \cup {Unanswered}]
  BY DEF TypeOK
<1> HIDE DEF c, old, kept
<1>8. CASE ~stays
  <2>1. tcpclient' = kept
    BY <1>1, <1>8
  <2>2. \A i \in 1..Slots : tcpclient'[i] \in {tcpclient[i], Unanswered}
    BY <1>6, <2>1
  <2>3. Numbered'
    BY <1>1, <1>3, <2>2 DEF SlotInv, Numbered
  <2>4. \A i \in 1..Slots : tcpclient'[i] \in open' => tcpclient[i] = tcpclient'[i] /\ tcpclient[i] \in open
    BY <1>2, <2>2, UnansweredAssumption DEF TypeOK
  <2>5. OneLive'
    BY <2>4 DEF SlotInv, OneLive
  <2> QED BY <2>3, <2>5 DEF SlotInv
<1>9. CASE stays
  <2>1. s \in 1..Slots /\ c \in open /\ admitted
    BY <1>4, <1>9, FirstIn
  <2> HIDE DEF s, stays
  <2>2. tcpclient' = [kept EXCEPT ![s] = c]
    BY <1>1, <1>9
  <2>3. tcpclient'[s] = c /\ \A i \in 1..Slots \ {s} : tcpclient'[i] = kept[i]
    BY <1>7, <2>1, <2>2
  <2>4. \A i \in 1..Slots \ {s} : tcpclient'[i] \in {tcpclient[i], Unanswered}
    BY <1>6, <2>3
  <2>5. ASSUME NEW i \in 1..Slots \ {s}, tcpclient'[i] \in open
        PROVE  ~(tcpclient'[i].ip = c.ip /\ tcpclient'[i].side = c.side)
    <3>1. tcpclient'[i] # Unanswered
      BY <2>5, UnansweredAssumption DEF TypeOK
    <3>2. i \notin old /\ tcpclient'[i] = tcpclient[i]
      BY <1>6, <2>3, <3>1
    <3>3. i \notin With(c.ip, "in")
      BY <1>5, <2>1, <3>2
    <3> QED BY <1>3, <2>5, <3>2, <3>3 DEF With
  <2>6. \A i \in 1..Slots \ {s} : tcpclient'[i] # c
    BY <2>1, <2>5
  <2>7. conns' >= conns /\ conns' \in Nat /\ c.k <= conns' /\ open' \subseteq open \cup {c}
    BY <1>1, <1>2, <1>3
  <2> QED BY <1>3, <2>1, <2>3, <2>4, <2>5, <2>6, <2>7, SlotTaken
<1> QED BY <1>8, <1>9

LEMMA SlotsMasterConnects == \A ip \in Peer : TypeOK /\ SlotInv /\ MasterConnects(ip) => SlotInv'
<1> SUFFICES ASSUME NEW ip \in Peer, TypeOK, SlotInv, MasterConnects(ip) PROVE SlotInv'
  OBVIOUS
<1> DEFINE c == [ip |-> ip, side |-> "in", k |-> conns + 1]
<1>1. c \in Conn /\ conns \in Nat
  BY BoundAssumption DEF TypeOK, MasterConnects, Conn
<1>2. /\ conns' = conns + 1 /\ open' = open \cup {c} /\ backlog' = Append(backlog, c)
      /\ tcpclient' = tcpclient
  BY DEF MasterConnects
<1>3. c.k = conns + 1 /\ c.side = "in"
  OBVIOUS
<1> HIDE DEF c
<1>4. \A i \in 1..Slots : tcpclient[i] # c
  BY <1>1, <1>3, NewInNoSlot
<1>5. OneLive'
  BY <1>2, <1>4 DEF SlotInv, OneLive
<1>6. ASSUME NEW i \in 1..Slots, tcpclient[i] # Unanswered PROVE tcpclient[i].k <= conns + 1
  <2>1. tcpclient[i] \in Conn /\ tcpclient[i].k <= conns
    BY <1>6 DEF TypeOK, SlotInv, Numbered
  <2>2. tcpclient[i].k \in Nat
    BY <2>1, BoundAssumption DEF Conn
  <2> QED BY <1>1, <2>1, <2>2
<1>7. ASSUME NEW k \in DOMAIN backlog' PROVE backlog'[k].side = "in" /\ backlog'[k].k <= conns + 1
  <2>1. backlog \in Seq(Conn)
    BY DEF TypeOK
  <2>2. backlog'[k] = c \/ (k \in DOMAIN backlog /\ backlog'[k] = backlog[k])
    BY <1>1, <1>2, <2>1
  <2>3. CASE backlog'[k] = c
    BY <1>1, <1>3, <2>3
  <2>4. CASE k \in DOMAIN backlog /\ backlog'[k] = backlog[k]
    <3>1. backlog[k] \in Conn /\ backlog[k].side = "in" /\ backlog[k].k <= conns
      BY <2>1, <2>4 DEF SlotInv, Numbered
    <3>2. backlog[k].k \in Nat
      BY <3>1, BoundAssumption DEF Conn
    <3> QED BY <1>1, <2>4, <3>1, <3>2
  <2> QED BY <2>2, <2>3, <2>4
<1>8. Numbered'
  BY <1>2, <1>6, <1>7 DEF Numbered
<1> QED BY <1>5, <1>8 DEF SlotInv

LEMMA SlotsStep == TypeOK /\ SlotInv /\ [Next]_vars => SlotInv'
<1> SUFFICES ASSUME TypeOK, SlotInv, [Next]_vars PROVE SlotInv'
  OBVIOUS
<1>1. ASSUME UNCHANGED <<tcpclient, open, backlog, conns>> PROVE SlotInv'
  BY <1>1, SlotsFewer
<1>2. CASE UNCHANGED vars
  BY <1>1, <1>2 DEF vars
<1>3. CASE Application
  <2>1. ASSUME NEW ip \in Peer, Disconnect(ip) PROVE SlotInv'
    <3>1. PICK i \in With(ip, "out") :
            /\ CloseAll({tcpclient[i]})
            /\ tcpclient' = [tcpclient EXCEPT ![i] = Unanswered]
            /\ UNCHANGED <<backlog, conns>>
      BY <2>1 DEF Disconnect
    <3>2. \A j \in 1..Slots : tcpclient'[j] \in {tcpclient[j], Unanswered}
      BY <3>1 DEF TypeOK
    <3>3. open' \subseteq open
      BY <3>1 DEF CloseAll
    <3> QED BY <3>1, <3>2, <3>3, SlotsFewer
  <2>2. ASSUME NEW ip \in Peer, AppConnect(ip) \/ SendConnects(ip) PROVE SlotInv'
    BY <2>2, SlotsConnect DEF SendConnects
  <2>3. ASSUME NEW ip \in Peer, NEW waits \in BOOLEAN, NEW taken \in BOOLEAN, Send(ip, waits, taken)
        PROVE  SlotInv'
    BY <1>1, <2>3 DEF Send, network
  <2>4. CASE DropTransactions
    BY <1>1, <2>4 DEF DropTransactions, network
  <2> QED BY <1>3, <2>1, <2>2, <2>3, <2>4 DEF Application
<1>4. CASE Cleanup
  <2>1. ASSUME NEW i \in 1..Slots, FreeClosed(i) PROVE SlotInv'
    <3>1. tcpclient' = [tcpclient EXCEPT ![i] = Unanswered] /\ UNCHANGED <<open, backlog, conns>>
      BY <2>1 DEF FreeClosed, network
    <3>2. \A j \in 1..Slots : tcpclient'[j] \in {tcpclient[j], Unanswered}
      BY <3>1 DEF TypeOK
    <3> QED BY <3>1, <3>2, SlotsFewer
  <2>2. ASSUME NEW k \in DOMAIN trans, End(k) PROVE SlotInv'
    BY <1>1, <2>2 DEF End, network
  <2> QED BY <1>4, <2>1, <2>2 DEF Cleanup
<1>5. ASSUME NEW i \in 1..Slots, Serve(i) PROVE SlotInv'
  BY <1>1, <1>5 DEF Serve, Resync, Oversized, Short, ServeRequest, TakeResponse
<1>6. CASE Network
  <2>1. ASSUME NEW a \in asked, NEW fc \in {"asked", "other", "exception"}, NEW whole \in BOOLEAN,
               SlaveAnswers(a, fc, whole)
        PROVE  SlotInv'
    BY <1>1, <2>1 DEF SlaveAnswers
  <2>2. ASSUME NEW c \in open, NEW fc \in {"asked", "big"}, NEW whole \in BOOLEAN,
               MasterAsks(c, fc, whole)
        PROVE  SlotInv'
    BY <1>1, <2>2 DEF MasterAsks
  <2>3. ASSUME NEW c \in Conn, RestArrives(c) PROVE SlotInv'
    BY <1>1, <2>3 DEF RestArrives
  <2>4. ASSUME NEW c \in Conn, PeerCloses(c) PROVE SlotInv'
    <3>1. open' \subseteq open /\ UNCHANGED <<tcpclient, backlog, conns>>
      BY <2>4 DEF PeerCloses, CloseAll
    <3> QED BY <3>1, SlotsFewer
  <2> QED BY <1>6, <2>1, <2>2, <2>3, <2>4, SlotsMasterConnects DEF Network
<1> QED BY <1>2, <1>3, <1>4, <1>5, <1>6, SlotsAccept DEF Next

LEMMA SlotsInit == Init => SlotInv
<1> SUFFICES ASSUME Init PROVE SlotInv
  OBVIOUS
<1>1. DOMAIN backlog = {} /\ open = {} /\ \A i \in 1..Slots : tcpclient[i] = Unanswered
  BY DEF Init
<1> QED BY <1>1 DEF SlotInv, Numbered, OneLive

LEMMA AtMostOne ==
  ASSUME NEW S, \A x, y \in S : x = y
  PROVE  Cardinality(S) <= 1
<1>1. CASE S = {}
  BY <1>1, FS_EmptySet
<1>2. CASE S # {}
  <2>1. PICK x : S = {x}
    BY <1>2
  <2> QED BY <2>1, FS_Singleton
<1> QED BY <1>1, <1>2

\* At most one live connection to and one from a peer, for any numbers of peers,
\* slots and connections.
THEOREM SlotsAreOK == Spec => []SlotsOK
<1>1. Init => TypeOK /\ SlotInv
  BY TypesInit, SlotsInit
<1>2. TypeOK /\ SlotInv /\ [Next]_vars => TypeOK' /\ SlotInv'
  BY Types, SlotsStep
<1>3. TypeOK /\ SlotInv => SlotsOK
  BY AtMostOne DEF SlotInv, OneLive, SlotsOK, OneConnectionPerPeer, With
<1> QED BY <1>1, <1>2, <1>3, PTL DEF Spec

-----------------------------------------------------------------------------
(* Transactions *)

LEMMA DistinctAsked ==
  ASSUME NEW ts \in Seq(Trans), NEW made, NEW n \in Nat, Distinct(ts, made, n),
         \A x \in made : x.id \in Nat,
         NEW t, t.id = n + 1, t \in Trans
  PROVE  Distinct(ts, made, n + 1) /\ Distinct(Append(ts, t), made, n + 1)
<1>1. \A k \in DOMAIN ts : ts[k].id \in Nat
  <2>1. \A k \in DOMAIN ts : ts[k] \in Trans
    OBVIOUS
  <2> QED BY <2>1 DEF Trans
<1>2. /\ \A k \in DOMAIN ts : ts[k].id <= n + 1 /\ ts[k].id # n + 1
      /\ \A x \in made : x.id <= n + 1 /\ x.id # n + 1
  BY <1>1 DEF Distinct
<1>3. Distinct(ts, made, n + 1)
  BY <1>2 DEF Distinct
<1> DEFINE u == Append(ts, t)
<1>4. /\ Len(ts) \in Nat
      /\ \A k \in DOMAIN u : (k \in DOMAIN ts /\ u[k] = ts[k]) \/ (k = Len(ts) + 1 /\ u[k] = t)
  OBVIOUS
<1> HIDE DEF u
<1>5. Distinct(u, made, n + 1)
  <2>1. \A k \in DOMAIN u : u[k].id <= n + 1 /\ \A x \in made : x.id # u[k].id
    BY <1>2, <1>4 DEF Distinct
  <2>2. \A j, k \in DOMAIN u : u[j].id = u[k].id => j = k
    BY <1>2, <1>4 DEF Distinct
  <2> QED BY <1>3, <2>1, <2>2 DEF Distinct
<1> QED BY <1>3, <1>5 DEF u

LEMMA DistinctEnded ==
  ASSUME NEW ts \in Seq(Trans), NEW made, NEW n, Distinct(ts, made, n),
         NEW k \in DOMAIN ts, NEW x, x.id = ts[k].id, x.of \in {0, x.id}
  PROVE  Distinct(RemoveAt(ts, k), made \cup {x}, n)
<1> DEFINE t == RemoveAt(ts, k)
<1>1. \A j \in DOMAIN t : /\ j \in Nat /\ t[j] = IF j < k THEN ts[j] ELSE ts[j + 1]
                          /\ j < k => j \in DOMAIN ts
                          /\ j >= k => j + 1 \in DOMAIN ts
  BY RemovedElements
<1>2. k \in Nat
  OBVIOUS
<1> HIDE DEF t
<1> DEFINE of(j) == IF j < k THEN j ELSE j + 1
<1>3. \A j \in DOMAIN t : of(j) \in DOMAIN ts /\ t[j] = ts[of(j)] /\ of(j) # k
  <2>1. ASSUME NEW j \in DOMAIN t PROVE of(j) \in DOMAIN ts /\ t[j] = ts[of(j)] /\ of(j) # k
    <3>1. CASE j < k
      BY <1>1, <1>2, <3>1
    <3>2. CASE ~(j < k)
      BY <1>1, <1>2, <3>2
    <3> QED BY <3>1, <3>2
  <2> QED BY <2>1
<1>4. \A i, j \in DOMAIN t : of(i) = of(j) => i = j
  BY <1>1, <1>2
<1> HIDE DEF of
<1>5. \A j \in DOMAIN t : t[j].id <= n /\ \A y \in made \cup {x} : y.id # t[j].id
  BY <1>3 DEF Distinct
<1>6. \A i, j \in DOMAIN t : t[i].id = t[j].id => i = j
  BY <1>3, <1>4 DEF Distinct
<1>7. \A y \in made \cup {x} : y.id <= n /\ y.of \in {0, y.id}
  BY DEF Distinct
<1>8. \A y, z \in made \cup {x} : y.id = z.id => y = z
  BY DEF Distinct
<1>9. Distinct(t, made \cup {x}, n)
  BY <1>5, <1>6, <1>7, <1>8 DEF Distinct
<1> QED BY <1>9 DEF t

Transacted == Distinct(trans, called, id)

LEMMA TransactedInit == Init => Transacted
<1> SUFFICES ASSUME Init PROVE Transacted
  OBVIOUS
<1>1. DOMAIN trans = {} /\ called = {}
  BY DEF Init
<1> QED BY <1>1 DEF Transacted, Distinct

LEMMA TransactedStep == TypeOK /\ Transacted /\ [Next]_vars => Transacted'
<1> SUFFICES ASSUME TypeOK, Transacted, [Next]_vars PROVE Transacted'
  OBVIOUS
<1>0. trans \in Seq(Trans) /\ id \in Nat /\ \A x \in called : x.id \in Nat
  BY BoundAssumption DEF TypeOK, Trans
<1>1. ASSUME UNCHANGED <<trans, called, id>> PROVE Transacted'
  BY <1>1 DEF Transacted, Distinct
<1>2. CASE UNCHANGED vars
  BY <1>1, <1>2 DEF vars
<1>3. ASSUME NEW k \in DOMAIN trans, NEW x, x.id = trans[k].id, x.of \in {0, x.id},
             called' = called \cup {x}, trans' = Without(k), id' = id
      PROVE  Transacted'
  <2>1. Distinct(RemoveAt(trans, k), called \cup {x}, id)
    BY <1>0, <1>3, DistinctEnded DEF Transacted
  <2>2. Distinct(trans', called', id')
    BY <1>3, <2>1 DEF Without
  <2> QED BY <2>2 DEF Transacted, Distinct
<1>4. CASE Application
  <2>1. ASSUME NEW ip \in Peer, Disconnect(ip) \/ AppConnect(ip) \/ SendConnects(ip)
        PROVE  Transacted'
    BY <1>1, <2>1 DEF Disconnect, AppConnect, SendConnects
  <2>2. ASSUME NEW ip \in Peer, NEW waits \in BOOLEAN, NEW taken \in BOOLEAN, Send(ip, waits, taken)
        PROVE  Transacted'
    <3> DEFINE t == [id |-> id + 1, forced |-> FALSE]
    <3>1. t.id = id + 1 /\ t \in Trans
      BY <2>2, BoundAssumption DEF Send, TypeOK, Trans
    <3>2. /\ trans' = trans \/ trans' = Append(trans, t)
          /\ id' = id + 1 /\ called' = called
      BY <2>2 DEF Send
    <3> HIDE DEF t
    <3>3. Distinct(trans, called, id + 1) /\ Distinct(Append(trans, t), called, id + 1)
      BY <1>0, <3>1, DistinctAsked DEF Transacted
    <3>4. Distinct(trans', called', id')
      BY <3>2, <3>3
    <3> QED BY <3>4 DEF Transacted, Distinct
  <2>3. CASE DropTransactions
    <3>1. trans' = [k \in DOMAIN trans |-> [trans[k] EXCEPT !.forced = TRUE]]
          /\ called' = called /\ id' = id
      BY <2>3 DEF DropTransactions
    <3>2. DOMAIN trans' = DOMAIN trans /\ \A k \in DOMAIN trans : trans'[k].id = trans[k].id
      <4>1. \A k \in DOMAIN trans : [trans[k] EXCEPT !.forced = TRUE].id = trans[k].id
        BY Transaction DEF Trans
      <4> QED BY <3>1, <4>1
    <3> QED BY <3>1, <3>2 DEF Transacted, Distinct
  <2> QED BY <1>4, <2>1, <2>2, <2>3 DEF Application
<1>5. CASE Cleanup
  <2>1. ASSUME NEW i \in 1..Slots, FreeClosed(i) PROVE Transacted'
    BY <1>1, <2>1 DEF FreeClosed
  <2>2. ASSUME NEW k \in DOMAIN trans, End(k) PROVE Transacted'
    <3> DEFINE x == [id |-> trans[k].id, of |-> 0,
                     code |-> IF trans[k].forced THEN "EX_CANCEL" ELSE "EX_TIMEOUT"]
    <3>1. x.id = trans[k].id /\ x.of \in {0, x.id}
      OBVIOUS
    <3>2. called' = called \cup {x} /\ trans' = Without(k) /\ id' = id
      BY <2>2 DEF End
    <3> HIDE DEF x
    <3> QED BY <1>3, <3>1, <3>2
  <2> QED BY <1>5, <2>1, <2>2 DEF Cleanup
<1>6. ASSUME NEW i \in 1..Slots, Serve(i) PROVE Transacted'
  <2>1. CASE Resync(i) \/ Oversized(i) \/ Short(i) \/ ServeRequest(i)
    BY <1>1, <2>1 DEF Resync, Oversized, Short, ServeRequest
  <2>2. CASE TakeResponse(i)
    <3> DEFINE f == Next1(i).frame
    <3>1. /\ \/ UNCHANGED <<trans, called>>
             \/ \E k \in Named(f) :
                  /\ called' = called \cup {[id |-> trans[k].id, code |-> Code(f), of |-> f.of]}
                  /\ trans' = Without(k)
          /\ id' = id
      BY <2>2 DEF TakeResponse
    <3> HIDE DEF f
    <3>2. CASE UNCHANGED <<trans, called>>
      BY <1>1, <3>1, <3>2
    <3>3. ASSUME NEW k \in Named(f), trans' = Without(k),
                 called' = called \cup {[id |-> trans[k].id, code |-> Code(f), of |-> f.of]}
          PROVE  Transacted'
      <4> DEFINE x == [id |-> trans[k].id, code |-> Code(f), of |-> f.of]
      <4>1. k \in DOMAIN trans /\ trans[k].id = f.of
        BY DEF Named
      <4>2. x.id = trans[k].id /\ x.of \in {0, x.id}
        BY <4>1
      <4>3. called' = called \cup {x}
        BY <3>3
      <4> HIDE DEF x
      <4> QED BY <1>3, <3>1, <3>3, <4>1, <4>2, <4>3
    <3> QED BY <3>1, <3>2, <3>3
  <2> QED BY <1>6, <2>1, <2>2 DEF Serve
<1>7. ASSUME NEW admitted \in BOOLEAN, Accept(admitted) PROVE Transacted'
  BY <1>1, <1>7 DEF Accept
<1>8. CASE Network
  BY <1>1, <1>8 DEF Network, SlaveAnswers, MasterConnects, MasterAsks, RestArrives, PeerCloses
<1> QED BY <1>2, <1>4, <1>5, <1>6, <1>7, <1>8 DEF Next

-----------------------------------------------------------------------------
(* Frames *)

\* Where a frame begins in tt, it began in st, shift pieces further on.
Remains(tt, st, shift) ==
  \A c \in Conn, k \in Nat :
    Begins(tt[c], k) => Begins(st[c], k + shift[c]) /\ tt[c][k] = st[c][k + shift[c]]

\* Where a frame begins in tt, it began in st, but for f behind what c had.
Sent(tt, st, c, f) ==
  \A d \in Conn, k \in Nat :
    Begins(tt[d], k) => \/ Begins(st[d], k) /\ tt[d][k] = st[d][k]
                        \/ d = c /\ k = Len(st[c]) + 1 /\ tt[d][k].frame = f

\* Streams in which less begins.
LEMMA FrontsFewer ==
  ASSUME NEW st, NEW tt, NEW shift \in [Conn -> Nat], NEW done, NEW n, Fronts(st, done, n),
         Remains(tt, st, shift)
  PROVE  Fronts(tt, done, n)
<1>1. Masters \subseteq Conn /\ \A c \in Conn, k \in Nat : shift[c] \in Nat /\ k + shift[c] \in Nat
  BY DEF Masters
<1>2. \A c \in Masters, k \in Nat :
        Begins(tt[c], k) => tt[c][k].frame \notin done /\ tt[c][k].frame.of <= n
  BY <1>1 DEF Fronts, Remains
<1>3. ASSUME NEW c \in Masters, NEW d \in Masters, NEW k \in Nat, NEW l \in Nat,
             Begins(tt[c], k), Begins(tt[d], l), tt[c][k].frame = tt[d][l].frame
      PROVE  c = d /\ k = l
  <2>1. /\ Begins(st[c], k + shift[c]) /\ Begins(st[d], l + shift[d])
        /\ st[c][k + shift[c]].frame = st[d][l + shift[d]].frame
    BY <1>1, <1>3 DEF Remains
  <2>2. c = d /\ k + shift[c] = l + shift[d]
    BY <1>1, <2>1 DEF Fronts
  <2> QED BY <1>1, <2>2
<1>4. \A c \in Conn \ Masters, k \in Nat : Begins(tt[c], k) => tt[c][k].frame.fc # "big"
  BY <1>1 DEF Fronts, Remains
<1>5. \A f \in done : f.of <= n
  BY DEF Fronts
<1> QED BY <1>2, <1>3, <1>4, <1>5 DEF Fronts

\* The first pieces of a stream are taken.
LEMMA ConsumeRemains ==
  ASSUME TypeOK, NEW i \in 1..Slots, tcpclient[i] \in Conn, NEW m \in Nat, Consume(i, m)
  PROVE  \E shift \in [Conn -> Nat] :
           shift[tcpclient[i]] = m /\ Remains(stream', stream, shift)
<1> DEFINE c == tcpclient[i]
           s == stream[c]
           t == SubSeq(s, m + 1, Len(s))
           shift == [d \in Conn |-> IF d = c THEN m ELSE 0]
           u == stream'
<1>1. s \in Seq(Piece) /\ c \in Conn
  BY DEF TypeOK
<1>2. u = [stream EXCEPT ![c] = t] /\ stream \in [Conn -> Seq(Piece)]
  BY DEF Consume, TypeOK
<1>3. shift \in [Conn -> Nat] /\ shift[c] = m /\ \A d \in Conn : d # c => shift[d] = 0
  BY <1>1
<1> HIDE DEF c, s, shift, u
<1>4. u[c] = t /\ \A d \in Conn : d # c => u[d] = stream[d]
  BY <1>1, <1>2
<1>5. \A k \in DOMAIN t : k + m \in DOMAIN s /\ t[k] = s[k + m]
  BY <1>1, RestElements
<1> HIDE DEF t
<1>6. \A k \in Nat : Begins(t, k) => Begins(s, k + m) /\ t[k] = s[k + m]
  BY <1>5 DEF Begins
<1>7. ASSUME NEW d \in Conn, NEW k \in Nat, Begins(u[d], k)
      PROVE  Begins(stream[d], k + shift[d]) /\ u[d][k] = stream[d][k + shift[d]]
  <2>1. CASE d = c
    BY <1>3, <1>4, <1>6, <1>7, <2>1 DEF s
  <2>2. CASE d # c
    <3>1. shift[d] = 0 /\ k + 0 = k /\ u[d] = stream[d]
      BY <1>3, <1>4, <2>2
    <3> QED BY <1>7, <3>1
  <2> QED BY <2>1, <2>2
<1>8. Remains(u, stream, shift)
  BY <1>7 DEF Remains
<1> QED BY <1>3, <1>8 DEF c, u

LEMMA FrontsConsumed ==
  ASSUME TypeOK, NEW i \in 1..Slots, tcpclient[i] \in Conn, NEW m \in Nat, Consume(i, m),
         NEW done, NEW n, Fronts(stream, done, n)
  PROVE  Fronts(stream', done, n)
<1>1. PICK shift \in [Conn -> Nat] : Remains(stream', stream, shift)
  BY ConsumeRemains
<1> QED BY <1>1, FrontsFewer

\* The first frame of a master's stream is served or refused: it was not before,
\* and begins nowhere any more.
LEMMA FrontsTaken ==
  ASSUME TypeOK, NEW i \in 1..Slots, InStep(i), tcpclient[i].side = "in",
         NEW m \in 1..2, Consume(i, m), NEW done, NEW n, Fronts(stream, done, n)
  PROVE  Next1(i).frame \notin done /\ Fronts(stream', done \cup {Next1(i).frame}, n)
<1> DEFINE c == tcpclient[i]
           f == Next1(i).frame
           u == stream'
<1>1. c \in Masters /\ c \in Conn /\ stream[c] \in Seq(Piece) /\ u \in [Conn -> Seq(Piece)]
  BY ConsumedTypes DEF InStep, Masters
<1>2. Begins(stream[c], 1) /\ f = stream[c][1].frame
  <2>1. stream[c] # <<>> /\ stream[c][1].part = "front"
    BY DEF InStep, Readable, Next1
  <2> QED BY <1>1, <2>1 DEF Begins, Next1
<1>3. PICK shift \in [Conn -> Nat] : shift[c] = m /\ Remains(u, stream, shift)
  BY <1>1, ConsumeRemains
<1>4. Fronts(u, done, n)
  BY <1>3, FrontsFewer
<1> HIDE DEF c, f, u
<1>5. f \notin done /\ f.of <= n
  BY <1>1, <1>2 DEF Fronts
<1>6. ASSUME NEW d \in Masters, NEW k \in Nat, Begins(u[d], k) PROVE u[d][k].frame # f
  <2>1. d \in Conn
    BY DEF Masters
  <2>2. shift[d] \in Nat /\ k + shift[d] \in Nat
    <3>1. shift[d] \in Nat
      BY <1>3, <2>1
    <3> QED BY <3>1
  <2>3. Begins(stream[d], k + shift[d]) /\ u[d][k] = stream[d][k + shift[d]]
    BY <1>3, <1>6, <2>1 DEF Remains
  <2>4. k # 0
    <3>1. u[d] \in Seq(Piece)
      BY <1>1, <2>1
    <3> QED BY <1>6, <3>1 DEF Begins
  <2>5. d = c => k + shift[d] # 1
    BY <1>3, <2>4
  <2> QED BY <1>1, <1>2, <2>2, <2>3, <2>5 DEF Fronts
<1>7. Fronts(u, done \cup {f}, n)
  BY <1>4, <1>5, <1>6 DEF Fronts
<1> QED BY <1>5, <1>7 DEF f, u

\* A frame that is sent begins once, behind the others.
LEMMA Sends ==
  ASSUME TypeOK, NEW c \in Conn, NEW f \in Frame, NEW whole \in BOOLEAN, Send1(c, f, whole)
  PROVE  Sent(stream', stream, c, f)
<1> DEFINE front == [frame |-> f, part |-> "front"]
           rest == [frame |-> f, part |-> "rest"]
           added == IF whole THEN <<front, rest>> ELSE <<front>>
           s == stream[c]
           t == s \o added
           u == stream'
<1>1. /\ added \in Seq(Piece) /\ added[1].frame = f
      /\ \A k \in DOMAIN added : k = 1 \/ (k = 2 /\ added[k].part = "rest")
  <2>1. front \in Piece /\ rest \in Piece /\ front.frame = f /\ rest.part = "rest"
    BY DEF Piece
  <2> HIDE DEF front, rest
  <2>2. CASE whole
    BY <2>1, <2>2
  <2>3. CASE ~whole
    BY <2>1, <2>3
  <2> QED BY <2>2, <2>3
<1>2. s \in Seq(Piece) /\ u = [stream EXCEPT ![c] = t] /\ stream \in [Conn -> Seq(Piece)]
  BY DEF TypeOK, Send1
<1> HIDE DEF added, s, u
<1>3. /\ t \in Seq(Piece) /\ Len(t) = Len(s) + Len(added)
      /\ \A k \in 1 .. Len(s) + Len(added) : t[k] = IF k <= Len(s) THEN s[k] ELSE added[k - Len(s)]
  BY <1>1, <1>2, ConcatProperties
<1>4. /\ Len(s) \in Nat /\ Len(added) \in Nat
      /\ DOMAIN s = 1..Len(s) /\ DOMAIN added = 1..Len(added)
  BY <1>1, <1>2
<1>5. u[c] = t /\ \A d \in Conn : d # c => u[d] = stream[d]
  BY <1>2
<1> HIDE DEF t
<1>6. ASSUME NEW k \in Nat, Begins(t, k)
      PROVE  (Begins(s, k) /\ t[k] = s[k]) \/ (k = Len(s) + 1 /\ t[k].frame = f)
  <2>1. k \in 1 .. Len(s) + Len(added) /\ t[k].part = "front"
    BY <1>3, <1>6 DEF Begins
  <2>2. CASE k <= Len(s)
    BY <1>3, <1>4, <2>1, <2>2 DEF Begins
  <2>3. CASE ~(k <= Len(s))
    <3>1. k - Len(s) \in DOMAIN added /\ t[k] = added[k - Len(s)]
      BY <1>3, <1>4, <2>1, <2>3
    <3>2. k - Len(s) = 1
      BY <1>1, <2>1, <3>1
    <3> QED BY <1>1, <1>4, <3>1, <3>2
  <2> QED BY <2>2, <2>3
<1>7. Sent(u, stream, c, f)
  BY <1>5, <1>6 DEF Sent, s
<1> QED BY <1>7 DEF u

LEMMA FrontsAsked ==
  ASSUME TypeOK, NEW done \in SUBSET Frame, NEW n \in Nat, Fronts(stream, done, n), NEW c \in Masters,
         NEW f \in Frame, f.of = n + 1, NEW u, Sent(u, stream, c, f)
  PROVE  Fronts(u, done, n + 1)
<1>1. Masters \subseteq Conn
  BY DEF Masters
<1> DEFINE Old(d, k) == Begins(stream[d], k) /\ u[d][k] = stream[d][k]
           New(d, k) == d = c /\ k = Len(stream[c]) + 1 /\ u[d][k].frame = f
<1>2. \A d \in Conn, k \in Nat : Begins(u[d], k) => Old(d, k) \/ New(d, k)
  BY DEF Sent
<1>3. ASSUME NEW d \in Masters, NEW k \in Nat, Begins(stream[d], k)
      PROVE  /\ stream[d][k].frame \notin done /\ stream[d][k].frame # f
             /\ stream[d][k].frame.of <= n + 1
  <2>1. stream[d] \in Seq(Piece)
    BY <1>1 DEF TypeOK
  <2>2. stream[d][k] \in Piece
    BY <1>3, <2>1 DEF Begins
  <2>3. stream[d][k].frame.of \in Nat
    BY <2>2, BoundAssumption DEF Piece, Frame
  <2>4. stream[d][k].frame.of <= n /\ stream[d][k].frame \notin done
    BY <1>3 DEF Fronts
  <2> QED BY <2>3, <2>4
<1>4. \A g \in done : g.of <= n + 1 /\ g # f
  <2>1. \A g \in done : g.of \in Nat /\ g.of <= n
    BY BoundAssumption DEF Frame, Fronts
  <2> QED BY <2>1
<1>5. \A d \in Masters, k \in Nat : Begins(u[d], k) => u[d][k].frame \notin done /\ u[d][k].frame.of <= n + 1
  <2>1. f \notin done /\ f.of <= n + 1
    BY <1>4
  <2> QED BY <1>1, <1>2, <1>3, <2>1
<1>6. ASSUME NEW d \in Masters, NEW e \in Masters, NEW k \in Nat, NEW l \in Nat,
             Begins(u[d], k), Begins(u[e], l), u[d][k].frame = u[e][l].frame
      PROVE  d = e /\ k = l
  <2>1. (Old(d, k) \/ New(d, k)) /\ (Old(e, l) \/ New(e, l))
    BY <1>1, <1>2, <1>6
  <2>2. CASE Old(d, k) /\ Old(e, l)
    <3>1. stream[d][k].frame = stream[e][l].frame
      BY <1>6, <2>2
    <3> QED BY <2>2, <3>1 DEF Fronts
  <2>3. CASE New(d, k) /\ New(e, l)
    BY <2>3
  <2>4. CASE Old(d, k) /\ New(e, l)
    BY <1>3, <1>6, <2>4
  <2>5. CASE New(d, k) /\ Old(e, l)
    BY <1>3, <1>6, <2>5
  <2> QED BY <2>1, <2>2, <2>3, <2>4, <2>5
<1>7. \A d \in Conn \ Masters, k \in Nat : Begins(u[d], k) => u[d][k].frame.fc # "big"
  BY <1>2 DEF Fronts
<1> QED BY <1>4, <1>5, <1>6, <1>7 DEF Fronts

\* What a slave sends is not a master's frame, nor oversized.
LEMMA FrontsAnswered ==
  ASSUME NEW done, NEW n, Fronts(stream, done, n), NEW c \in Conn, c.side = "out",
         NEW f, f.fc # "big", NEW u, Sent(u, stream, c, f)
  PROVE  Fronts(u, done, n)
<1>1. Masters \subseteq Conn /\ c \notin Masters
  BY DEF Masters
<1>2. \A d \in Masters, k \in Nat : Begins(u[d], k) => Begins(stream[d], k) /\ u[d][k] = stream[d][k]
  BY <1>1 DEF Sent
<1>3. \A d \in Conn \ Masters, k \in Nat : Begins(u[d], k) => u[d][k].frame.fc # "big"
  BY DEF Sent, Fronts
<1>4. \A d \in Masters, k \in Nat : Begins(u[d], k) => u[d][k].frame \notin done /\ u[d][k].frame.of <= n
  BY <1>2 DEF Fronts
<1>5. \A d, e \in Masters, k, l \in Nat :
        Begins(u[d], k) /\ Begins(u[e], l) /\ u[d][k].frame = u[e][l].frame => d = e /\ k = l
  BY <1>2 DEF Fronts
<1>6. \A g \in done : g.of <= n
  BY DEF Fronts
<1> QED BY <1>3, <1>4, <1>5, <1>6 DEF Fronts

\* Connections go down, or nothing new begins.
LEMMA FrontsKept ==
  ASSUME NEW done, NEW n, Fronts(stream, done, n), NEW u,
         \A c \in Conn, k \in Nat : Begins(u[c], k) => Begins(stream[c], k) /\ u[c][k] = stream[c][k]
  PROVE  Fronts(u, done, n)
<1> DEFINE shift == [c \in Conn |-> 0]
<1>1. shift \in [Conn -> Nat] /\ \A c \in Conn : shift[c] = 0
  OBVIOUS
<1> HIDE DEF shift
<1>2. \A c \in Conn, k \in Nat : k + shift[c] = k
  BY <1>1
<1>3. Remains(u, stream, shift)
  BY <1>2 DEF Remains
<1> QED BY <1>1, <1>3, FrontsFewer
\* The request or response at the head of a slot's stream.
LEMMA HeadBegins ==
  ASSUME TypeOK, NEW i \in 1..Slots, InStep(i)
  PROVE  /\ tcpclient[i] \in Conn /\ Next1(i).frame \in Frame
         /\ Begins(stream[tcpclient[i]], 1) /\ Next1(i) = stream[tcpclient[i]][1]
<1>1. tcpclient[i] \in Conn /\ stream[tcpclient[i]] # <<>>
  BY DEF InStep, Readable, TypeOK
<1>2. stream[tcpclient[i]] \in Seq(Piece)
  BY <1>1 DEF TypeOK
<1>3. Next1(i) = stream[tcpclient[i]][1] /\ Next1(i).part = "front"
  BY DEF InStep, Next1
<1>4. Next1(i) \in Piece /\ 1 \in DOMAIN stream[tcpclient[i]]
  BY <1>1, <1>2, <1>3
<1> QED BY <1>1, <1>3, <1>4 DEF Piece, Begins

Done == served \cup refused
Framed ==
  /\ AskedOut /\ LateRests
  /\ Fronts(stream, Done, MaxSends + frames)
  /\ RefusedNotServed

LEMMA FramedInit == Init => Framed
<1> SUFFICES ASSUME Init PROVE Framed
  OBVIOUS
<1>1. AskedOut /\ LateRests /\ RefusedNotServed
  BY DEF Init, AskedOut, LateRests, RefusedNotServed
<1>2. Done = {} /\ \A c \in Conn : stream[c] = <<>>
  BY DEF Init, Done
<1>3. \A c \in Conn, k \in Nat : ~Begins(stream[c], k)
  BY <1>2 DEF Begins
<1>4. Masters \subseteq Conn
  BY DEF Masters
<1> QED BY <1>1, <1>2, <1>3, <1>4 DEF Framed, Fronts

\* Connections go down: nothing is served or refused.
LEMMA FramedClosed ==
  ASSUME Framed, NEW gone, CloseAll(gone), UNCHANGED <<frames, served, refused>>
  PROVE  Framed'
<1>1. AskedOut'
  BY DEF Framed, AskedOut, CloseAll
<1>2. LateRests'
  BY DEF Framed, LateRests, CloseAll
<1> DEFINE u == stream'
<1>3. \A c \in Conn : u[c] = <<>> \/ u[c] = stream[c]
  BY DEF CloseAll
<1>4. Fronts(stream, Done, MaxSends + frames)
  BY DEF Framed
<1> HIDE DEF u
<1>5. \A c \in Conn, k \in Nat : Begins(u[c], k) => Begins(stream[c], k) /\ u[c][k] = stream[c][k]
  BY <1>3 DEF Begins
<1>6. Fronts(u, Done, MaxSends + frames)
  BY <1>4, <1>5, FrontsKept
<1> QED BY <1>1, <1>2, <1>6 DEF Framed, Done, RefusedNotServed, u

LEMMA FramedSame == Framed /\ UNCHANGED <<asked, late, stream, frames, served, refused>> => Framed'
BY DEF Framed, AskedOut, LateRests, Done, RefusedNotServed

LEMMA FramedApplication == TypeOK /\ Framed /\ Application => Framed'
<1> SUFFICES ASSUME TypeOK, Framed, Application PROVE Framed'
  OBVIOUS
<1>1. ASSUME NEW ip \in Peer, AppConnect(ip) PROVE Framed'
  BY <1>1, FramedSame DEF AppConnect
<1>2. ASSUME NEW ip \in Peer, Disconnect(ip) PROVE Framed'
  BY <1>2, FramedClosed DEF Disconnect
<1>3. ASSUME NEW ip \in Peer, SendConnects(ip) PROVE Framed'
  BY <1>1, <1>3 DEF SendConnects
<1>4. ASSUME NEW ip \in Peer, NEW waits \in BOOLEAN, NEW taken \in BOOLEAN, Send(ip, waits, taken)
      PROVE  Framed'
  <2> DEFINE i == First(With(ip, "out"))
  <2>1. i \in With(ip, "out")
    BY <1>4, FirstIn DEF With, Send
  <2>2. tcpclient[i].side = "out"
    BY <2>1 DEF With
  <2>3. /\ asked' = asked \/ asked' = asked \cup {[conn |-> tcpclient[i], id |-> id + 1]}
        /\ UNCHANGED <<tcpclient, called, served, refused, network>>
    BY <1>4 DEF Send
  <2> HIDE DEF i
  <2>4. AskedOut'
    BY <2>2, <2>3 DEF Framed, AskedOut
  <2> QED BY <2>3, <2>4 DEF Framed, network, LateRests, Done, RefusedNotServed
<1>5. CASE DropTransactions
  BY <1>5, FramedSame DEF DropTransactions, network
<1> QED BY <1>1, <1>2, <1>3, <1>4, <1>5 DEF Application

\* A frame of a master is served, or refused.
LEMMA FramedTaken ==
  ASSUME TypeOK, Framed, NEW i \in 1..Slots, InStep(i), tcpclient[i].side = "in",
         NEW m \in 1..2, Consume(i, m), UNCHANGED <<asked, late, frames>>,
         \/ served' = served \cup {Next1(i).frame} /\ refused' = refused
         \/ refused' = refused \cup {Next1(i).frame} /\ served' = served
  PROVE  Framed'
<1> DEFINE f == Next1(i).frame
<1>1. Fronts(stream, Done, MaxSends + frames)
  BY DEF Framed
<1>2. f \notin Done /\ Fronts(stream', Done \cup {f}, MaxSends + frames)
  BY <1>1, FrontsTaken
<1> HIDE DEF f
<1>3. Done' = Done \cup {f} /\ RefusedNotServed'
  BY <1>2 DEF Done, Framed, RefusedNotServed, f
<1> QED BY <1>2, <1>3 DEF Framed, AskedOut, LateRests

\* A frame of a slave is taken.
LEMMA FramedConsumed ==
  ASSUME TypeOK, Framed, NEW i \in 1..Slots, InStep(i), NEW m \in 1..2, Consume(i, m),
         UNCHANGED <<asked, late, frames, served, refused>>
  PROVE  Framed'
<1>1. Fronts(stream, Done, MaxSends + frames) /\ m \in Nat
  BY DEF Framed
<1>2. Fronts(stream', Done, MaxSends + frames)
  BY <1>1, HeadBegins, FrontsConsumed
<1> QED BY <1>2 DEF Framed, AskedOut, LateRests, Done, RefusedNotServed

LEMMA FramedServe == \A i \in 1..Slots : TypeOK /\ Framed /\ Serve(i) => Framed'
<1> SUFFICES ASSUME NEW i \in 1..Slots, TypeOK, Framed, Serve(i) PROVE Framed'
  OBVIOUS
<1> DEFINE c == tcpclient[i]
<1>1. ASSUME InStep(i) PROVE c \in Conn /\ c.side \in {"in", "out"}
  BY <1>1, HeadBegins DEF Conn
<1>2. CASE Resync(i)
  <2> DEFINE u == stream'
  <2>1. c \in Conn /\ u = [stream EXCEPT ![c] = <<>>] /\ stream \in [Conn -> Seq(Piece)]
    BY <1>2 DEF Resync, Readable, TypeOK
  <2> HIDE DEF u
  <2>2. \A d \in Conn : u[d] = <<>> \/ u[d] = stream[d]
    BY <2>1
  <2>3. \A d \in Conn, k \in Nat : Begins(u[d], k) => Begins(stream[d], k) /\ u[d][k] = stream[d][k]
    BY <2>2 DEF Begins
  <2>4. Fronts(stream, Done, MaxSends + frames)
    BY DEF Framed
  <2>5. Fronts(u, Done, MaxSends + frames)
    BY <2>3, <2>4, FrontsKept
  <2> QED BY <1>2, <2>5 DEF Resync, Framed, AskedOut, LateRests, Done, RefusedNotServed, u
<1>3. CASE Oversized(i)
  <2>1. /\ InStep(i) /\ Next1(i).frame.fc = "big" /\ Consume(i, 1)
        /\ refused' = refused \cup {Next1(i).frame} /\ UNCHANGED <<asked, late, frames, served>>
    BY <1>3 DEF Oversized
  <2>2. c \in Masters
    <3>1. Begins(stream[c], 1) /\ stream[c][1].frame.fc = "big" /\ c \in Conn
      BY <2>1, HeadBegins
    <3> QED BY <3>1 DEF Framed, Fronts
  <2>3. c.side = "in"
    BY <2>2 DEF Masters
  <2> QED BY <2>1, <2>3, FramedTaken
<1>4. CASE Short(i)
  <2>1. /\ InStep(i) /\ Consume(i, 1) /\ UNCHANGED <<asked, late, frames, served>>
        /\ refused' = IF c.side = "in" THEN refused \cup {Next1(i).frame} ELSE refused
    BY <1>4 DEF Short
  <2>2. CASE c.side = "in"
    BY <2>1, <2>2, FramedTaken
  <2>3. CASE c.side # "in"
    BY <2>1, <2>3, FramedConsumed
  <2> QED BY <2>2, <2>3
<1>5. CASE ServeRequest(i)
  BY <1>5, FramedTaken DEF ServeRequest
<1>6. CASE TakeResponse(i)
  BY <1>6, FramedConsumed DEF TakeResponse
<1> QED BY <1>2, <1>3, <1>4, <1>5, <1>6 DEF Serve

\* What is left on its way of a frame is its rest.
LEMMA SendsRest ==
  ASSUME TypeOK, LateRests, NEW c \in Conn, NEW f, NEW whole, Send1(c, f, whole)
  PROVE  LateRests'
<1>1. late' = [late EXCEPT ![c] = IF whole THEN <<>> ELSE <<[frame |-> f, part |-> "rest"]>>]
  BY DEF Send1
<1>2. ASSUME NEW d \in Conn, NEW k \in DOMAIN late'[d] PROVE late'[d][k].part = "rest"
  BY <1>1, <1>2 DEF LateRests, TypeOK
<1> QED BY <1>2 DEF LateRests

LEMMA FramedNetwork == TypeOK /\ Framed /\ Network => Framed'
<1> SUFFICES ASSUME TypeOK, Framed, Network PROVE Framed'
  OBVIOUS
<1>0. Fronts(stream, Done, MaxSends + frames) /\ Done \in SUBSET Frame
  BY DEF Framed, TypeOK, Done
<1>1. ASSUME NEW a \in asked, NEW fc \in {"asked", "other", "exception"}, NEW whole \in BOOLEAN,
             SlaveAnswers(a, fc, whole)
      PROVE  Framed'
  <2> DEFINE f == [of |-> a.id, fc |-> fc]
             c == a.conn
  <2>1. c \in Conn /\ a.id \in 1..MaxSends /\ c.side = "out"
    BY DEF TypeOK, Framed, AskedOut
  <2>2. f \in Frame /\ f.fc # "big"
    BY <2>1, BoundAssumption DEF Frame
  <2>3. Send1(c, f, whole) /\ asked' \subseteq asked /\ UNCHANGED <<frames, served, refused>>
    BY <1>1 DEF SlaveAnswers
  <2> HIDE DEF f, c
  <2>4. Sent(stream', stream, c, f)
    BY <2>1, <2>2, <2>3, Sends
  <2>5. Fronts(stream', Done, MaxSends + frames)
    BY <1>0, <2>1, <2>2, <2>4, FrontsAnswered
  <2>6. LateRests'
    BY <2>1, <2>3, SendsRest DEF Framed
  <2> QED BY <2>3, <2>5, <2>6 DEF Framed, AskedOut, Done, RefusedNotServed
<1>2. ASSUME NEW ip \in Peer, MasterConnects(ip) PROVE Framed'
  BY <1>2, FramedSame DEF MasterConnects
<1>3. ASSUME NEW c \in open, NEW fc \in {"asked", "big"}, NEW whole \in BOOLEAN,
             MasterAsks(c, fc, whole)
      PROVE  Framed'
  <2> DEFINE n == MaxSends + frames
             f == [of |-> n + 1, fc |-> fc]
  <2>1. c \in Masters /\ c \in Conn
    BY <1>3 DEF MasterAsks, TypeOK, Masters
  <2>2. n \in Nat /\ f \in Frame /\ f.of = n + 1
    BY <1>3, BoundAssumption DEF Frame, MasterAsks, TypeOK
  <2>3. /\ Send1(c, f, whole) /\ UNCHANGED <<asked, served, refused>>
        /\ frames' = frames + 1 /\ frames \in Nat
    BY <1>3 DEF MasterAsks, TypeOK
  <2>4. MaxSends + frames' = n + 1
    BY <2>3, BoundAssumption
  <2> HIDE DEF f, n
  <2>5. Sent(stream', stream, c, f)
    BY <2>1, <2>2, <2>3, Sends
  <2>6. Fronts(stream', Done, n + 1)
    BY <1>0, <2>1, <2>2, <2>5, FrontsAsked DEF n
  <2>7. LateRests'
    BY <2>1, <2>3, SendsRest DEF Framed
  <2> QED BY <2>3, <2>4, <2>6, <2>7 DEF Framed, AskedOut, Done, RefusedNotServed
<1>4. ASSUME NEW c \in Conn, RestArrives(c) PROVE Framed'
  <2> DEFINE s == stream[c]
             t == late[c]
             u == stream'
  <2>1. /\ s \in Seq(Piece) /\ t \in Seq(Piece)
        /\ u = [stream EXCEPT ![c] = s \o t] /\ stream \in [Conn -> Seq(Piece)]
        /\ late' = [late EXCEPT ![c] = <<>>]
    BY <1>4 DEF RestArrives, TypeOK
  <2>2. \A k \in DOMAIN t : t[k].part = "rest"
    BY DEF Framed, LateRests
  <2>3. LateRests'
    BY <2>1 DEF Framed, LateRests, TypeOK
  <2> HIDE DEF s, t, u
  <2>4. /\ s \o t \in Seq(Piece) /\ Len(s \o t) = Len(s) + Len(t)
        /\ \A k \in 1 .. Len(s) + Len(t) : (s \o t)[k] = IF k <= Len(s) THEN s[k] ELSE t[k - Len(s)]
    BY <2>1, ConcatProperties
  <2>5. Len(s) \in Nat /\ Len(t) \in Nat /\ DOMAIN s = 1..Len(s) /\ DOMAIN t = 1..Len(t)
    BY <2>1
  <2>6. ASSUME NEW k \in Nat, Begins(s \o t, k) PROVE Begins(s, k) /\ (s \o t)[k] = s[k]
    <3>1. k \in 1 .. Len(s) + Len(t) /\ (s \o t)[k].part = "front"
      BY <2>4, <2>6 DEF Begins
    <3>2. k <= Len(s)
      <4>1. ASSUME ~(k <= Len(s)) PROVE FALSE
        <5>1. k - Len(s) \in DOMAIN t /\ (s \o t)[k] = t[k - Len(s)]
          BY <2>4, <2>5, <3>1, <4>1
        <5> QED BY <2>2, <3>1, <5>1
      <4> QED BY <4>1
    <3> QED BY <2>4, <2>5, <3>1, <3>2 DEF Begins
  <2>7. u[c] = s \o t /\ \A d \in Conn : d # c => u[d] = stream[d]
    BY <2>1
  <2>8. \A d \in Conn, k \in Nat : Begins(u[d], k) => Begins(stream[d], k) /\ u[d][k] = stream[d][k]
    BY <2>6, <2>7 DEF s
  <2>9. Fronts(u, Done, MaxSends + frames)
    BY <1>0, <2>8, FrontsKept
  <2> QED BY <1>4, <2>3, <2>9 DEF RestArrives, Framed, AskedOut, Done, RefusedNotServed, u
<1>5. ASSUME NEW c \in Conn, PeerCloses(c) PROVE Framed'
  BY <1>5, FramedClosed DEF PeerCloses
<1> QED BY <1>1, <1>2, <1>3, <1>4, <1>5 DEF Network, TypeOK

LEMMA FramedStep == TypeOK /\ Framed /\ [Next]_vars => Framed'
<1> SUFFICES ASSUME TypeOK, Framed, [Next]_vars PROVE Framed'
  OBVIOUS
<1>1. CASE Cleanup
  BY <1>1, FramedSame DEF Cleanup, FreeClosed, End, network
<1>2. ASSUME NEW admitted \in BOOLEAN, Accept(admitted) PROVE Framed'
  <2>1. \E gone : CloseAll(gone)
    BY <1>2 DEF Accept
  <2>2. UNCHANGED <<frames, served, refused>>
    BY <1>2 DEF Accept
  <2> QED BY <2>1, <2>2, FramedClosed
<1>3. CASE UNCHANGED vars
  BY <1>3, FramedSame DEF vars
<1> QED BY <1>1, <1>2, <1>3, FramedApplication, FramedServe, FramedNetwork DEF Next

\* CalledOnceWithOwn and RefusedNotServed of every state: a transaction is called
\* back once and with its own response only, and a frame that was refused for
\* coming in part is not carried out when its rest comes.
THEOREM AnswersAreOwn == Spec => []AnswersOwn
<1>1. Init => TypeOK /\ Transacted /\ Framed
  BY TypesInit, TransactedInit, FramedInit
<1>2. TypeOK /\ Transacted /\ Framed /\ [Next]_vars => (TypeOK /\ Transacted /\ Framed)'
  BY Types, TransactedStep, FramedStep
<1>3. TypeOK /\ Transacted /\ Framed => AnswersOwn
  BY DEF Transacted, Distinct, Framed, AnswersOwn, CalledOnceWithOwn
<1> QED BY <1>1, <1>2, <1>3, PTL DEF Spec
=============================================================================
