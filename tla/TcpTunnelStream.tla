--------------------------- MODULE TcpTunnelStream ---------------------------
(* No byte is lost, repeated or reordered: proofs of StreamIntegrity, of   *)
(* HaltedIsDelivered, and that TcpTunnel implements ByteStream.  No thread *)
(* turns in circles: the proof of NoLivelock.                              *)
EXTENDS TcpTunnelProofs

-----------------------------------------------------------------------------
(* One direction as a line of eight pieces, the oldest bytes first.        *)

(* Concatenation as an operator of its own, which the proofs keep opaque.  *)
Cat(s, t) == s \o t

Line(w, f, x, r, s, y, t, v) ==
  Cat(Cat(Cat(Cat(Cat(Cat(Cat(w, f), x), r), s), y), t), v)

ToTun(n)      == Held(mpc[n], "writeTun", mbuf[n])
FromSocket(n) == Held(ppc[n], "writePipe", pbuf[n])
ToSocket(n)   == Held(ppc[n], "send", pbuf[n])
FromTun(n)    == Held(mpc[n], "writePipe", mbuf[n])

LineOf(n) == LET m == Peer(n)
             IN  Line(ToTun(m), fromPlugin[m], FromSocket(m), rcvbuf[m],
                      sndbuf[n], ToSocket(n), toPlugin[n], FromTun(n))

LEMMA TransitIsLine == \A n : Transit(n) = LineOf(n)
  BY DEF Transit, LineOf, Line, Cat, ToTun, FromSocket, ToSocket, FromTun

LEMMA Pieces ==
  ASSUME TypeOK, NEW n \in Node
  PROVE  /\ ToTun(n) \in Seq(Byte) /\ FromSocket(n) \in Seq(Byte)
         /\ ToSocket(n) \in Seq(Byte) /\ FromTun(n) \in Seq(Byte)
         /\ fromPlugin[n] \in Seq(Byte) /\ toPlugin[n] \in Seq(Byte)
         /\ rcvbuf[n] \in Seq(Byte) /\ sndbuf[n] \in Seq(Byte)
         /\ accepted[n] \in Seq(Byte) /\ delivered[n] \in Seq(Byte)
<1>1. mbuf[n] \in Seq(Byte) /\ pbuf[n] \in Seq(Byte) /\ <<>> \in Seq(Byte)
  BY Sizes
<1> QED BY <1>1, Sizes DEF TypeOK, ToTun, FromSocket, ToSocket, FromTun, Held

LEMMA PiecesNext ==
  ASSUME TypeOK', NEW n \in Node
  PROVE  /\ ToTun(n)' \in Seq(Byte) /\ FromSocket(n)' \in Seq(Byte)
         /\ ToSocket(n)' \in Seq(Byte) /\ FromTun(n)' \in Seq(Byte)
         /\ fromPlugin'[n] \in Seq(Byte) /\ toPlugin'[n] \in Seq(Byte)
         /\ rcvbuf'[n] \in Seq(Byte) /\ sndbuf'[n] \in Seq(Byte)
         /\ accepted'[n] \in Seq(Byte) /\ delivered'[n] \in Seq(Byte)
<1>1. /\ mbuf'[n] \in Seq(Byte) /\ pbuf'[n] \in Seq(Byte) /\ <<>> \in Seq(Byte)
      /\ fromPlugin'[n] \in Seq(Byte) /\ toPlugin'[n] \in Seq(Byte)
      /\ rcvbuf'[n] \in Seq(Byte) /\ sndbuf'[n] \in Seq(Byte)
  BY TunnelAssumption DEF TypeOK, Blocks
<1> QED BY <1>1 DEF TypeOK, ToTun, FromSocket, ToSocket, FromTun, Held

(* Bytes that cross the boundary between two neighbours stay in order.     *)
LEMMA CatType == \A S : \A s, t \in Seq(S) : Cat(s, t) \in Seq(S)
  BY DEF Cat

LEMMA CatAssociative ==
  \A S : \A s, t, u \in Seq(S) : Cat(Cat(s, t), u) = Cat(s, Cat(t, u))
  BY DEF Cat

LEMMA CatEmpty == \A S : \A s \in Seq(S) : Cat(s, <<>>) = s /\ Cat(<<>>, s) = s
  BY DEF Cat

LEMMA Shift ==
  ASSUME NEW S, NEW p \in Seq(S), NEW a \in Seq(S), NEW b \in Seq(S),
         NEW c \in Seq(S), NEW d \in Seq(S), Cat(a, b) = Cat(c, d)
  PROVE  Cat(Cat(p, a), b) = Cat(Cat(p, c), d)
  BY CatAssociative

(* Its two ends: bytes enter at the back and leave at the front.           *)
SameBytes(s, t) == s = t

LEMMA LineBack ==
  ASSUME NEW w \in Seq(Byte), NEW f \in Seq(Byte), NEW x \in Seq(Byte), NEW r \in Seq(Byte),
         NEW s \in Seq(Byte), NEW y \in Seq(Byte), NEW t \in Seq(Byte), NEW v \in Seq(Byte)
  PROVE  /\ Line(w, f, x, r, s, y, t, v) \in Seq(Byte)
         /\ SameBytes(Line(w, f, x, r, s, y, t, v), Cat(Line(w, f, x, r, s, y, t, <<>>), v))
<1> DEFINE p == Cat(Cat(Cat(Cat(Cat(Cat(w, f), x), r), s), y), t)
<1>1. p \in Seq(Byte)
  BY CatType
<1> HIDE DEF p
<1>2. Cat(p, v) \in Seq(Byte) /\ Cat(p, v) = Cat(Cat(p, <<>>), v)
  BY <1>1, CatType, CatEmpty
<1> QED BY <1>2 DEF Line, SameBytes, p

LEMMA LineFront ==
  ASSUME NEW w \in Seq(Byte), NEW f \in Seq(Byte), NEW x \in Seq(Byte), NEW r \in Seq(Byte),
         NEW s \in Seq(Byte), NEW y \in Seq(Byte), NEW t \in Seq(Byte), NEW v \in Seq(Byte)
  PROVE  SameBytes(Line(w, f, x, r, s, y, t, v), Cat(w, Line(<<>>, f, x, r, s, y, t, v)))
<1>1. Cat(<<>>, f) = f
  BY CatEmpty
<1>2. Cat(Cat(w, f), x) = Cat(w, Cat(f, x))
  BY CatAssociative
<1>3. Cat(Cat(w, Cat(f, x)), r) = Cat(w, Cat(Cat(f, x), r))
  <2> DEFINE p == Cat(f, x)
  <2>1. p \in Seq(Byte)
    BY CatType
  <2> HIDE DEF p
  <2>2. Cat(Cat(w, p), r) = Cat(w, Cat(p, r))
    BY <2>1, CatAssociative
  <2> QED BY <2>2 DEF p
<1>4. Cat(Cat(w, Cat(Cat(f, x), r)), s) = Cat(w, Cat(Cat(Cat(f, x), r), s))
  <2> DEFINE p == Cat(Cat(f, x), r)
  <2>1. p \in Seq(Byte)
    BY CatType
  <2> HIDE DEF p
  <2>2. Cat(Cat(w, p), s) = Cat(w, Cat(p, s))
    BY <2>1, CatAssociative
  <2> QED BY <2>2 DEF p
<1>5. Cat(Cat(w, Cat(Cat(Cat(f, x), r), s)), y) = Cat(w, Cat(Cat(Cat(Cat(f, x), r), s), y))
  <2> DEFINE p == Cat(Cat(Cat(f, x), r), s)
  <2>1. p \in Seq(Byte)
    BY CatType
  <2> HIDE DEF p
  <2>2. Cat(Cat(w, p), y) = Cat(w, Cat(p, y))
    BY <2>1, CatAssociative
  <2> QED BY <2>2 DEF p
<1>6. Cat(Cat(w, Cat(Cat(Cat(Cat(f, x), r), s), y)), t) = Cat(w, Cat(Cat(Cat(Cat(Cat(f, x), r), s), y), t))
  <2> DEFINE p == Cat(Cat(Cat(Cat(f, x), r), s), y)
  <2>1. p \in Seq(Byte)
    BY CatType
  <2> HIDE DEF p
  <2>2. Cat(Cat(w, p), t) = Cat(w, Cat(p, t))
    BY <2>1, CatAssociative
  <2> QED BY <2>2 DEF p
<1>7. Cat(Cat(w, Cat(Cat(Cat(Cat(Cat(f, x), r), s), y), t)), v) = Cat(w, Cat(Cat(Cat(Cat(Cat(Cat(f, x), r), s), y), t), v))
  <2> DEFINE p == Cat(Cat(Cat(Cat(Cat(f, x), r), s), y), t)
  <2>1. p \in Seq(Byte)
    BY CatType
  <2> HIDE DEF p
  <2>2. Cat(Cat(w, p), v) = Cat(w, Cat(p, v))
    BY <2>1, CatAssociative
  <2> QED BY <2>2 DEF p
<1> QED BY <1>1, <1>2, <1>3, <1>4, <1>5, <1>6, <1>7, Zenon DEF Line, SameBytes

-----------------------------------------------------------------------------
(* Each step leaves the line of each direction as it is, moves bytes       *)
(* between two neighbours, adds bytes at the back or takes the front piece.*)

InOrder(n) == accepted[n] = Cat(delivered[Peer(n)], LineOf(n))

(* In the line of n, no more than two neighbours change, and the bytes in  *)
(* those two, read one after the other, are the same.                      *)
Moves(n) ==
  LET m == Peer(n)
      w == ToTun(m)' = ToTun(m)
      f == fromPlugin'[m] = fromPlugin[m]
      x == FromSocket(m)' = FromSocket(m)
      r == rcvbuf'[m] = rcvbuf[m]
      s == sndbuf'[n] = sndbuf[n]
      y == ToSocket(n)' = ToSocket(n)
      t == toPlugin'[n] = toPlugin[n]
      v == FromTun(n)' = FromTun(n)
  IN  /\ accepted'[n] = accepted[n] /\ delivered'[m] = delivered[m]
      /\ \/ /\ x /\ r /\ s /\ y /\ t /\ v
            /\ Cat(ToTun(m)', fromPlugin'[m]) = Cat(ToTun(m), fromPlugin[m])
         \/ /\ w /\ r /\ s /\ y /\ t /\ v
            /\ Cat(fromPlugin'[m], FromSocket(m)') = Cat(fromPlugin[m], FromSocket(m))
         \/ /\ w /\ f /\ s /\ y /\ t /\ v
            /\ Cat(FromSocket(m)', rcvbuf'[m]) = Cat(FromSocket(m), rcvbuf[m])
         \/ /\ w /\ f /\ x /\ y /\ t /\ v
            /\ Cat(rcvbuf'[m], sndbuf'[n]) = Cat(rcvbuf[m], sndbuf[n])
         \/ /\ w /\ f /\ x /\ r /\ t /\ v
            /\ Cat(sndbuf'[n], ToSocket(n)') = Cat(sndbuf[n], ToSocket(n))
         \/ /\ w /\ f /\ x /\ r /\ s /\ v
            /\ Cat(ToSocket(n)', toPlugin'[n]) = Cat(ToSocket(n), toPlugin[n])
         \/ /\ w /\ f /\ x /\ r /\ s /\ y
            /\ Cat(toPlugin'[n], FromTun(n)') = Cat(toPlugin[n], FromTun(n))

LEMMA MovesKeepOrder ==
  ASSUME TypeOK, TypeOK', NEW n \in Node, InOrder(n), Moves(n)
  PROVE  InOrder(n)'
<1> DEFINE m == Peer(n)
           w == ToTun(m)
           f == fromPlugin[m]
           x == FromSocket(m)
           r == rcvbuf[m]
           s == sndbuf[n]
           y == ToSocket(n)
           t == toPlugin[n]
           v == FromTun(n)
           w2 == ToTun(m)'
           f2 == fromPlugin'[m]
           x2 == FromSocket(m)'
           r2 == rcvbuf'[m]
           s2 == sndbuf'[n]
           y2 == ToSocket(n)'
           t2 == toPlugin'[n]
           v2 == FromTun(n)'
<1>1. m \in Node
  BY PeerFacts
<1>2. /\ w \in Seq(Byte) /\ f \in Seq(Byte) /\ x \in Seq(Byte) /\ r \in Seq(Byte)
      /\ s \in Seq(Byte) /\ y \in Seq(Byte) /\ t \in Seq(Byte) /\ v \in Seq(Byte)
  BY <1>1, Pieces
<1>3. /\ w2 \in Seq(Byte) /\ f2 \in Seq(Byte) /\ x2 \in Seq(Byte) /\ r2 \in Seq(Byte)
      /\ s2 \in Seq(Byte) /\ y2 \in Seq(Byte) /\ t2 \in Seq(Byte) /\ v2 \in Seq(Byte)
  BY <1>1, PiecesNext
<1>4. \/ /\ x2 = x /\ r2 = r /\ s2 = s /\ y2 = y /\ t2 = t /\ v2 = v
         /\ Cat(w2, f2) = Cat(w, f)
      \/ /\ w2 = w /\ r2 = r /\ s2 = s /\ y2 = y /\ t2 = t /\ v2 = v
         /\ Cat(f2, x2) = Cat(f, x)
      \/ /\ w2 = w /\ f2 = f /\ s2 = s /\ y2 = y /\ t2 = t /\ v2 = v
         /\ Cat(x2, r2) = Cat(x, r)
      \/ /\ w2 = w /\ f2 = f /\ x2 = x /\ y2 = y /\ t2 = t /\ v2 = v
         /\ Cat(r2, s2) = Cat(r, s)
      \/ /\ w2 = w /\ f2 = f /\ x2 = x /\ r2 = r /\ t2 = t /\ v2 = v
         /\ Cat(s2, y2) = Cat(s, y)
      \/ /\ w2 = w /\ f2 = f /\ x2 = x /\ r2 = r /\ s2 = s /\ v2 = v
         /\ Cat(y2, t2) = Cat(y, t)
      \/ /\ w2 = w /\ f2 = f /\ x2 = x /\ r2 = r /\ s2 = s /\ y2 = y
         /\ Cat(t2, v2) = Cat(t, v)
  BY Zenon DEF Moves
<1>5. LineOf(n) = Line(w, f, x, r, s, y, t, v)
  BY DEF LineOf
<1>6. LineOf(n)' = Line(w2, f2, x2, r2, s2, y2, t2, v2)
  BY DEF LineOf
<1>7. accepted'[n] = accepted[n] /\ delivered'[m] = delivered[m]
  BY DEF Moves
<1> HIDE DEF m, w, f, x, r, s, y, t, v, w2, f2, x2, r2, s2, y2, t2, v2
<1>8. Line(w2, f2, x2, r2, s2, y2, t2, v2) = Line(w, f, x, r, s, y, t, v)
  <2>1. CASE /\ x2 = x /\ r2 = r /\ s2 = s /\ y2 = y /\ t2 = t /\ v2 = v
             /\ Cat(w2, f2) = Cat(w, f)
    BY <2>1 DEF Line
  <2>2. CASE /\ w2 = w /\ r2 = r /\ s2 = s /\ y2 = y /\ t2 = t /\ v2 = v
             /\ Cat(f2, x2) = Cat(f, x)
    <3> DEFINE p == w
    <3>1. p \in Seq(Byte)
      BY <1>2, CatType
    <3> HIDE DEF p
    <3>2. Cat(Cat(p, f2), x2) = Cat(Cat(p, f), x)
      BY <1>2, <1>3, <2>2, <3>1, Shift
    <3> QED BY <2>2, <3>2 DEF Line, p
  <2>3. CASE /\ w2 = w /\ f2 = f /\ s2 = s /\ y2 = y /\ t2 = t /\ v2 = v
             /\ Cat(x2, r2) = Cat(x, r)
    <3> DEFINE p == Cat(w, f)
    <3>1. p \in Seq(Byte)
      BY <1>2, CatType
    <3> HIDE DEF p
    <3>2. Cat(Cat(p, x2), r2) = Cat(Cat(p, x), r)
      BY <1>2, <1>3, <2>3, <3>1, Shift
    <3> QED BY <2>3, <3>2 DEF Line, p
  <2>4. CASE /\ w2 = w /\ f2 = f /\ x2 = x /\ y2 = y /\ t2 = t /\ v2 = v
             /\ Cat(r2, s2) = Cat(r, s)
    <3> DEFINE p == Cat(Cat(w, f), x)
    <3>1. p \in Seq(Byte)
      BY <1>2, CatType
    <3> HIDE DEF p
    <3>2. Cat(Cat(p, r2), s2) = Cat(Cat(p, r), s)
      BY <1>2, <1>3, <2>4, <3>1, Shift
    <3> QED BY <2>4, <3>2 DEF Line, p
  <2>5. CASE /\ w2 = w /\ f2 = f /\ x2 = x /\ r2 = r /\ t2 = t /\ v2 = v
             /\ Cat(s2, y2) = Cat(s, y)
    <3> DEFINE p == Cat(Cat(Cat(w, f), x), r)
    <3>1. p \in Seq(Byte)
      BY <1>2, CatType
    <3> HIDE DEF p
    <3>2. Cat(Cat(p, s2), y2) = Cat(Cat(p, s), y)
      BY <1>2, <1>3, <2>5, <3>1, Shift
    <3> QED BY <2>5, <3>2 DEF Line, p
  <2>6. CASE /\ w2 = w /\ f2 = f /\ x2 = x /\ r2 = r /\ s2 = s /\ v2 = v
             /\ Cat(y2, t2) = Cat(y, t)
    <3> DEFINE p == Cat(Cat(Cat(Cat(w, f), x), r), s)
    <3>1. p \in Seq(Byte)
      BY <1>2, CatType
    <3> HIDE DEF p
    <3>2. Cat(Cat(p, y2), t2) = Cat(Cat(p, y), t)
      BY <1>2, <1>3, <2>6, <3>1, Shift
    <3> QED BY <2>6, <3>2 DEF Line, p
  <2>7. CASE /\ w2 = w /\ f2 = f /\ x2 = x /\ r2 = r /\ s2 = s /\ y2 = y
             /\ Cat(t2, v2) = Cat(t, v)
    <3> DEFINE p == Cat(Cat(Cat(Cat(Cat(w, f), x), r), s), y)
    <3>1. p \in Seq(Byte)
      BY <1>2, CatType
    <3> HIDE DEF p
    <3>2. Cat(Cat(p, t2), v2) = Cat(Cat(p, t), v)
      BY <1>2, <1>3, <2>7, <3>1, Shift
    <3> QED BY <2>7, <3>2 DEF Line, p
  <2> QED BY <1>4, <2>1, <2>2, <2>3, <2>4, <2>5, <2>6, <2>7
<1> QED BY <1>5, <1>6, <1>7, <1>8 DEF InOrder, m

(* Bytes read from the TUN of n enter at the back of n's line.             *)
LEMMA EntersKeepsOrder ==
  ASSUME TypeOK, TypeOK', NEW n \in Node, InOrder(n),
         FromTun(n) = <<>>, accepted'[n] = Cat(accepted[n], FromTun(n)'),
         delivered'[Peer(n)] = delivered[Peer(n)],
         ToTun(Peer(n))' = ToTun(Peer(n)), fromPlugin'[Peer(n)] = fromPlugin[Peer(n)],
         FromSocket(Peer(n))' = FromSocket(Peer(n)), rcvbuf'[Peer(n)] = rcvbuf[Peer(n)],
         sndbuf'[n] = sndbuf[n], ToSocket(n)' = ToSocket(n), toPlugin'[n] = toPlugin[n]
  PROVE  InOrder(n)'
<1> DEFINE m == Peer(n)
           w == ToTun(m)
           f == fromPlugin[m]
           x == FromSocket(m)
           r == rcvbuf[m]
           s == sndbuf[n]
           y == ToSocket(n)
           t == toPlugin[n]
           v == FromTun(n)'
           line == Line(w, f, x, r, s, y, t, <<>>)
<1>1. m \in Node
  BY PeerFacts
<1>2. /\ w \in Seq(Byte) /\ f \in Seq(Byte) /\ x \in Seq(Byte) /\ r \in Seq(Byte)
      /\ s \in Seq(Byte) /\ y \in Seq(Byte) /\ t \in Seq(Byte) /\ v \in Seq(Byte)
  BY <1>1, Pieces, PiecesNext
<1>3. LineOf(n) = line /\ LineOf(n)' = Line(w, f, x, r, s, y, t, v)
  BY DEF LineOf
<1>4. delivered[m] \in Seq(Byte) /\ <<>> \in Seq(Byte)
  BY <1>1, Pieces
<1> HIDE DEF m, w, f, x, r, s, y, t, v
<1>5. line \in Seq(Byte) /\ Line(w, f, x, r, s, y, t, v) = Cat(line, v)
  <2>1. line \in Seq(Byte)
    BY <1>2, <1>4, LineBack, Zenon
  <2>2. SameBytes(Line(w, f, x, r, s, y, t, v), Cat(line, v))
    BY <1>2, <1>4, LineBack, Zenon
  <2> QED BY <2>1, <2>2 DEF SameBytes
<1> HIDE DEF line
<1>6. Cat(Cat(delivered[m], line), v) = Cat(delivered[m], Cat(line, v))
  BY <1>2, <1>4, <1>5, CatAssociative
<1> QED BY <1>3, <1>5, <1>6 DEF InOrder, m, v

(* Bytes written to the TUN of its peer leave at the front.                *)
LEMMA LeavesKeepsOrder ==
  ASSUME TypeOK, TypeOK', NEW n \in Node, InOrder(n), accepted'[n] = accepted[n],
         ToTun(Peer(n))' = <<>>,
         delivered'[Peer(n)] = Cat(delivered[Peer(n)], ToTun(Peer(n))),
         fromPlugin'[Peer(n)] = fromPlugin[Peer(n)],
         FromSocket(Peer(n))' = FromSocket(Peer(n)), rcvbuf'[Peer(n)] = rcvbuf[Peer(n)],
         sndbuf'[n] = sndbuf[n], ToSocket(n)' = ToSocket(n), toPlugin'[n] = toPlugin[n],
         FromTun(n)' = FromTun(n)
  PROVE  InOrder(n)'
<1> DEFINE m == Peer(n)
           w == ToTun(m)
           f == fromPlugin[m]
           x == FromSocket(m)
           r == rcvbuf[m]
           s == sndbuf[n]
           y == ToSocket(n)
           t == toPlugin[n]
           v == FromTun(n)
           line == Line(<<>>, f, x, r, s, y, t, v)
<1>1. m \in Node
  BY PeerFacts
<1>2. /\ w \in Seq(Byte) /\ f \in Seq(Byte) /\ x \in Seq(Byte) /\ r \in Seq(Byte)
      /\ s \in Seq(Byte) /\ y \in Seq(Byte) /\ t \in Seq(Byte) /\ v \in Seq(Byte)
  BY <1>1, Pieces
<1>3. LineOf(n) = Line(w, f, x, r, s, y, t, v) /\ LineOf(n)' = line
  BY DEF LineOf
<1>4. delivered[m] \in Seq(Byte) /\ <<>> \in Seq(Byte)
  BY <1>1, Pieces
<1> HIDE DEF m, w, f, x, r, s, y, t, v
<1>5. line \in Seq(Byte) /\ Line(w, f, x, r, s, y, t, v) = Cat(w, line)
  <2>1. line \in Seq(Byte)
    BY <1>2, <1>4, LineBack, Zenon
  <2>2. SameBytes(Line(w, f, x, r, s, y, t, v), Cat(w, line))
    BY <1>2, <1>4, LineFront, Zenon
  <2> QED BY <2>1, <2>2 DEF SameBytes
<1> HIDE DEF line
<1>6. Cat(Cat(delivered[m], w), line) = Cat(delivered[m], Cat(w, line))
  BY <1>2, <1>4, <1>5, CatAssociative
<1> QED BY <1>3, <1>5, <1>6 DEF InOrder, m, w

LEMMA ChunkThenRest ==
  ASSUME NEW s \in Seq(Byte), NEW size \in Nat
  PROVE  /\ Chunk(s, size) \in Seq(Byte) /\ Rest(s, size) \in Seq(Byte)
         /\ Cat(Chunk(s, size), Rest(s, size)) = s
  BY ChunkRest DEF Cat

LEMMA OrderStep ==
  ASSUME TypeOK, [Next]_vars, \A n \in Node : InOrder(n), NEW n \in Node
  PROVE  InOrder(n)'
<1> DEFINE m == Peer(n)
<1>0. TypeOK' /\ m \in Node /\ InOrder(n) /\ Peer(m) = n
  BY TypeStep, PeerFacts
<1> USE DEF m
<1>1. CASE Moves(n)
  BY <1>0, <1>1, MovesKeepOrder
(* What a thread holds while it does not move, and that it holds nothing   *)
(* unless it is about to write or to send.                                 *)
<1>2. ASSUME NEW q \in Node, mpc'[q] = mpc[q], mbuf'[q] = mbuf[q]
      PROVE  ToTun(q)' = ToTun(q) /\ FromTun(q)' = FromTun(q)
  BY <1>2 DEF ToTun, FromTun
<1>3. ASSUME NEW q \in Node, ppc'[q] = ppc[q], pbuf'[q] = pbuf[q]
      PROVE  FromSocket(q)' = FromSocket(q) /\ ToSocket(q)' = ToSocket(q)
  BY <1>3 DEF FromSocket, ToSocket
(* Steps that hold nothing, before or after.                               *)
<1>4. CASE Connect \/ PluginAccept
  <2>1. UNCHANGED <<mbuf, pbuf, toPlugin, fromPlugin, sndbuf, rcvbuf, accepted, delivered>>
    BY <1>4 DEF Connect, PluginAccept, mainVars, pipeVars, sockVars, history
  <2>2. \A q \in Node : ToTun(q)' = ToTun(q) /\ FromTun(q)' = FromTun(q)
    <3>1. CASE Connect
      BY <2>1, <3>1 DEF Connect, TypeOK, ToTun, FromTun, Held
    <3>2. CASE PluginAccept
      BY <2>1, <3>2 DEF PluginAccept, mainVars, ToTun, FromTun
    <3> QED BY <1>4, <3>1, <3>2
  <2>3. \A q \in Node : FromSocket(q)' = FromSocket(q) /\ ToSocket(q)' = ToSocket(q)
    <3>1. CASE Connect
      BY <2>1, <3>1 DEF Connect, TypeOK, FromSocket, ToSocket, Held
    <3>2. CASE PluginAccept
      BY <2>1, <3>2 DEF PluginAccept, TypeOK, FromSocket, ToSocket, Held
    <3> QED BY <1>4, <3>1, <3>2
  <2> QED BY <1>0, <1>1, <2>1, <2>2, <2>3, Zenon DEF Moves
<1>5. CASE UNCHANGED vars
  <2>1. \A q \in Node : /\ ToTun(q)' = ToTun(q) /\ FromTun(q)' = FromTun(q)
                        /\ FromSocket(q)' = FromSocket(q) /\ ToSocket(q)' = ToSocket(q)
    BY <1>2, <1>3, <1>5 DEF vars, mainVars, pluginVars
  <2> QED BY <1>0, <1>1, <1>5, <2>1, Zenon DEF Moves, vars, pipeVars, sockVars, history
<1>6. ASSUME NEW p \in Node, \/ TunArrive(p) \/ MainSelectTun(p) \/ MainSelectPipe(p)
                             \/ PluginSelectSocket(p) \/ PluginSelectPipe(p)
      PROVE  InOrder(n)'
  <2>1. UNCHANGED <<mbuf, pbuf, toPlugin, fromPlugin, sndbuf, rcvbuf, accepted, delivered>>
    BY <1>6 DEF TunArrive, MainSelectTun, MainSelectPipe, PluginSelectSocket, PluginSelectPipe,
                mainVars, pluginVars, pipeVars, sockVars, history
  <2>2. \A q \in Node : /\ ToTun(q)' = ToTun(q) /\ FromTun(q)' = FromTun(q)
                        /\ FromSocket(q)' = FromSocket(q) /\ ToSocket(q)' = ToSocket(q)
    BY <1>6 DEF TunArrive, MainSelectTun, MainSelectPipe, PluginSelectSocket, PluginSelectPipe,
                mainVars, pluginVars, TypeOK, ToTun, FromTun, FromSocket, ToSocket, Held
  <2> QED BY <1>0, <1>1, <2>1, <2>2, Zenon DEF Moves
<1>7. ASSUME NEW p \in Node, NetDeliver(p) PROVE InOrder(n)'
  <2>1. PICK k \in 1..Len(sndbuf[p]) :
          /\ rcvbuf' = [rcvbuf EXCEPT ![Peer(p)] = @ \o Chunk(sndbuf[p], k)]
          /\ sndbuf' = [sndbuf EXCEPT ![p] = Rest(@, k)]
    BY <1>7 DEF NetDeliver
  <2>2. UNCHANGED <<mpc, mbuf, ppc, pbuf, toPlugin, fromPlugin, accepted, delivered>>
    BY <1>7 DEF NetDeliver, mainVars, pluginVars, pipeVars, history
  <2>3. \A q \in Node : /\ ToTun(q)' = ToTun(q) /\ FromTun(q)' = FromTun(q)
                        /\ FromSocket(q)' = FromSocket(q) /\ ToSocket(q)' = ToSocket(q)
    BY <1>2, <1>3, <2>2
  <2>4. Cat(rcvbuf'[m], sndbuf'[n]) = Cat(rcvbuf[m], sndbuf[n])
    <3>1. CASE n # p
      <4>1. m # Peer(p)
        BY <1>0, <3>1, PeerFacts, Zenon
      <4>2. sndbuf'[n] = sndbuf[n]
        BY <1>0, <2>1, <3>1 DEF TypeOK
      <4>3. rcvbuf'[m] = rcvbuf[m]
        BY <1>0, <2>1, <4>1 DEF TypeOK
      <4> QED BY <4>2, <4>3
    <3>2. CASE n = p
      <4> DEFINE c == Chunk(sndbuf[p], k)
                 d == Rest(sndbuf[p], k)
      <4>1. rcvbuf[m] \in Seq(Byte) /\ sndbuf[p] \in Seq(Byte) /\ k \in Nat
        BY <1>0, Pieces
      <4>2. c \in Seq(Byte) /\ d \in Seq(Byte) /\ Cat(c, d) = sndbuf[p]
        BY <4>1, ChunkThenRest, Zenon
      <4>3. rcvbuf'[m] = Cat(rcvbuf[m], c) /\ sndbuf'[n] = d
        <5>1. rcvbuf' = [rcvbuf EXCEPT ![m] = @ \o c] /\ sndbuf' = [sndbuf EXCEPT ![n] = d]
          BY <1>0, <2>1, <3>2
        <5> HIDE DEF c, d
        <5> QED BY <1>0, <5>1 DEF TypeOK, Cat
      <4> HIDE DEF c, d
      <4>4. Cat(Cat(rcvbuf[m], c), d) = Cat(rcvbuf[m], Cat(c, d))
        BY <4>1, <4>2, CatAssociative
      <4> QED BY <3>2, <4>2, <4>3, <4>4
    <3> QED BY <3>1, <3>2
  <2> QED BY <1>0, <1>1, <2>2, <2>3, <2>4, Zenon DEF Moves
<1>8. ASSUME NEW p \in Node, MainReadTun(p) PROVE InOrder(n)'
  <2>1. /\ UNCHANGED <<ppc, pbuf, toPlugin, fromPlugin, sndbuf, rcvbuf, delivered>>
        /\ \A q \in Node : ToTun(q)' = ToTun(q)
        /\ FromTun(p) = <<>> /\ FromTun(p)' = mbuf'[p]
        /\ accepted'[p] = Cat(accepted[p], mbuf'[p])
        /\ \A q \in Node : q # p => FromTun(q)' = FromTun(q) /\ accepted'[q] = accepted[q]
    BY <1>8 DEF MainReadTun, TypeOK, Cat, pluginVars, pipeVars, sockVars, ToTun, FromTun, Held
  <2>2. \A q \in Node : FromSocket(q)' = FromSocket(q) /\ ToSocket(q)' = ToSocket(q)
    BY <1>3, <2>1
  <2>3. CASE n # p
    BY <1>0, <1>1, <2>1, <2>2, <2>3, Zenon DEF Moves
  <2>4. CASE n = p
    BY <1>0, <2>1, <2>2, <2>4, EntersKeepsOrder, Zenon
  <2> QED BY <2>3, <2>4
<1>9. ASSUME NEW p \in Node, MainWriteTun(p) PROVE InOrder(n)'
  <2>1. /\ UNCHANGED <<ppc, pbuf, toPlugin, fromPlugin, sndbuf, rcvbuf, accepted>>
        /\ \A q \in Node : FromTun(q)' = FromTun(q)
        /\ ToTun(p) = mbuf[p] /\ ToTun(p)' = <<>>
        /\ delivered'[p] = Cat(delivered[p], mbuf[p])
        /\ \A q \in Node : q # p => ToTun(q)' = ToTun(q) /\ delivered'[q] = delivered[q]
    BY <1>9 DEF MainWriteTun, TypeOK, Cat, pluginVars, pipeVars, sockVars, ToTun, FromTun, Held
  <2>2. \A q \in Node : FromSocket(q)' = FromSocket(q) /\ ToSocket(q)' = ToSocket(q)
    BY <1>3, <2>1
  <2>3. CASE m # p
    BY <1>0, <1>1, <2>1, <2>2, <2>3, Zenon DEF Moves
  <2>4. CASE m = p
    BY <1>0, <2>1, <2>2, <2>4, LeavesKeepsOrder, Zenon
  <2> QED BY <2>3, <2>4
<1>10. ASSUME NEW p \in Node, MainWritePipe(p) PROVE InOrder(n)'
  <2>1. /\ UNCHANGED <<ppc, pbuf, fromPlugin, sndbuf, rcvbuf, accepted, delivered>>
        /\ \A q \in Node : ToTun(q)' = ToTun(q)
        /\ toPlugin'[p] = Cat(toPlugin[p], FromTun(p)) /\ FromTun(p)' = <<>>
        /\ \A q \in Node : q # p => toPlugin'[q] = toPlugin[q] /\ FromTun(q)' = FromTun(q)
    BY <1>10 DEF MainWritePipe, TypeOK, Cat, pluginVars, sockVars, history, ToTun, FromTun, Held
  <2>2. \A q \in Node : FromSocket(q)' = FromSocket(q) /\ ToSocket(q)' = ToSocket(q)
    BY <1>3, <2>1
  <2>3. Cat(toPlugin'[n], FromTun(n)') = Cat(toPlugin[n], FromTun(n))
    <3>1. Cat(toPlugin[p], FromTun(p)) \in Seq(Byte)
      BY Pieces, CatType
    <3> QED BY <2>1, <3>1, CatEmpty
  <2> QED BY <1>0, <1>1, <2>1, <2>2, <2>3, Zenon DEF Moves
<1>11. ASSUME NEW p \in Node, MainReadPipe(p) PROVE InOrder(n)'
  <2>1. /\ UNCHANGED <<ppc, pbuf, toPlugin, sndbuf, rcvbuf, accepted, delivered>>
        /\ \A q \in Node : FromTun(q)' = FromTun(q)
        /\ ToTun(p) = <<>> /\ ToTun(p)' = Chunk(fromPlugin[p], BlockSize)
        /\ fromPlugin'[p] = Rest(fromPlugin[p], BlockSize)
        /\ \A q \in Node : q # p => fromPlugin'[q] = fromPlugin[q] /\ ToTun(q)' = ToTun(q)
    BY <1>11 DEF MainReadPipe, TypeOK, pluginVars, sockVars, history, ToTun, FromTun, Held
  <2>2. \A q \in Node : FromSocket(q)' = FromSocket(q) /\ ToSocket(q)' = ToSocket(q)
    BY <1>3, <2>1
  <2>3. Cat(ToTun(m)', fromPlugin'[m]) = Cat(ToTun(m), fromPlugin[m])
    <3>1. fromPlugin[p] \in Seq(Byte) /\ BlockSize \in Nat
      BY Pieces, TunnelAssumption
    <3>2. Cat(Chunk(fromPlugin[p], BlockSize), Rest(fromPlugin[p], BlockSize)) = fromPlugin[p]
      BY <3>1, ChunkThenRest
    <3> QED BY <1>0, <2>1, <3>1, <3>2, CatEmpty
  <2> QED BY <1>0, <1>1, <2>1, <2>2, <2>3, Zenon DEF Moves
<1>12. ASSUME NEW p \in Node, PluginRecv(p) PROVE InOrder(n)'
  <2>1. /\ UNCHANGED <<mpc, mbuf, toPlugin, fromPlugin, sndbuf, accepted, delivered>>
        /\ \A q \in Node : ToSocket(q)' = ToSocket(q)
        /\ FromSocket(p) = <<>> /\ FromSocket(p)' = Chunk(rcvbuf[p], BlockSize - 1)
        /\ rcvbuf'[p] = Rest(rcvbuf[p], BlockSize - 1)
        /\ \A q \in Node : q # p => rcvbuf'[q] = rcvbuf[q] /\ FromSocket(q)' = FromSocket(q)
    BY <1>12 DEF PluginRecv, TypeOK, mainVars, pipeVars, history, FromSocket, ToSocket, Held
  <2>2. \A q \in Node : ToTun(q)' = ToTun(q) /\ FromTun(q)' = FromTun(q)
    BY <1>2, <2>1
  <2>3. Cat(FromSocket(m)', rcvbuf'[m]) = Cat(FromSocket(m), rcvbuf[m])
    <3>1. rcvbuf[p] \in Seq(Byte) /\ BlockSize - 1 \in Nat
      BY Pieces, TunnelAssumption
    <3>2. Cat(Chunk(rcvbuf[p], BlockSize - 1), Rest(rcvbuf[p], BlockSize - 1)) = rcvbuf[p]
      BY <3>1, ChunkThenRest
    <3> QED BY <1>0, <2>1, <3>1, <3>2, CatEmpty
  <2> QED BY <1>0, <1>1, <2>1, <2>2, <2>3, Zenon DEF Moves
<1>13. ASSUME NEW p \in Node, PluginWritePipe(p) PROVE InOrder(n)'
  <2>1. /\ UNCHANGED <<mpc, mbuf, toPlugin, sndbuf, rcvbuf, accepted, delivered>>
        /\ \A q \in Node : ToSocket(q)' = ToSocket(q)
        /\ fromPlugin'[p] = Cat(fromPlugin[p], FromSocket(p)) /\ FromSocket(p)' = <<>>
        /\ \A q \in Node : q # p => fromPlugin'[q] = fromPlugin[q] /\ FromSocket(q)' = FromSocket(q)
    BY <1>13 DEF PluginWritePipe, TypeOK, Cat, mainVars, sockVars, history, FromSocket, ToSocket, Held
  <2>2. \A q \in Node : ToTun(q)' = ToTun(q) /\ FromTun(q)' = FromTun(q)
    BY <1>2, <2>1
  <2>3. Cat(fromPlugin'[m], FromSocket(m)') = Cat(fromPlugin[m], FromSocket(m))
    <3>1. Cat(fromPlugin[p], FromSocket(p)) \in Seq(Byte)
      BY Pieces, CatType
    <3> QED BY <1>0, <2>1, <3>1, CatEmpty
  <2> QED BY <1>0, <1>1, <2>1, <2>2, <2>3, Zenon DEF Moves
<1>14. ASSUME NEW p \in Node, PluginReadPipe(p) PROVE InOrder(n)'
  <2>1. /\ UNCHANGED <<mpc, mbuf, fromPlugin, sndbuf, rcvbuf, accepted, delivered>>
        /\ \A q \in Node : FromSocket(q)' = FromSocket(q)
        /\ ToSocket(p) = <<>> /\ ToSocket(p)' = Chunk(toPlugin[p], BlockSize - 1)
        /\ toPlugin'[p] = Rest(toPlugin[p], BlockSize - 1)
        /\ \A q \in Node : q # p => toPlugin'[q] = toPlugin[q] /\ ToSocket(q)' = ToSocket(q)
    BY <1>14 DEF PluginReadPipe, TypeOK, mainVars, sockVars, history, FromSocket, ToSocket, Held
  <2>2. \A q \in Node : ToTun(q)' = ToTun(q) /\ FromTun(q)' = FromTun(q)
    BY <1>2, <2>1
  <2>3. Cat(ToSocket(n)', toPlugin'[n]) = Cat(ToSocket(n), toPlugin[n])
    <3>1. toPlugin[p] \in Seq(Byte) /\ BlockSize - 1 \in Nat
      BY Pieces, TunnelAssumption
    <3>2. Cat(Chunk(toPlugin[p], BlockSize - 1), Rest(toPlugin[p], BlockSize - 1)) = toPlugin[p]
      BY <3>1, ChunkThenRest
    <3> QED BY <1>0, <2>1, <3>1, <3>2, CatEmpty
  <2> QED BY <1>0, <1>1, <2>1, <2>2, <2>3, Zenon DEF Moves
<1>15. ASSUME NEW p \in Node, PluginSend(p) PROVE InOrder(n)'
  <2>1. PICK k \in 1..Len(pbuf[p]) :
          /\ sndbuf' = [sndbuf EXCEPT ![p] = @ \o Chunk(pbuf[p], k)]
          /\ pbuf' = [pbuf EXCEPT ![p] = Rest(@, k)]
          /\ ppc' = [ppc EXCEPT ![p] = IF k = Len(pbuf[p]) THEN "select" ELSE "send"]
    BY <1>15 DEF PluginSend
  <2>2. /\ UNCHANGED <<mpc, mbuf, toPlugin, fromPlugin, rcvbuf, accepted, delivered>>
        /\ ppc[p] = "send"
    BY <1>15 DEF PluginSend, mainVars, pipeVars, history
  <2>3. \A q \in Node : ToTun(q)' = ToTun(q) /\ FromTun(q)' = FromTun(q)
    BY <1>2, <2>2
  <2>4. \A q \in Node : FromSocket(q)' = FromSocket(q)
    BY <2>1, <2>2 DEF TypeOK, FromSocket, Held
  <2> DEFINE c == Chunk(pbuf[p], k)
             d == Rest(pbuf[p], k)
  <2>5. /\ pbuf[p] \in Seq(Byte) /\ Len(pbuf[p]) \in Nat /\ sndbuf[p] \in Seq(Byte)
        /\ k \in Nat /\ <<>> \in Seq(Byte)
    BY Sizes
  <2>6. c \in Seq(Byte) /\ d \in Seq(Byte) /\ Cat(c, d) = pbuf[p]
    BY <2>5, ChunkThenRest, Zenon
  <2>7. k = Len(pbuf[p]) => d = <<>>
    BY <2>5 DEF Rest
  <2>8. ToSocket(p) = pbuf[p] /\ ToSocket(p)' = d /\ sndbuf'[p] = Cat(sndbuf[p], c)
    BY <2>1, <2>2, <2>7 DEF TypeOK, ToSocket, Held, Cat
  <2>9. \A q \in Node : q # p => sndbuf'[q] = sndbuf[q] /\ ToSocket(q)' = ToSocket(q)
    BY <2>1 DEF TypeOK, ToSocket
  <2> HIDE DEF c, d
  <2>10. Cat(sndbuf'[n], ToSocket(n)') = Cat(sndbuf[n], ToSocket(n))
    <3>1. Cat(Cat(sndbuf[p], c), d) = Cat(sndbuf[p], Cat(c, d))
      BY <2>5, <2>6, CatAssociative
    <3> QED BY <2>6, <2>8, <2>9, <3>1
  <2> QED BY <1>0, <1>1, <2>2, <2>3, <2>4, <2>10, Zenon DEF Moves
<1> QED
  BY <1>4, <1>5, <1>6, <1>7, <1>8, <1>9, <1>10, <1>11, <1>12, <1>13, <1>14, <1>15
  DEF Next, MainStep, PluginStep

LEMMA OrderIsIntegrity == StreamIntegrity <=> \A n \in Node : InOrder(n)
  BY TransitIsLine DEF StreamIntegrity, InOrder, Cat

LEMMA OrderIsIntegrityNext == StreamIntegrity' <=> \A n \in Node : InOrder(n)'
  BY DEF StreamIntegrity, InOrder, Transit, LineOf, Line, Cat, ToTun, FromSocket, ToSocket, FromTun

(* For buffers of any size: what a host's TUN gave the tunnel is what the  *)
(* other TUN got, and then what is in transit, byte for byte.              *)
THEOREM StreamIsIntact == Spec => []StreamIntegrity
<1>1. Init => StreamIntegrity
  <2>1. <<>> \o <<>> = <<>>
    OBVIOUS
  <2> QED BY <2>1, TunnelAssumption
          DEF Init, StreamIntegrity, Transit, Held, Node, Peer
<1>2. TypeOK /\ StreamIntegrity /\ [Next]_vars => StreamIntegrity'
  <2> SUFFICES ASSUME TypeOK, \A n \in Node : InOrder(n), [Next]_vars
               PROVE  \A n \in Node : InOrder(n)'
    BY OrderIsIntegrity, OrderIsIntegrityNext
  <2> QED BY OrderStep
<1> QED BY <1>1, <1>2, TypeCorrect, PTL DEF Spec

-----------------------------------------------------------------------------
(* At rest.                                                                *)

(* A tunnel at rest, without the local cycle, holds no byte.  A plugin that*)
(* is not stuck in send() is idle, its receive buffer empty; the other one *)
(* then has nothing that keeps its send buffer full.                       *)
LEMMA RestIsEmpty ==
  ASSUME TypeOK, NoSendSendDeadlock, Halted, \A n \in Node : ~LocalCycle(n), NEW n \in Node
  PROVE  MainIdle(n) /\ PluginIdle(n) /\ sndbuf[n] = <<>>
<1>1. \A q \in Node : /\ MainIdle(q) \/ MainBlocked(q)
                      /\ PluginIdle(q) \/ WaitsForMain(q) \/ WaitsForPeer(q)
                      /\ NetIdle(q)
  BY DEF Halted
<1>2. \A q \in Node : ~WaitsForMain(q)
  <2> SUFFICES ASSUME NEW q \in Node, WaitsForMain(q) PROVE FALSE
    OBVIOUS
  <2>1. MainIdle(q)
    BY <1>1 DEF LocalCycle
  <2>2. Len(fromPlugin[q]) = 0 /\ ~Fits(fromPlugin[q], pbuf[q])
    BY <2>1 DEF MainIdle, WaitsForMain
  <2> QED BY <2>2, Sizes, TunnelAssumption DEF Fits
<1>3. \A q \in Node : ~WaitsForPeer(q)
  <2> SUFFICES ASSUME NEW q \in Node, WaitsForPeer(q) PROVE FALSE
    OBVIOUS
  <2>1. Peer(q) \in Node /\ Peer(Peer(q)) = q /\ \A l \in Node : l = q \/ l = Peer(q)
    BY PeerFacts
  <2>2. sndbuf[q] # <<>>
    BY TunnelAssumption DEF WaitsForPeer
  <2>3. Len(rcvbuf[Peer(q)]) = RecvCap
    BY <1>1, <2>2 DEF NetIdle
  <2>4. RecvCap # 0
    BY TunnelAssumption
  <2>5. ~PluginIdle(Peer(q))
    BY <2>3, <2>4 DEF PluginIdle
  <2>6. WaitsForPeer(Peer(q))
    BY <1>1, <1>2, <2>1, <2>5
  <2>7. sndbuf[Peer(q)] # <<>>
    BY <2>6, TunnelAssumption DEF WaitsForPeer
  <2>8. Len(rcvbuf[q]) = RecvCap
    BY <1>1, <2>1, <2>7 DEF NetIdle
  <2> QED BY <2>1, <2>3, <2>6, <2>8 DEF NoSendSendDeadlock
<1>4. \A q \in Node : PluginIdle(q)
  BY <1>1, <1>2, <1>3
<1>5. MainIdle(n)
  <2>1. CASE MainBlocked(n)
    <3>1. Len(toPlugin[n]) = 0 /\ ~Fits(toPlugin[n], mbuf[n])
      BY <1>4, <2>1 DEF MainBlocked, PluginIdle
    <3>2. Len(mbuf[n]) \in Nat /\ Len(mbuf[n]) < BlockSize
      BY <2>1, Sizes DEF MainBlocked, TypeOK
    <3> QED BY <3>1, <3>2, TunnelAssumption DEF Fits
  <2> QED BY <1>1, <2>1
<1>6. sndbuf[n] = <<>>
  <2>1. rcvbuf[Peer(n)] = <<>>
    BY <1>4, PeerFacts DEF PluginIdle
  <2>2. Len(rcvbuf[Peer(n)]) # RecvCap
    BY <2>1, TunnelAssumption
  <2> QED BY <1>1, <2>2 DEF NetIdle
<1> QED BY <1>4, <1>5, <1>6
(* A tunnel that has come to rest, with no host in the local cycle, has    *)
(* delivered every byte it accepted, in both directions.                   *)
THEOREM RestIsDelivered == Spec => []HaltedIsDelivered
<1>1. TypeOK /\ NoSendSendDeadlock /\ StreamIntegrity => HaltedIsDelivered
  <2> SUFFICES ASSUME TypeOK, NoSendSendDeadlock, StreamIntegrity, Halted,
                      \A n \in Node : ~LocalCycle(n), NEW n \in Node
               PROVE  delivered[Peer(n)] = accepted[n]
    BY DEF HaltedIsDelivered
  <2>1. \A q \in Node : MainIdle(q) /\ PluginIdle(q) /\ sndbuf[q] = <<>>
    BY RestIsEmpty
  <2>2. Peer(n) \in Node /\ delivered[Peer(n)] \in Seq(Byte)
    BY PeerFacts, Pieces
  <2>3. /\ ToTun(Peer(n)) = <<>> /\ FromTun(n) = <<>>
        /\ FromSocket(Peer(n)) = <<>> /\ ToSocket(n) = <<>>
    BY <2>1, <2>2 DEF MainIdle, PluginIdle, ToTun, FromTun, FromSocket, ToSocket, Held
  <2>4. /\ fromPlugin[Peer(n)] = <<>> /\ toPlugin[n] = <<>>
        /\ rcvbuf[Peer(n)] = <<>> /\ sndbuf[n] = <<>>
    BY <2>1, <2>2 DEF MainIdle, PluginIdle
  <2>5. Cat(<<>>, <<>>) = <<>>
    BY DEF Cat
  <2>6. LineOf(n) = <<>>
    BY <2>3, <2>4, <2>5 DEF LineOf, Line
  <2>7. accepted[n] = Cat(delivered[Peer(n)], LineOf(n))
    BY OrderIsIntegrity DEF InOrder
  <2> QED BY <2>2, <2>6, <2>7, CatEmpty
<1> QED BY <1>1, TypeCorrect, SendsNeverDeadlock, StreamIsIntact, PTL
-----------------------------------------------------------------------------
(* The implementation of ByteStream.                                       *)

(* Whatever waits in a TUN device is a frame that its host transmitted.    *)
QueuedFrames ==
  \A n \in Node : \A i \in 1..Len(tunq[n]) :
    \E k \in 1..MaxFrames[n], len \in FrameLens : tunq[n][i] = Frame(n, k, len)

LEMMA QueuedStep == TypeOK /\ QueuedFrames /\ [Next]_vars => QueuedFrames'
<1> SUFFICES ASSUME TypeOK, QueuedFrames, [Next]_vars, NEW n \in Node,
                    NEW i \in 1..Len(tunq'[n])
             PROVE  \E k \in 1..MaxFrames[n], len \in FrameLens : tunq'[n][i] = Frame(n, k, len)
  BY DEF QueuedFrames
<1>1. CASE tunq'[n] = tunq[n]
  BY <1>1 DEF QueuedFrames
<1>2. ASSUME NEW p \in Node, TunArrive(p)
      PROVE  \E k \in 1..MaxFrames[n], len \in FrameLens : tunq'[n][i] = Frame(n, k, len)
  <2>1. CASE p # n
    BY <1>1, <1>2, <2>1 DEF TunArrive, TypeOK
  <2>2. CASE p = n
    <3>1. PICK len \in FrameLens : tunq'[n] = Append(tunq[n], Frame(n, nframes'[n], len))
      BY <1>2, <2>2 DEF TunArrive, TypeOK
    <3>2. nframes'[n] \in 1..MaxFrames[n]
      <4>1. nframes[n] \in Nat /\ nframes'[n] = nframes[n] + 1 /\ nframes[n] < MaxFrames[n]
        BY <1>2, <2>2 DEF TunArrive, TypeOK
      <4>2. MaxFrames[n] \in Nat
        BY TunnelAssumption DEF Node
      <4> QED BY <4>1, <4>2
    <3>3. tunq[n] \in Seq(Seq(Byte)) /\ Len(tunq[n]) \in Nat
      BY DEF TypeOK
    <3> HIDE DEF Node
    <3>4. /\ Len(tunq'[n]) = Len(tunq[n]) + 1
          /\ i <= Len(tunq[n]) => tunq'[n][i] = tunq[n][i]
          /\ i = Len(tunq[n]) + 1 => tunq'[n][i] = Frame(n, nframes'[n], len)
      BY <3>1, <3>3
    <3>5. CASE i <= Len(tunq[n])
      <4>1. i \in 1..Len(tunq[n])
        BY <3>3, <3>4, <3>5
      <4> QED BY <3>4, <3>5, <4>1 DEF QueuedFrames
    <3>6. CASE i = Len(tunq[n]) + 1
      BY <3>2, <3>4, <3>6
    <3>7. i <= Len(tunq[n]) \/ i = Len(tunq[n]) + 1
      BY <3>3, <3>4
    <3> QED BY <3>5, <3>6, <3>7
  <2> QED BY <2>1, <2>2
<1>3. ASSUME NEW p \in Node, MainReadTun(p)
      PROVE  \E k \in 1..MaxFrames[n], len \in FrameLens : tunq'[n][i] = Frame(n, k, len)
  <2>1. CASE p # n
    BY <1>1, <1>3, <2>1 DEF MainReadTun, TypeOK
  <2>2. CASE p = n
    <3>1. tunq'[n] = Tail(tunq[n]) /\ tunq[n] # <<>> /\ tunq[n] \in Seq(Seq(Byte))
      BY <1>3, <2>2 DEF MainReadTun, TypeOK
    <3>2. /\ Len(tunq'[n]) = Len(tunq[n]) - 1 /\ Len(tunq[n]) \in Nat
          /\ tunq'[n][i] = tunq[n][i + 1]
      BY <3>1, HeadTailProperties
    <3>3. i + 1 \in 1..Len(tunq[n])
      BY <3>2
    <3> QED BY <3>2, <3>3 DEF QueuedFrames
  <2> QED BY <2>1, <2>2
<1>4. CASE ~ \E p \in Node : TunArrive(p) \/ MainReadTun(p)
  <2>1. tunq' = tunq
    BY <1>4 DEF Next, MainStep, PluginStep, Connect, PluginAccept, NetDeliver, MainSelectTun,
                MainSelectPipe, MainWritePipe, MainReadPipe, MainWriteTun, PluginSelectSocket,
                PluginSelectPipe, PluginRecv, PluginWritePipe, PluginReadPipe, PluginSend,
                vars, tunVars
  <2> QED BY <1>1, <2>1
<1> QED BY <1>2, <1>3, <1>4

LEMMA PrefixOfConcat ==
  ASSUME NEW S, NEW a \in Seq(S), NEW b \in Seq(S)
  PROVE  SubSeq(a \o b, 1, Len(a)) = a /\ Len(a) <= Len(a \o b)
<1>1. Len(a \o b) = Len(a) + Len(b) /\ Len(a) \in Nat /\ Len(b) \in Nat
  BY LenConcat
<1>2. CASE a = <<>>
  BY <1>1, <1>2
<1>3. CASE a # <<>>
  <2>1. 1 \in 1..Len(a) /\ Len(a) \in 1..Len(a)
    BY <1>1, <1>3
  <2>2. SubSeq(a \o b, 1, Len(a)) = SubSeq(a, 1, Len(a))
    BY <2>1, SubSeqOfConcat1
  <2> QED BY <1>1, <2>2, SubSeqFull
<1> QED BY <1>2, <1>3

LEMMA LongerPrefix ==
  ASSUME NEW a \in Nat, NEW b \in Nat, NEW c \in Nat, NEW k, k = a + b, b # 0, k <= c
  PROVE  k \in a+1 .. c
  OBVIOUS

LEMMA StepRefines ==
  ASSUME TypeOK, TypeOK', StreamIntegrity', QueuedFrames, [Next]_vars
  PROVE  [Stream!Next]_(Stream!streams)
<1>1. ASSUME NEW p \in Node, MainReadTun(p) PROVE Stream!Accept(p)
  <2>1. tunq[p] # <<>> /\ tunq[p] \in Seq(Seq(Byte))
    BY <1>1 DEF MainReadTun, TypeOK
  <2>2. 1 \in 1..Len(tunq[p]) /\ Head(tunq[p]) = tunq[p][1]
    BY <2>1
  <2>3. PICK k \in 1..MaxFrames[p], len \in FrameLens : Head(tunq[p]) = Frame(p, k, len)
    BY <2>2 DEF QueuedFrames
  <2>4. Chunk(Head(tunq[p]), BlockSize - 1) \in Inputs
    BY <2>3 DEF Inputs
  <2>5. /\ accepted' = [accepted EXCEPT ![p] = @ \o Chunk(Head(tunq[p]), BlockSize - 1)]
        /\ UNCHANGED delivered
    BY <1>1 DEF MainReadTun, TypeOK
  <2> QED BY <2>4, <2>5 DEF Stream!Accept
<1>2. ASSUME NEW p \in Node, MainWriteTun(p)
      PROVE  Stream!Deliver(Peer(p)) \/ UNCHANGED <<accepted, delivered>>
  <2> DEFINE n == Peer(p)
  <2>1. n \in Node /\ Peer(n) = p
    BY PeerFacts
  <2>2. /\ delivered' = [delivered EXCEPT ![p] = delivered'[p]]
        /\ delivered'[p] = delivered[p] \o mbuf[p] /\ accepted' = accepted
    BY <1>2 DEF MainWriteTun, TypeOK
  <2>3. /\ delivered[p] \in Seq(Byte) /\ mbuf[p] \in Seq(Byte) /\ accepted[n] \in Seq(Byte)
        /\ delivered'[p] \in Seq(Byte)
    BY <2>1, Sizes, Pieces, PiecesNext
  <2>4. CASE mbuf[p] = <<>>
    <3>1. delivered[p] \o mbuf[p] = delivered[p]
      BY <2>3, <2>4, ConcatEmptySeq
    <3> QED BY <2>2, <3>1 DEF TypeOK
  <2>5. CASE mbuf[p] # <<>>
    <3> DEFINE k == Len(delivered'[p])
    <3>1. accepted'[n] = delivered'[p] \o Transit(n)'
      BY <2>1 DEF StreamIntegrity
    <3>2. Transit(n)' \in Seq(Byte)
      <4>1. Transit(n)' = LineOf(n)'
        BY DEF Transit, LineOf, Line, Cat, ToTun, FromSocket, ToSocket, FromTun
      <4>2. /\ ToTun(p)' \in Seq(Byte) /\ fromPlugin'[p] \in Seq(Byte)
            /\ FromSocket(p)' \in Seq(Byte) /\ rcvbuf'[p] \in Seq(Byte)
            /\ sndbuf'[n] \in Seq(Byte) /\ ToSocket(n)' \in Seq(Byte)
            /\ toPlugin'[n] \in Seq(Byte) /\ FromTun(n)' \in Seq(Byte)
        BY <2>1, PiecesNext
      <4>3. LineOf(n)' = Line(ToTun(p)', fromPlugin'[p], FromSocket(p)', rcvbuf'[p],
                              sndbuf'[n], ToSocket(n)', toPlugin'[n], FromTun(n)')
        BY <2>1 DEF LineOf
      <4>4. Line(ToTun(p)', fromPlugin'[p], FromSocket(p)', rcvbuf'[p],
                 sndbuf'[n], ToSocket(n)', toPlugin'[n], FromTun(n)') \in Seq(Byte)
        BY <4>2, LineBack, Zenon
      <4> QED BY <4>1, <4>3, <4>4
    <3>3. SubSeq(accepted[n], 1, k) = delivered'[p] /\ k <= Len(accepted[n])
      <4>1. accepted[n] = delivered'[p] \o Transit(n)'
        BY <2>2, <3>1
      <4> DEFINE a == delivered'[p]
                 b == Transit(n)'
      <4>2. a \in Seq(Byte) /\ b \in Seq(Byte)
        BY <2>3, <3>2
      <4> HIDE DEF a, b
      <4>3. SubSeq(a \o b, 1, Len(a)) = a /\ Len(a) <= Len(a \o b)
        BY <4>2, PrefixOfConcat
      <4> QED BY <4>1, <4>3 DEF a, b
    <3>4. /\ k = Len(delivered[p]) + Len(mbuf[p])
          /\ Len(delivered[p]) \in Nat /\ Len(mbuf[p]) \in Nat
      BY <2>2, <2>3, LenConcat
    <3>5. Len(mbuf[p]) # 0
      BY <2>3, <2>5
    <3>6. Len(accepted[n]) \in Nat
      BY <2>3
    <3> HIDE DEF k
    <3>7. k \in Len(delivered[p])+1 .. Len(accepted[n])
      BY <3>3, <3>4, <3>5, <3>6, LongerPrefix, Zenon
    <3>8. delivered' = [delivered EXCEPT ![Peer(n)] = SubSeq(accepted[n], 1, k)]
      BY <2>1, <2>2, <3>3
    <3> QED BY <2>1, <2>2, <3>7, <3>8 DEF Stream!Deliver
  <2> QED BY <2>4, <2>5
<1>3. CASE ~ \E p \in Node : MainReadTun(p) \/ MainWriteTun(p)
  BY <1>3 DEF Next, MainStep, PluginStep, Connect, PluginAccept, TunArrive, NetDeliver,
              MainSelectTun, MainSelectPipe, MainWritePipe, MainReadPipe, PluginSelectSocket,
              PluginSelectPipe, PluginRecv, PluginWritePipe, PluginReadPipe, PluginSend,
              vars, history, Stream!streams
<1>4. CASE \E p \in Node : MainReadTun(p) \/ MainWriteTun(p)
  BY <1>1, <1>2, <1>4, PeerFacts DEF Stream!Next, Stream!streams
<1> QED BY <1>3, <1>4

(* The program, with its threads, pipes and socket buffers, implements one *)
(* byte stream in each direction.                                          *)
THEOREM TunnelImplementsStreams == Spec => ImplementsStreams
<1>1. Init => Stream!Init
  BY DEF Init, Stream!Init
<1>2. Init => QueuedFrames
  BY TunnelAssumption DEF Init, QueuedFrames, Node
<1>3. TypeOK /\ TypeOK' /\ StreamIntegrity' /\ QueuedFrames /\ [Next]_vars
        => [Stream!Next]_(Stream!streams)
  BY StepRefines
<1> QED BY <1>1, <1>2, <1>3, QueuedStep, TypeCorrect, StreamIsIntact, PTL
        DEF Spec, ImplementsStreams, Stream!Spec
-----------------------------------------------------------------------------
(* Every step that is not the arrival of a frame leaves less to do.        *)

(* A thread that select() has sent to read finds something there: nobody   *)
(* else reads from that descriptor.                                        *)
HasWhatItReads ==
  \A n \in Node : /\ mpc[n] = "readPipe" => fromPlugin[n] # <<>>
                  /\ ppc[n] = "recv" => rcvbuf[n] # <<>>

LEMMA ReadsStep == TypeOK /\ HasWhatItReads /\ [Next]_vars => HasWhatItReads'
<1> SUFFICES ASSUME TypeOK, HasWhatItReads, [Next]_vars, NEW m \in Node
             PROVE  /\ mpc'[m] = "readPipe" => fromPlugin'[m] # <<>>
                    /\ ppc'[m] = "recv" => rcvbuf'[m] # <<>>
  BY DEF HasWhatItReads
<1>0. /\ mpc[m] = "readPipe" => fromPlugin[m] # <<>>
      /\ ppc[m] = "recv" => rcvbuf[m] # <<>>
  BY DEF HasWhatItReads
<1>1. CASE Connect \/ PluginAccept
  BY <1>0, <1>1 DEF Connect, PluginAccept, TypeOK, mainVars, pipeVars, sockVars
<1>2. ASSUME NEW n \in Node, TunArrive(n) \/ PluginReadPipe(n) \/ PluginSend(n)
      PROVE  /\ mpc'[m] = "readPipe" => fromPlugin'[m] # <<>>
             /\ ppc'[m] = "recv" => rcvbuf'[m] # <<>>
  BY <1>0, <1>2 DEF TunArrive, PluginReadPipe, PluginSend, TypeOK, mainVars, pluginVars, pipeVars,
                    sockVars
<1>3. ASSUME NEW n \in Node, \/ MainSelectTun(n) \/ MainSelectPipe(n) \/ MainReadTun(n)
                             \/ MainWritePipe(n) \/ MainReadPipe(n) \/ MainWriteTun(n)
      PROVE  /\ mpc'[m] = "readPipe" => fromPlugin'[m] # <<>>
             /\ ppc'[m] = "recv" => rcvbuf'[m] # <<>>
  BY <1>0, <1>3 DEF MainSelectTun, MainSelectPipe, MainReadTun, MainWritePipe, MainReadPipe,
                    MainWriteTun, TypeOK, pluginVars, pipeVars, sockVars
<1>4. ASSUME NEW n \in Node, PluginSelectSocket(n) \/ PluginSelectPipe(n) \/ PluginRecv(n)
      PROVE  /\ mpc'[m] = "readPipe" => fromPlugin'[m] # <<>>
             /\ ppc'[m] = "recv" => rcvbuf'[m] # <<>>
  BY <1>0, <1>4 DEF PluginSelectSocket, PluginSelectPipe, PluginRecv, TypeOK, mainVars, pipeVars,
                    sockVars
<1>5. ASSUME NEW n \in Node, PluginWritePipe(n)
      PROVE  /\ mpc'[m] = "readPipe" => fromPlugin'[m] # <<>>
             /\ ppc'[m] = "recv" => rcvbuf'[m] # <<>>
  <2>1. fromPlugin'[m] = fromPlugin[m] \/ (m = n /\ fromPlugin'[m] = fromPlugin[m] \o pbuf[m])
    BY <1>5 DEF PluginWritePipe, TypeOK
  <2>2. fromPlugin[m] \in Seq(Byte) /\ pbuf[m] \in Seq(Byte)
    BY Sizes
  <2>3. fromPlugin[m] \o pbuf[m] = <<>> => fromPlugin[m] = <<>>
    BY <2>2, ConcatEqualIffEmpty
  <2>4. ppc'[m] # "recv" \/ ppc'[m] = ppc[m]
    BY <1>5 DEF PluginWritePipe, TypeOK
  <2> QED BY <1>0, <1>5, <2>1, <2>3, <2>4 DEF PluginWritePipe, mainVars, sockVars
<1>6. ASSUME NEW n \in Node, NetDeliver(n)
      PROVE  /\ mpc'[m] = "readPipe" => fromPlugin'[m] # <<>>
             /\ ppc'[m] = "recv" => rcvbuf'[m] # <<>>
  <2>1. PICK k \in 1..Len(sndbuf[n]) :
          rcvbuf' = [rcvbuf EXCEPT ![Peer(n)] = @ \o Chunk(sndbuf[n], k)]
    BY <1>6 DEF NetDeliver
  <2> DEFINE c == Chunk(sndbuf[n], k)
  <2>2. rcvbuf[m] \in Seq(Byte) /\ sndbuf[n] \in Seq(Byte) /\ k \in Nat
    BY Sizes
  <2>3. c \in Seq(Byte)
    BY <2>2, ChunkThenRest, Zenon
  <2>4. rcvbuf' = [rcvbuf EXCEPT ![Peer(n)] = @ \o c]
    BY <2>1
  <2> HIDE DEF c
  <2>5. rcvbuf'[m] = rcvbuf[m] \/ rcvbuf'[m] = rcvbuf[m] \o c
    BY <2>4, PeerFacts DEF TypeOK
  <2>6. rcvbuf[m] \o c = <<>> => rcvbuf[m] = <<>>
    BY <2>2, <2>3, ConcatEqualIffEmpty
  <2> QED BY <1>0, <1>6, <2>5, <2>6 DEF NetDeliver, mainVars, pluginVars, pipeVars
<1>7. CASE UNCHANGED vars
  BY <1>0, <1>7 DEF vars, mainVars, pluginVars, pipeVars, sockVars
<1> QED BY <1>1, <1>2, <1>3, <1>4, <1>5, <1>6, <1>7 DEF Next, MainStep, PluginStep

(* The work at a host, as a sum over where its bytes are.                  *)
FrameWork == 11 * (BlockSize - 1) + 3

Weigh(turns, frames, out, send, snd, rcv, in) ==
  turns + FrameWork * frames + 11 * out + 8 * send + 7 * snd + 6 * rcv + 3 * in

Turns(n)    == StepsLeft(mpc[n]) + StepsLeft(ppc[n])
Outgoing(n) == Len(FromTun(n)) + Len(toPlugin[n])
Incoming(n) == Len(FromSocket(n)) + Len(fromPlugin[n])

LEMMA WorkIsWeight ==
  ASSUME NEW n
  PROVE  WorkAt(n) = Weigh(Turns(n), Len(tunq[n]), Outgoing(n), Len(ToSocket(n)), Len(sndbuf[n]),
                           Len(rcvbuf[n]), Incoming(n))
  BY DEF WorkAt, Weigh, FrameWork, Turns, Outgoing, Incoming, FromTun, ToSocket, FromSocket

LEMMA WeightType ==
  ASSUME NEW t \in Nat, NEW f \in Nat, NEW o \in Nat, NEW b \in Nat, NEW s \in Nat, NEW r \in Nat,
         NEW i \in Nat
  PROVE  Weigh(t, f, o, b, s, r, i) \in Nat
<1>1. FrameWork \in Nat
  BY TunnelAssumption DEF FrameWork
<1>2. FrameWork * f \in Nat
  BY <1>1
<1> QED BY <1>2 DEF Weigh

\* What one step does to these numbers.
LessWeight(t, f, o, b, s, r, i, t1, f1, o1, b1, s1, r1, i1) ==
  /\ f1 = f
  /\ \/ t1 < t /\ o1 = o /\ b1 = b /\ s1 = s /\ r1 = r /\ i1 = i
     \/ \E m \in Nat \ {0} :
          \/ t1 = t + 2 /\ o1 = o /\ b1 = b /\ s1 = s /\ r1 = r /\ i1 + m = i
          \/ t1 = t + 2 /\ o1 = o /\ b1 = b /\ s1 = s /\ r1 + m = r /\ i1 = i + m
          \/ t1 = t + 2 /\ o1 + m = o /\ b1 = b + m /\ s1 = s /\ r1 = r /\ i1 = i
          \/ t1 <= t /\ o1 = o /\ b1 + m = b /\ s1 = s + m /\ r1 = r /\ i1 = i

LEMMA LessWeightIsLess ==
  ASSUME NEW t \in Nat, NEW f \in Nat, NEW o \in Nat, NEW b \in Nat, NEW s \in Nat, NEW r \in Nat,
         NEW i \in Nat,
         NEW t1 \in Nat, NEW f1 \in Nat, NEW o1 \in Nat, NEW b1 \in Nat, NEW s1 \in Nat,
         NEW r1 \in Nat, NEW i1 \in Nat,
         LessWeight(t, f, o, b, s, r, i, t1, f1, o1, b1, s1, r1, i1)
  PROVE  Weigh(t1, f1, o1, b1, s1, r1, i1) < Weigh(t, f, o, b, s, r, i)
<1> DEFINE w == FrameWork * f
<1>1. w \in Nat /\ w = FrameWork * f1
  BY TunnelAssumption DEF FrameWork, LessWeight
<1> HIDE DEF w
<1>2. /\ Weigh(t, f, o, b, s, r, i) = t + w + 11 * o + 8 * b + 7 * s + 6 * r + 3 * i
      /\ Weigh(t1, f1, o1, b1, s1, r1, i1) = t1 + w + 11 * o1 + 8 * b1 + 7 * s1 + 6 * r1 + 3 * i1
  BY <1>1 DEF Weigh, w
<1>3. t1 + w + 11 * o1 + 8 * b1 + 7 * s1 + 6 * r1 + 3 * i1
        < t + w + 11 * o + 8 * b + 7 * s + 6 * r + 3 * i
  BY <1>1 DEF LessWeight
<1> QED BY <1>2, <1>3

(* A frame is cut to one block, whose bytes are then all still to go.      *)
LEMMA FrameIsMoreWork ==
  ASSUME NEW t \in Nat, NEW f \in Nat, NEW o \in Nat, NEW b \in Nat, NEW s \in Nat, NEW r \in Nat,
         NEW i \in Nat, NEW f1 \in Nat, NEW m \in 0..(BlockSize - 1), f1 + 1 = f
  PROVE  Weigh(t + 2, f1, o + m, b, s, r, i) < Weigh(t, f, o, b, s, r, i)
<1>1. FrameWork \in Nat /\ 11 * m + 2 < FrameWork
  BY TunnelAssumption DEF FrameWork
<1>2. FrameWork * f = FrameWork * f1 + FrameWork
  BY <1>1
<1> DEFINE w == FrameWork * f1
<1>3. w \in Nat
  BY <1>1
<1> HIDE DEF w
<1> QED BY <1>1, <1>2, <1>3 DEF Weigh, w

LEMMA WorkTypes ==
  ASSUME TypeOK, NEW n \in Node
  PROVE  /\ Turns(n) \in Nat /\ Len(tunq[n]) \in Nat /\ Outgoing(n) \in Nat
         /\ Len(ToSocket(n)) \in Nat /\ Len(sndbuf[n]) \in Nat /\ Len(rcvbuf[n]) \in Nat
         /\ Incoming(n) \in Nat
         /\ WorkAt(n) \in Nat
<1>1. Turns(n) \in Nat
  BY DEF Turns, StepsLeft
<1>2. Len(tunq[n]) \in Nat
  BY DEF TypeOK
<1>3. /\ Outgoing(n) \in Nat /\ Len(ToSocket(n)) \in Nat /\ Len(sndbuf[n]) \in Nat
      /\ Len(rcvbuf[n]) \in Nat /\ Incoming(n) \in Nat
  BY Pieces DEF Outgoing, Incoming
<1> QED BY <1>1, <1>2, <1>3, WorkIsWeight, WeightType

LEMMA WorkTypesNext ==
  ASSUME TypeOK', NEW n \in Node
  PROVE  /\ Turns(n)' \in Nat /\ Len(tunq[n])' \in Nat /\ Outgoing(n)' \in Nat
         /\ Len(ToSocket(n))' \in Nat /\ Len(sndbuf[n])' \in Nat /\ Len(rcvbuf[n])' \in Nat
         /\ Incoming(n)' \in Nat
         /\ WorkAt(n)' \in Nat
         /\ WorkAt(n)' = Weigh(Turns(n)', Len(tunq[n])', Outgoing(n)', Len(ToSocket(n))',
                               Len(sndbuf[n])', Len(rcvbuf[n])', Incoming(n)')
<1>1. Turns(n)' \in Nat
  BY DEF Turns, StepsLeft
<1>2. Len(tunq[n])' \in Nat
  BY DEF TypeOK
<1>3. /\ Outgoing(n)' \in Nat /\ Len(ToSocket(n))' \in Nat /\ Len(sndbuf[n])' \in Nat
      /\ Len(rcvbuf[n])' \in Nat /\ Incoming(n)' \in Nat
  BY PiecesNext DEF Outgoing, Incoming
<1>4. WorkAt(n)' = Weigh(Turns(n)', Len(tunq[n])', Outgoing(n)', Len(ToSocket(n))',
                         Len(sndbuf[n])', Len(rcvbuf[n])', Incoming(n)')
  BY DEF WorkAt, Weigh, FrameWork, Turns, Outgoing, Incoming, FromTun, ToSocket, FromSocket
<1>5. WorkAt(n)' \in Nat
  <2> DEFINE t == Turns(n)'
             f == Len(tunq[n])'
             o == Outgoing(n)'
             b == Len(ToSocket(n))'
             k == Len(sndbuf[n])'
             r == Len(rcvbuf[n])'
             i == Incoming(n)'
  <2>1. /\ t \in Nat /\ f \in Nat /\ o \in Nat /\ b \in Nat /\ k \in Nat /\ r \in Nat /\ i \in Nat
        /\ WorkAt(n)' = Weigh(t, f, o, b, k, r, i)
    BY <1>1, <1>2, <1>3, <1>4
  <2> HIDE DEF t, f, o, b, k, r, i
  <2>2. Weigh(t, f, o, b, k, r, i) \in Nat
    BY <2>1, WeightType
  <2> QED BY <2>1, <2>2, Zenon
<1> QED BY <1>1, <1>2, <1>3, <1>4, <1>5, Zenon

Lighter(n) == LessWeight(Turns(n), Len(tunq[n]), Outgoing(n), Len(ToSocket(n)), Len(sndbuf[n]),
                         Len(rcvbuf[n]), Incoming(n),
                         Turns(n)', Len(tunq[n])', Outgoing(n)', Len(ToSocket(n))',
                         Len(sndbuf[n])', Len(rcvbuf[n])', Incoming(n)')

LEMMA LighterIsLess ==
  ASSUME TypeOK, TypeOK', NEW n \in Node, Lighter(n)
  PROVE  WorkAt(n)' < WorkAt(n)
<1> DEFINE t == Turns(n)
           f == Len(tunq[n])
           o == Outgoing(n)
           b == Len(ToSocket(n))
           k == Len(sndbuf[n])
           r == Len(rcvbuf[n])
           i == Incoming(n)
           t1 == Turns(n)'
           f1 == Len(tunq[n])'
           o1 == Outgoing(n)'
           b1 == Len(ToSocket(n))'
           k1 == Len(sndbuf[n])'
           r1 == Len(rcvbuf[n])'
           i1 == Incoming(n)'
<1>1. /\ t \in Nat /\ f \in Nat /\ o \in Nat /\ b \in Nat /\ k \in Nat /\ r \in Nat /\ i \in Nat
      /\ WorkAt(n) = Weigh(t, f, o, b, k, r, i)
  BY WorkTypes, WorkIsWeight
<1>2. /\ t1 \in Nat /\ f1 \in Nat /\ o1 \in Nat /\ b1 \in Nat /\ k1 \in Nat /\ r1 \in Nat
      /\ i1 \in Nat
      /\ WorkAt(n)' = Weigh(t1, f1, o1, b1, k1, r1, i1)
  BY WorkTypesNext
<1>3. LessWeight(t, f, o, b, k, r, i, t1, f1, o1, b1, k1, r1, i1)
  BY DEF Lighter
<1> HIDE DEF t, f, o, b, k, r, i, t1, f1, o1, b1, k1, r1, i1
<1>4. Weigh(t1, f1, o1, b1, k1, r1, i1) < Weigh(t, f, o, b, k, r, i)
  BY <1>1, <1>2, <1>3, LessWeightIsLess
<1> QED BY <1>1, <1>2, <1>4

(* A read takes at least one byte of what is there.                        *)
LEMMA ReadTakes ==
  ASSUME NEW s \in Seq(Byte), s # <<>>, NEW size \in Nat \ {0}
  PROVE  \E m \in Nat \ {0} : Len(Chunk(s, size)) = m /\ Len(Rest(s, size)) + m = Len(s)
<1> DEFINE c == Chunk(s, size)
           d == Rest(s, size)
<1>1. Len(s) \in Nat /\ Len(s) # 0
  BY EmptySeq, LenProperties
<1>2. Len(c) = (IF Len(s) <= size THEN Len(s) ELSE size) /\ Len(d) = Len(s) - Len(c)
  BY ChunkRest, Zenon
<1> HIDE DEF c, d
<1>3. Len(c) \in Nat \ {0} /\ Len(d) + Len(c) = Len(s)
  BY <1>1, <1>2
<1> QED BY <1>3 DEF c, d

LEMMA MainLeavesLess ==
  ASSUME TypeOK, TypeOK', HasWhatItReads, NEW n \in Node, MainStep(n)
  PROVE  WorkAt(n)' < WorkAt(n)
<1> USE DEF StepsLeft
<1>1. ppc' = ppc /\ pbuf' = pbuf /\ sndbuf' = sndbuf /\ rcvbuf' = rcvbuf
  BY DEF MainStep, MainSelectTun, MainSelectPipe, MainReadTun, MainWritePipe, MainReadPipe,
         MainWriteTun, pluginVars, sockVars
<1>2. ToSocket(n)' = ToSocket(n) /\ FromSocket(n)' = FromSocket(n)
  BY <1>1 DEF ToSocket, FromSocket
<1>3. CASE MainSelectTun(n) \/ MainSelectPipe(n)
  <2>1. /\ mpc[n] = "select" /\ mpc'[n] \in {"readTun", "readPipe"}
        /\ tunq' = tunq /\ toPlugin' = toPlugin /\ fromPlugin' = fromPlugin
    BY <1>3 DEF MainSelectTun, MainSelectPipe, TypeOK, tunVars, pipeVars
  <2>2. FromTun(n) = <<>> /\ FromTun(n)' = <<>>
    BY <2>1 DEF FromTun, Held
  <2>3. Turns(n)' < Turns(n)
    BY <1>1, <2>1 DEF Turns
  <2>4. Lighter(n)
    BY <1>1, <1>2, <2>1, <2>2, <2>3 DEF Lighter, LessWeight, Outgoing, Incoming
  <2> QED BY <2>4, LighterIsLess
<1>4. CASE MainReadTun(n)
  <2>1. /\ mpc[n] = "readTun" /\ mpc'[n] = "writePipe"
        /\ toPlugin' = toPlugin /\ fromPlugin' = fromPlugin
        /\ tunq'[n] = Tail(tunq[n])
    BY <1>4 DEF MainReadTun, TypeOK, pipeVars
  <2>2. tunq[n] \in Seq(Seq(Byte)) /\ tunq[n] # <<>>
    BY <2>1 DEF TypeOK
  <2>3. Len(tunq'[n]) + 1 = Len(tunq[n])
    <3>1. Len(Tail(tunq[n])) = Len(tunq[n]) - 1 /\ Len(tunq[n]) \in Nat
      BY <2>2
    <3> QED BY <2>1, <3>1
  <2>4. FromTun(n) = <<>> /\ FromTun(n)' = mbuf'[n]
    BY <2>1 DEF FromTun, Held
  <2>5. Len(mbuf'[n]) \in 0..(BlockSize - 1)
    <3>1. mbuf'[n] \in Seq(Byte) /\ Len(mbuf'[n]) < BlockSize
      BY <2>1, TunnelAssumption DEF TypeOK, Blocks
    <3>2. Len(mbuf'[n]) \in Nat
      BY <3>1, LenProperties
    <3> QED BY <3>1, <3>2, TunnelAssumption
  <2>6. Turns(n)' = Turns(n) + 2
    BY <1>1, <2>1 DEF Turns
  <2>7. Outgoing(n)' = Outgoing(n) + Len(mbuf'[n])
    <3> DEFINE a == Len(toPlugin[n])
               b == Len(mbuf'[n])
    <3>1. a \in Nat /\ b \in Nat
      BY <2>5, Pieces
    <3>2. Outgoing(n)' = b + a /\ Outgoing(n) = 0 + a
      BY <2>1, <2>4 DEF Outgoing
    <3> HIDE DEF a, b
    <3>3. b + a = (0 + a) + b
      BY <3>1
    <3> QED BY <3>2, <3>3, Zenon DEF b
  <2>8. Incoming(n)' = Incoming(n)
    BY <1>2, <2>1 DEF Incoming
  <2>9. /\ Turns(n) \in Nat /\ Len(tunq[n]) \in Nat /\ Outgoing(n) \in Nat
        /\ Len(ToSocket(n)) \in Nat /\ Len(sndbuf[n]) \in Nat /\ Len(rcvbuf[n]) \in Nat
        /\ Incoming(n) \in Nat /\ Len(tunq'[n]) \in Nat
    BY WorkTypes, WorkTypesNext
  <2>10. WorkAt(n)' = Weigh(Turns(n) + 2, Len(tunq'[n]), Outgoing(n) + Len(mbuf'[n]),
                            Len(ToSocket(n)), Len(sndbuf[n]), Len(rcvbuf[n]), Incoming(n))
    BY <1>1, <1>2, <2>6, <2>7, <2>8, WorkTypesNext
  <2> DEFINE t == Turns(n)
             f == Len(tunq[n])
             o == Outgoing(n)
             b == Len(ToSocket(n))
             k == Len(sndbuf[n])
             r == Len(rcvbuf[n])
             i == Incoming(n)
             f1 == Len(tunq'[n])
             m == Len(mbuf'[n])
  <2>11. WorkAt(n) = Weigh(t, f, o, b, k, r, i)
    BY WorkIsWeight
  <2>12. Weigh(t + 2, f1, o + m, b, k, r, i) < Weigh(t, f, o, b, k, r, i)
    <3> HIDE DEF t, f, o, b, k, r, i, f1, m
    <3>1. /\ t \in Nat /\ f \in Nat /\ o \in Nat /\ b \in Nat /\ k \in Nat /\ r \in Nat
          /\ i \in Nat /\ f1 \in Nat /\ m \in 0..(BlockSize - 1) /\ f1 + 1 = f
      BY <2>3, <2>5, <2>9 DEF t, f, o, b, k, r, i, f1, m
    <3> QED BY <3>1, FrameIsMoreWork
  <2> QED BY <2>10, <2>11, <2>12
<1>5. CASE MainWritePipe(n)
  <2>1. /\ mpc[n] = "writePipe" /\ mpc'[n] = "select"
        /\ tunq' = tunq /\ fromPlugin' = fromPlugin
        /\ toPlugin'[n] = toPlugin[n] \o mbuf[n]
    BY <1>5 DEF MainWritePipe, TypeOK, tunVars
  <2>2. FromTun(n) = mbuf[n] /\ FromTun(n)' = <<>>
    BY <2>1 DEF FromTun, Held
  <2>3. Turns(n)' < Turns(n)
    BY <1>1, <2>1 DEF Turns
  <2>4. Outgoing(n)' = Outgoing(n)
    <3> DEFINE a == Len(toPlugin[n])
               b == Len(mbuf[n])
    <3>1. Len(toPlugin[n] \o mbuf[n]) = a + b /\ a \in Nat /\ b \in Nat
      BY Sizes, LenConcat
    <3>2. Outgoing(n)' = 0 + Len(toPlugin[n] \o mbuf[n]) /\ Outgoing(n) = b + a
      BY <2>1, <2>2 DEF Outgoing
    <3> HIDE DEF a, b
    <3>3. 0 + (a + b) = b + a
      BY <3>1
    <3> QED BY <3>1, <3>2, <3>3, Zenon
  <2>5. Lighter(n)
    BY <1>1, <1>2, <2>1, <2>3, <2>4 DEF Lighter, LessWeight, Incoming
  <2> QED BY <2>5, LighterIsLess
<1>6. CASE MainReadPipe(n)
  <2>1. /\ mpc[n] = "readPipe" /\ mpc'[n] = "writeTun"
        /\ tunq' = tunq /\ toPlugin' = toPlugin
        /\ fromPlugin'[n] = Rest(fromPlugin[n], BlockSize)
    BY <1>6 DEF MainReadPipe, TypeOK, tunVars
  <2>2. FromTun(n) = <<>> /\ FromTun(n)' = <<>>
    BY <2>1 DEF FromTun, Held
  <2>3. Turns(n)' = Turns(n) + 2
    BY <1>1, <2>1 DEF Turns
  <2>4. fromPlugin[n] \in Seq(Byte) /\ fromPlugin[n] # <<>> /\ BlockSize \in Nat \ {0}
    BY <2>1, Sizes, TunnelAssumption DEF HasWhatItReads
  <2>5. PICK m \in Nat \ {0} : Len(fromPlugin'[n]) + m = Len(fromPlugin[n])
    <3>1. \E m \in Nat \ {0} : /\ Len(Chunk(fromPlugin[n], BlockSize)) = m
                               /\ Len(Rest(fromPlugin[n], BlockSize)) + m = Len(fromPlugin[n])
      BY <2>4, ReadTakes, Zenon
    <3> QED BY <2>1, <3>1, Zenon
  <2>6. Incoming(n)' + m = Incoming(n)
    <3>1. Len(FromSocket(n)) \in Nat /\ Len(fromPlugin[n]) \in Nat /\ Len(fromPlugin'[n]) \in Nat
      BY Pieces, PiecesNext
    <3>2. Incoming(n)' = Len(FromSocket(n)) + Len(fromPlugin'[n])
      BY <1>2 DEF Incoming
    <3> QED BY <2>5, <3>1, <3>2 DEF Incoming
  <2>7. Lighter(n)
    BY <1>1, <1>2, <2>1, <2>2, <2>3, <2>6 DEF Lighter, LessWeight, Outgoing
  <2> QED BY <2>7, LighterIsLess
<1>7. CASE MainWriteTun(n)
  <2>1. /\ mpc[n] = "writeTun" /\ mpc'[n] = "select"
        /\ tunq' = tunq /\ toPlugin' = toPlugin /\ fromPlugin' = fromPlugin
    BY <1>7 DEF MainWriteTun, TypeOK, tunVars, pipeVars
  <2>2. FromTun(n) = <<>> /\ FromTun(n)' = <<>>
    BY <2>1 DEF FromTun, Held
  <2>3. Turns(n)' < Turns(n)
    BY <1>1, <2>1 DEF Turns
  <2>4. Lighter(n)
    BY <1>1, <1>2, <2>1, <2>2, <2>3 DEF Lighter, LessWeight, Outgoing, Incoming
  <2> QED BY <2>4, LighterIsLess
<1> QED BY <1>3, <1>4, <1>5, <1>6, <1>7 DEF MainStep

LEMMA PluginLeavesLess ==
  ASSUME TypeOK, TypeOK', HasWhatItReads, HoldsWhatItSends, NEW n \in Node, PluginStep(n)
  PROVE  WorkAt(n)' < WorkAt(n)
<1> USE DEF StepsLeft
<1>1. mpc' = mpc /\ mbuf' = mbuf /\ tunq' = tunq
  BY DEF PluginStep, PluginSelectSocket, PluginSelectPipe, PluginRecv, PluginWritePipe,
         PluginReadPipe, PluginSend, mainVars, tunVars
<1>2. FromTun(n)' = FromTun(n)
  BY <1>1 DEF FromTun
<1>3. CASE PluginSelectSocket(n) \/ PluginSelectPipe(n)
  <2>1. /\ ppc[n] = "select" /\ ppc'[n] \in {"recv", "readPipe"}
        /\ UNCHANGED <<toPlugin, fromPlugin, sndbuf, rcvbuf>>
    BY <1>3 DEF PluginSelectSocket, PluginSelectPipe, TypeOK, pipeVars, sockVars
  <2>2. /\ ToSocket(n) = <<>> /\ ToSocket(n)' = <<>>
        /\ FromSocket(n) = <<>> /\ FromSocket(n)' = <<>>
    BY <2>1 DEF ToSocket, FromSocket, Held
  <2>3. Turns(n)' < Turns(n)
    BY <1>1, <2>1 DEF Turns
  <2>4. Lighter(n)
    BY <1>1, <1>2, <2>1, <2>2, <2>3 DEF Lighter, LessWeight, Outgoing, Incoming
  <2> QED BY <2>4, LighterIsLess
<1>4. CASE PluginRecv(n)
  <2>1. /\ ppc[n] = "recv" /\ ppc'[n] = "writePipe"
        /\ UNCHANGED <<toPlugin, fromPlugin, sndbuf>>
        /\ pbuf'[n] = Chunk(rcvbuf[n], BlockSize - 1)
        /\ rcvbuf'[n] = Rest(rcvbuf[n], BlockSize - 1)
    BY <1>4 DEF PluginRecv, TypeOK, pipeVars
  <2>2. /\ ToSocket(n) = <<>> /\ ToSocket(n)' = <<>>
        /\ FromSocket(n) = <<>> /\ FromSocket(n)' = pbuf'[n]
    BY <2>1 DEF ToSocket, FromSocket, Held
  <2>3. Turns(n)' = Turns(n) + 2
    BY <1>1, <2>1 DEF Turns
  <2>4. rcvbuf[n] \in Seq(Byte) /\ rcvbuf[n] # <<>> /\ BlockSize - 1 \in Nat \ {0}
    BY <2>1, Sizes, TunnelAssumption DEF HasWhatItReads
  <2>5. PICK m \in Nat \ {0} : Len(pbuf'[n]) = m /\ Len(rcvbuf'[n]) + m = Len(rcvbuf[n])
    <3>1. \E m \in Nat \ {0} : /\ Len(Chunk(rcvbuf[n], BlockSize - 1)) = m
                               /\ Len(Rest(rcvbuf[n], BlockSize - 1)) + m = Len(rcvbuf[n])
      BY <2>4, ReadTakes, Zenon
    <3> QED BY <2>1, <3>1, Zenon
  <2>6. Incoming(n)' = Incoming(n) + m
    <3> DEFINE a == Len(fromPlugin[n])
    <3>1. a \in Nat
      BY Pieces
    <3>2. Incoming(n)' = m + a /\ Incoming(n) = 0 + a
      BY <2>1, <2>2, <2>5 DEF Incoming
    <3> HIDE DEF a
    <3>3. m + a = (0 + a) + m
      BY <3>1
    <3> QED BY <3>2, <3>3, Zenon
  <2>7. Outgoing(n)' = Outgoing(n)
    BY <1>2, <2>1 DEF Outgoing
  <2>8. Lighter(n)
    BY <1>1, <2>1, <2>2, <2>3, <2>5, <2>6, <2>7 DEF Lighter, LessWeight
  <2> QED BY <2>8, LighterIsLess
<1>5. CASE PluginWritePipe(n)
  <2>1. /\ ppc[n] = "writePipe" /\ ppc'[n] = "select"
        /\ UNCHANGED <<toPlugin, sndbuf, rcvbuf>>
        /\ fromPlugin'[n] = fromPlugin[n] \o pbuf[n]
    BY <1>5 DEF PluginWritePipe, TypeOK, sockVars
  <2>2. /\ ToSocket(n) = <<>> /\ ToSocket(n)' = <<>>
        /\ FromSocket(n) = pbuf[n] /\ FromSocket(n)' = <<>>
    BY <2>1 DEF ToSocket, FromSocket, Held
  <2>3. Turns(n)' < Turns(n)
    BY <1>1, <2>1 DEF Turns
  <2>4. Incoming(n)' = Incoming(n)
    <3> DEFINE a == Len(fromPlugin[n])
               b == Len(pbuf[n])
    <3>1. Len(fromPlugin[n] \o pbuf[n]) = a + b /\ a \in Nat /\ b \in Nat
      BY Sizes, LenConcat
    <3>2. Incoming(n)' = 0 + Len(fromPlugin[n] \o pbuf[n]) /\ Incoming(n) = b + a
      BY <2>1, <2>2 DEF Incoming
    <3> HIDE DEF a, b
    <3>3. 0 + (a + b) = b + a
      BY <3>1
    <3> QED BY <3>1, <3>2, <3>3, Zenon
  <2>5. Outgoing(n)' = Outgoing(n)
    BY <1>2, <2>1 DEF Outgoing
  <2>6. Lighter(n)
    BY <1>1, <2>1, <2>2, <2>3, <2>4, <2>5 DEF Lighter, LessWeight
  <2> QED BY <2>6, LighterIsLess
<1>6. CASE PluginReadPipe(n)
  <2>1. /\ ppc[n] = "readPipe" /\ ppc'[n] = "send"
        /\ UNCHANGED <<fromPlugin, sndbuf, rcvbuf>>
        /\ pbuf'[n] = Chunk(toPlugin[n], BlockSize - 1)
        /\ toPlugin'[n] = Rest(toPlugin[n], BlockSize - 1)
    BY <1>6 DEF PluginReadPipe, TypeOK, sockVars
  <2>2. /\ ToSocket(n) = <<>> /\ ToSocket(n)' = pbuf'[n]
        /\ FromSocket(n) = <<>> /\ FromSocket(n)' = <<>>
    BY <2>1 DEF ToSocket, FromSocket, Held
  <2>3. Turns(n)' = Turns(n) + 2
    BY <1>1, <2>1 DEF Turns
  <2>4. toPlugin[n] \in Seq(Byte) /\ toPlugin[n] # <<>> /\ BlockSize - 1 \in Nat \ {0}
    BY <2>1, Sizes, TunnelAssumption DEF HoldsWhatItSends
  <2>5. PICK m \in Nat \ {0} : Len(pbuf'[n]) = m /\ Len(toPlugin'[n]) + m = Len(toPlugin[n])
    <3>1. \E m \in Nat \ {0} : /\ Len(Chunk(toPlugin[n], BlockSize - 1)) = m
                               /\ Len(Rest(toPlugin[n], BlockSize - 1)) + m = Len(toPlugin[n])
      BY <2>4, ReadTakes, Zenon
    <3> QED BY <2>1, <3>1, Zenon
  <2>6. Outgoing(n)' + m = Outgoing(n)
    <3> DEFINE a == Len(FromTun(n))
               b == Len(toPlugin[n])
               b1 == Len(toPlugin'[n])
    <3>1. a \in Nat /\ b \in Nat /\ b1 \in Nat /\ b1 + m = b
      BY <2>5, Pieces, PiecesNext
    <3>2. Outgoing(n)' = a + b1 /\ Outgoing(n) = a + b
      BY <1>2 DEF Outgoing
    <3> HIDE DEF a, b, b1
    <3>3. (a + b1) + m = a + b
      BY <3>1
    <3> QED BY <3>2, <3>3, Zenon
  <2>7. Incoming(n)' = Incoming(n)
    BY <2>1, <2>2 DEF Incoming
  <2>8. Len(ToSocket(n)) = 0 /\ Len(ToSocket(n))' = 0 + m
    BY <2>2, <2>5
  <2>9. Lighter(n)
    BY <1>1, <2>1, <2>3, <2>6, <2>7, <2>8 DEF Lighter, LessWeight
  <2> QED BY <2>9, LighterIsLess
<1>7. CASE PluginSend(n)
  <2>1. PICK k \in 1..Len(pbuf[n]) :
          /\ sndbuf' = [sndbuf EXCEPT ![n] = @ \o Chunk(pbuf[n], k)]
          /\ pbuf' = [pbuf EXCEPT ![n] = Rest(@, k)]
          /\ ppc' = [ppc EXCEPT ![n] = IF k = Len(pbuf[n]) THEN "select" ELSE "send"]
    BY <1>7 DEF PluginSend
  <2>2. ppc[n] = "send" /\ UNCHANGED <<toPlugin, fromPlugin, rcvbuf>>
    BY <1>7 DEF PluginSend, pipeVars
  <2>3. /\ pbuf[n] \in Seq(Byte) /\ pbuf[n] # <<>> /\ k \in Nat \ {0}
        /\ sndbuf[n] \in Seq(Byte) /\ Len(pbuf[n]) \in Nat
    BY <2>1, <2>2, Sizes DEF HoldsWhatItSends
  <2> DEFINE c == Chunk(pbuf[n], k)
             d == Rest(pbuf[n], k)
  <2>4. PICK m \in Nat \ {0} : Len(c) = m /\ Len(d) + m = Len(pbuf[n])
    BY <2>3, ReadTakes, Zenon
  <2>5. c \in Seq(Byte) /\ (k = Len(pbuf[n]) => d = <<>>)
    <3>1. k \in Nat
      BY <2>3
    <3>2. c \in Seq(Byte)
      BY <2>3, <3>1, ChunkThenRest, Zenon
    <3>3. k = Len(pbuf[n]) => d = <<>>
      BY <2>3 DEF Rest
    <3> QED BY <3>2, <3>3
  <2>6. /\ ToSocket(n) = pbuf[n] /\ ToSocket(n)' = d
        /\ FromSocket(n) = <<>> /\ FromSocket(n)' = <<>>
        /\ sndbuf'[n] = sndbuf[n] \o c
    <3>1. sndbuf' = [sndbuf EXCEPT ![n] = @ \o c] /\ pbuf' = [pbuf EXCEPT ![n] = d]
      BY <2>1
    <3> HIDE DEF c, d
    <3>2. pbuf'[n] = d /\ sndbuf'[n] = sndbuf[n] \o c
      BY <3>1 DEF TypeOK
    <3>3. ppc'[n] = "send" \/ (ppc'[n] = "select" /\ d = <<>>)
      BY <2>1, <2>5 DEF TypeOK
    <3> QED BY <2>2, <3>2, <3>3 DEF ToSocket, FromSocket, Held
  <2> HIDE DEF c, d
  <2>7. Len(sndbuf'[n]) = Len(sndbuf[n]) + m
    BY <2>3, <2>4, <2>5, <2>6, LenConcat
  <2>8. Turns(n)' <= Turns(n)
    BY <1>1, <2>1, <2>2 DEF Turns, TypeOK
  <2>9. Outgoing(n)' = Outgoing(n) /\ Incoming(n)' = Incoming(n)
    BY <1>2, <2>2, <2>6 DEF Outgoing, Incoming
  <2>10. Len(ToSocket(n))' + m = Len(ToSocket(n))
    BY <2>4, <2>6
  <2>11. Lighter(n)
    BY <1>1, <2>2, <2>7, <2>8, <2>9, <2>10 DEF Lighter, LessWeight
  <2> QED BY <2>11, LighterIsLess
<1> QED BY <1>3, <1>4, <1>5, <1>6, <1>7 DEF PluginStep

(* A step of one host's threads leaves the other host as it is.            *)
LEMMA OtherHostAlone ==
  ASSUME TypeOK, NEW n \in Node, MainStep(n) \/ PluginStep(n), NEW m \in Node, m # n
  PROVE  WorkAt(m)' = WorkAt(m)
<1> DEFINE AtHost == <<mpc[m], ppc[m], mbuf[m], pbuf[m], tunq[m], toPlugin[m], fromPlugin[m],
                       sndbuf[m], rcvbuf[m]>>
<1>1. CASE MainStep(n)
  BY <1>1 DEF MainStep, MainSelectTun, MainSelectPipe, MainReadTun, MainWritePipe, MainReadPipe,
              MainWriteTun, TypeOK, pluginVars, tunVars, pipeVars, sockVars, WorkAt
<1>2. CASE PluginStep(n)
  <2>1. UNCHANGED AtHost
    BY <1>2 DEF PluginStep, PluginSelectSocket, PluginSelectPipe, PluginRecv, PluginWritePipe,
                PluginReadPipe, PluginSend, TypeOK, mainVars, tunVars, pipeVars, sockVars
  <2> QED BY <2>1 DEF WorkAt
<1> QED BY <1>1, <1>2

(* Bytes that have crossed the network are one turn nearer.                *)
LEMMA NetLeavesLess ==
  ASSUME TypeOK, TypeOK', NEW n \in Node, NetDeliver(n)
  PROVE  WorkAt(n)' + WorkAt(Peer(n))' < WorkAt(n) + WorkAt(Peer(n))
<1> DEFINE p == Peer(n)
<1>1. PICK k \in 1..Len(sndbuf[n]) :
        /\ rcvbuf' = [rcvbuf EXCEPT ![p] = @ \o Chunk(sndbuf[n], k)]
        /\ sndbuf' = [sndbuf EXCEPT ![n] = Rest(@, k)]
  BY DEF NetDeliver
<1>2. UNCHANGED <<mpc, mbuf, ppc, pbuf, tunq, toPlugin, fromPlugin>>
  BY DEF NetDeliver, mainVars, pluginVars, tunVars, pipeVars
<1>3. p \in Node /\ p # n
  BY PeerFacts
<1>4. /\ sndbuf[n] \in Seq(Byte) /\ rcvbuf[p] \in Seq(Byte) /\ k \in Nat \ {0}
      /\ sndbuf[n] # <<>>
  BY <1>1, <1>3, Sizes
<1> DEFINE c == Chunk(sndbuf[n], k)
           d == Rest(sndbuf[n], k)
<1>5. PICK m \in Nat \ {0} : Len(c) = m /\ Len(d) + m = Len(sndbuf[n])
  BY <1>4, ReadTakes, Zenon
<1>6. c \in Seq(Byte)
  <2>1. k \in Nat
    BY <1>4
  <2> QED BY <1>4, <2>1, ChunkThenRest, Zenon
<1>7. /\ rcvbuf'[p] = rcvbuf[p] \o c /\ rcvbuf'[n] = rcvbuf[n]
      /\ sndbuf'[n] = d /\ sndbuf'[p] = sndbuf[p]
  <2>1. rcvbuf' = [rcvbuf EXCEPT ![p] = @ \o c] /\ sndbuf' = [sndbuf EXCEPT ![n] = d]
    BY <1>1
  <2> HIDE DEF c, d, p
  <2> QED BY <1>3, <2>1 DEF TypeOK
<1> HIDE DEF c, d
<1>8. Len(rcvbuf'[p]) = Len(rcvbuf[p]) + m
  BY <1>4, <1>5, <1>6, <1>7, LenConcat
<1> HIDE DEF p
<1>9. ASSUME NEW q \in Node
      PROVE  /\ Turns(q)' = Turns(q) /\ Outgoing(q)' = Outgoing(q) /\ Incoming(q)' = Incoming(q)
             /\ ToSocket(q)' = ToSocket(q) /\ tunq'[q] = tunq[q]
  BY <1>2 DEF Turns, Outgoing, Incoming, ToSocket, FromTun, FromSocket
<1>10. WorkAt(n)' + 7 * m = WorkAt(n)
  <2> DEFINE t == Turns(n)
             f == Len(tunq[n])
             o == Outgoing(n)
             b == Len(ToSocket(n))
             r == Len(rcvbuf[n])
             i == Incoming(n)
             k0 == Len(sndbuf[n])
             k1 == Len(sndbuf'[n])
  <2>1. /\ t \in Nat /\ f \in Nat /\ o \in Nat /\ b \in Nat /\ r \in Nat /\ i \in Nat
        /\ k0 \in Nat /\ k1 \in Nat /\ k1 + m = k0
    BY <1>5, <1>7, WorkTypes, WorkTypesNext
  <2>2. WorkAt(n) = Weigh(t, f, o, b, k0, r, i)
    BY WorkIsWeight
  <2>3. WorkAt(n)' = Weigh(t, f, o, b, k1, r, i)
    BY <1>7, <1>9, WorkTypesNext
  <2> HIDE DEF t, f, o, b, r, i, k0, k1
  <2>4. Weigh(t, f, o, b, k1, r, i) + 7 * m = Weigh(t, f, o, b, k0, r, i)
    <3>1. FrameWork * f \in Nat
      BY <2>1, TunnelAssumption DEF FrameWork
    <3> DEFINE w == FrameWork * f
    <3> HIDE DEF w
    <3>2. w \in Nat
      BY <3>1 DEF w
    <3>3. /\ Weigh(t, f, o, b, k0, r, i) = t + w + 11 * o + 8 * b + 7 * k0 + 6 * r + 3 * i
          /\ Weigh(t, f, o, b, k1, r, i) = t + w + 11 * o + 8 * b + 7 * k1 + 6 * r + 3 * i
      BY DEF Weigh, w
    <3>4. 7 * k0 = 7 * k1 + 7 * m
      BY <2>1
    <3>5. (t + w + 11 * o + 8 * b + 7 * k1 + 6 * r + 3 * i) + 7 * m
            = t + w + 11 * o + 8 * b + 7 * k0 + 6 * r + 3 * i
      BY <2>1, <3>2, <3>4
    <3> QED BY <3>3, <3>5, Zenon
  <2> QED BY <2>2, <2>3, <2>4
<1>11. WorkAt(p)' = WorkAt(p) + 6 * m
  <2> DEFINE t == Turns(p)
             f == Len(tunq[p])
             o == Outgoing(p)
             b == Len(ToSocket(p))
             k0 == Len(sndbuf[p])
             i == Incoming(p)
             r0 == Len(rcvbuf[p])
             r1 == Len(rcvbuf'[p])
  <2>1. /\ t \in Nat /\ f \in Nat /\ o \in Nat /\ b \in Nat /\ k0 \in Nat /\ i \in Nat
        /\ r0 \in Nat /\ r1 = r0 + m
    BY <1>3, <1>8, WorkTypes
  <2>2. WorkAt(p) = Weigh(t, f, o, b, k0, r0, i)
    BY WorkIsWeight
  <2>3. WorkAt(p)' = Weigh(t, f, o, b, k0, r1, i)
    BY <1>3, <1>7, <1>9, WorkTypesNext
  <2> HIDE DEF t, f, o, b, k0, i, r0, r1
  <2>4. Weigh(t, f, o, b, k0, r1, i) = Weigh(t, f, o, b, k0, r0, i) + 6 * m
    <3>1. FrameWork * f \in Nat
      BY <2>1, TunnelAssumption DEF FrameWork
    <3> DEFINE w == FrameWork * f
    <3> HIDE DEF w
    <3>2. w \in Nat
      BY <3>1 DEF w
    <3>3. /\ Weigh(t, f, o, b, k0, r0, i) = t + w + 11 * o + 8 * b + 7 * k0 + 6 * r0 + 3 * i
          /\ Weigh(t, f, o, b, k0, r1, i) = t + w + 11 * o + 8 * b + 7 * k0 + 6 * r1 + 3 * i
      BY DEF Weigh, w
    <3>4. 6 * r1 = 6 * r0 + 6 * m
      BY <2>1
    <3>5. t + w + 11 * o + 8 * b + 7 * k0 + 6 * r1 + 3 * i
            = (t + w + 11 * o + 8 * b + 7 * k0 + 6 * r0 + 3 * i) + 6 * m
      BY <2>1, <3>2, <3>4
    <3> QED BY <3>3, <3>5, Zenon
  <2> QED BY <2>2, <2>3, <2>4
<1>12. WorkAt(n) \in Nat /\ WorkAt(p) \in Nat /\ WorkAt(n)' \in Nat
  BY <1>3, WorkTypes, WorkTypesNext
<1>13. WorkAt(n)' + WorkAt(p)' < WorkAt(n) + WorkAt(p)
  BY <1>10, <1>11, <1>12
<1> QED BY <1>13 DEF p

LEMMA SetUpLeavesLess ==
  ASSUME TypeOK, TypeOK', Connect \/ PluginAccept
  PROVE  Work' < Work
<1> USE DEF StepsLeft
<1>1. Client \in Node /\ Server \in Node /\ Client # Server
  BY TunnelAssumption DEF Node
<1>2. UNCHANGED <<mbuf, pbuf, tunq, toPlugin, fromPlugin, sndbuf, rcvbuf>>
  BY DEF Connect, PluginAccept, mainVars, tunVars, pipeVars, sockVars
<1>3. ASSUME NEW q \in Node
      PROVE  /\ FromTun(q)' = FromTun(q) /\ ToSocket(q)' = ToSocket(q)
             /\ FromSocket(q)' = FromSocket(q)
  BY <1>2 DEF Connect, PluginAccept, TypeOK, mainVars, FromTun, ToSocket, FromSocket, Held
<1>4. ASSUME NEW q \in Node, Turns(q)' < Turns(q)
      PROVE  WorkAt(q)' < WorkAt(q)
  <2>1. Lighter(q)
    BY <1>2, <1>3, <1>4 DEF Lighter, LessWeight, Outgoing, Incoming
  <2> QED BY <2>1, LighterIsLess
<1>5. ASSUME NEW q \in Node, mpc'[q] = mpc[q], ppc'[q] = ppc[q]
      PROVE  WorkAt(q)' = WorkAt(q)
  BY <1>2, <1>5 DEF WorkAt
<1>6. /\ WorkAt(Client) \in Nat /\ WorkAt(Client)' \in Nat
      /\ WorkAt(Server) \in Nat /\ WorkAt(Server)' \in Nat
  BY <1>1, WorkTypes, WorkTypesNext
<1>7. CASE Connect
  <2>1. Turns(Client)' < Turns(Client)
    BY <1>1, <1>7 DEF Connect, TypeOK, Turns
  <2>2. mpc'[Server] = mpc[Server] /\ ppc'[Server] = ppc[Server]
    BY <1>1, <1>7 DEF Connect, TypeOK
  <2> QED BY <1>1, <1>4, <1>5, <1>6, <2>1, <2>2 DEF Work
<1>8. CASE PluginAccept
  <2>1. Turns(Server)' < Turns(Server)
    BY <1>1, <1>8 DEF PluginAccept, TypeOK, mainVars, Turns
  <2>2. mpc'[Client] = mpc[Client] /\ ppc'[Client] = ppc[Client]
    BY <1>1, <1>8 DEF PluginAccept, TypeOK, mainVars
  <2> QED BY <1>1, <1>4, <1>5, <1>6, <2>1, <2>2 DEF Work
<1> QED BY <1>7, <1>8

(* Whatever the sizes of buffers, pipes and frames, a step that is not the *)
(* arrival of a frame at a TUN device leaves less to do.  As Work is a     *)
(* natural number no run goes on for ever unless frames keep arriving:     *)
(* with RestIsDelivered, a tunnel whose threads are scheduled comes to     *)
(* rest, everything delivered or a host in the local cycle.                *)
THEOREM StepsRunOut == Spec => NoLivelock
<1> DEFINE Inv == TypeOK /\ HasWhatItReads /\ HoldsWhatItSends
<1>1. Init => Inv
  BY TypeInit, TunnelAssumption DEF Init, HasWhatItReads, HoldsWhatItSends, Node
<1>2. Inv /\ [Next]_vars => Inv'
  BY TypeStep, ReadsStep, HoldsStep
<1>3. Inv /\ [Next]_vars
        => [(\E n \in Node : nframes'[n] > nframes[n]) \/ Work' < Work]_vars
  <2> SUFFICES ASSUME Inv, Next, ~ \E n \in Node : nframes'[n] > nframes[n]
               PROVE  Work' < Work
    OBVIOUS
  <2>1. TypeOK'
    BY TypeStep
  <2>2. ASSUME NEW n \in Node
        PROVE  /\ Work = WorkAt(n) + WorkAt(Peer(n))
               /\ Work' = WorkAt(n)' + WorkAt(Peer(n))'
               /\ WorkAt(n) \in Nat /\ WorkAt(Peer(n)) \in Nat
               /\ WorkAt(n)' \in Nat /\ WorkAt(Peer(n))' \in Nat
    <3>1. /\ WorkAt(n) \in Nat /\ WorkAt(Peer(n)) \in Nat
          /\ WorkAt(n)' \in Nat /\ WorkAt(Peer(n))' \in Nat
      BY <2>1, PeerFacts, WorkTypes, WorkTypesNext
    <3>2. \/ n = Client /\ Peer(n) = Server
          \/ n = Server /\ Peer(n) = Client
      BY TunnelAssumption DEF Node, Peer
    <3> QED BY <3>1, <3>2 DEF Work
  <2>3. ASSUME NEW n \in Node, MainStep(n) \/ PluginStep(n) PROVE Work' < Work
    <3>1. WorkAt(n)' < WorkAt(n)
      BY <2>1, <2>3, MainLeavesLess, PluginLeavesLess
    <3>2. WorkAt(Peer(n))' = WorkAt(Peer(n))
      BY <2>3, PeerFacts, OtherHostAlone
    <3> QED BY <2>2, <3>1, <3>2
  <2>4. ASSUME NEW n \in Node, NetDeliver(n) PROVE Work' < Work
    BY <2>1, <2>2, <2>4, NetLeavesLess
  <2>5. ASSUME NEW n \in Node, TunArrive(n) PROVE FALSE
    <3>1. nframes[n] \in Nat /\ nframes'[n] = nframes[n] + 1
      BY <2>5 DEF TunArrive, TypeOK
    <3> QED BY <3>1
  <2>6. CASE Connect \/ PluginAccept
    BY <2>1, <2>6, SetUpLeavesLess
  <2> QED BY <2>3, <2>4, <2>5, <2>6 DEF Next
<1> QED BY <1>1, <1>2, <1>3, PTL DEF Spec, NoLivelock
=============================================================================
