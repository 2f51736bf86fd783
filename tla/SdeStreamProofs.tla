---------------------------- MODULE SdeStreamProofs ----------------------------
(***************************************************************************)
(* SdeStream for rings and buffers of any size, in every layout: the       *)
(* indices stay inside their rings, every packet read is the next one      *)
(* sent, the card never writes a metadata entry the host has still to      *)
(* read, and no buffer is filled that the card has still to read.          *)
(*                                                                         *)
(* The invariant follows the packets from the reader's place backwards:    *)
(* so many in the metadata ring, so many on their way there, then the      *)
(* descriptors.  No index is compared with another one by the code; it is  *)
(* the counts between them that make the places agree.                     *)
(***************************************************************************)
EXTENDS SdeStream, SequenceTheorems, TLAPS

\* The place k after x, and k before x, in a ring of n: x is in it, k is at
\* most n.
Pos(x, k, n) == IF x + k < n THEN x + k ELSE x + k - n
Back(x, k, n) == IF k <= x THEN x - k ELSE x + n - k

\* A list of successive places from x on, and an array that holds successive
\* packets from v on at m successive places from x on.
Chain(q, x, n) == \A k \in DOMAIN q : q[k] = Pos(x, k - 1, n)
Holds(f, x, v, m, n) == \A k \in 0..(m - 1) : f[Pos(x, k, n)] = Pos(v, k, Ids)

\* Descriptors that the call under way has still to post.
ToPost == [d \in Dirs |-> IF pc = d THEN left ELSE 0]
Reading == pc \in {"md", "user", "copy"}

\* Packets asked for whose metadata is in the ring, the one under way counted
\* until it has been copied; and those in the buffers.
Held == asked - (Len(mdQ) + Len(fetch["c2h"]) + Len(descs["c2h"]) + ToPost["c2h"])
Arrived == Held + Len(mdQ)

\* The metadata entry of the packet to be copied next, which sde_mgmt_read_md
\* may have given back.
MdHead == IF pc = "copy" THEN Back(mdIdx, 1, NumDesc) ELSE mdIdx
GivenBack == pc \in {"user", "copy"}

\* The packets that have arrived, or are in the card; those in host-to-card
\* buffers that the card has still to read, and the buffer of the first.
Moved == Arrived + Len(loop)
Pending == Len(fetch["h2c"]) + Len(descs["h2c"]) + ToPost["h2c"] + prepared
Oldest == Back(bufIdx["h2c"], Pending, NumBuf)

CallInv ==
    /\ prepared \in 0..MaxBatch /\ sent \in Nat /\ asked \in 0..NumBuf
    /\ sent + prepared <= NumBuf
    /\ nextW \in Packets /\ nextR \in Packets /\ gen \in Packets
    /\ pc \in Dirs \cup {"fill"} \/ Reading => left >= 1
    /\ pc = "fill" =>
           loopback /\ sent + prepared + left <= NumBuf /\ prepared + left <= MaxBatch
    /\ Reading => left <= asked /\ (loopback => left <= sent)

QueueInv ==
    /\ descs \in [Dirs -> Seq(BufIds)] /\ fetch \in [Dirs -> Seq(BufIds)]
    /\ pops \in [Dirs -> Nat]
    /\ mdQ \in Seq(Packets) /\ loop \in Seq(Packets)

\* Card to host: the packets not read yet are the next ones, each at its place
\* of the metadata ring, of what is on its way there, and of the buffers; the
\* descriptors go on where the packets end.
MdInv ==
    /\ Held >= 0 /\ (GivenBack => Held >= 1)
    /\ mdWr = Pos(MdHead, Held, NumDesc)
    /\ \A k \in 0..(NumDesc - 1) :
          LET e == ring[Pos(MdHead, k, NumDesc)]
          IN  /\ e.valid <=> k < Held /\ ~(k = 0 /\ GivenBack)
              /\ k < Held => e.user = Pos(nextR, k, Ids)
    /\ Chain(mdQ, Pos(nextR, Held, Ids), Ids)

C2hInv ==
    LET b == bufIdx["c2h"]  nf == Len(fetch["c2h"])  nd == Len(descs["c2h"])
    IN  /\ Holds(buf["c2h"], b, nextR, Arrived, NumBuf)
        /\ Chain(fetch["c2h"], Pos(b, Arrived, NumBuf), NumBuf)
        /\ Chain(descs["c2h"], Pos(b, Arrived + nf, NumBuf), NumBuf)
        /\ DescBuf(postIdx["c2h"]) = Pos(b, Arrived + nf + nd, NumBuf)

\* Host to card: likewise, from the oldest buffer the card has still to read to
\* the one that is filled next.
H2cInv ==
    LET nf == Len(fetch["h2c"])  nd == Len(descs["h2c"])
    IN  /\ Holds(buf["h2c"], Oldest, Pos(nextR, Moved, Ids), Pending, NumBuf)
        /\ Chain(fetch["h2c"], Oldest, NumBuf)
        /\ Chain(descs["h2c"], Pos(Oldest, nf, NumBuf), NumBuf)
        /\ DescBuf(postIdx["h2c"]) = Pos(Oldest, nf + nd, NumBuf)

\* What is in the card's loopback, or what its generator makes next.
LoopInv ==
    /\ Chain(loop, Pos(nextR, Arrived, Ids), Ids)
    /\ loopback => /\ sent + prepared = Moved + Pending
                   /\ nextW = Pos(nextR, sent + prepared, Ids)
    /\ ~loopback => loop = << >> /\ Pending = 0 /\ gen = Pos(nextR, Arrived, Ids)

SeenInv == InOrder /\ (pc = "copy" => seen.due = nextR)

StreamInv == TypeOK /\ CallInv /\ QueueInv /\ MdInv /\ C2hInv /\ H2cInv
             /\ LoopInv /\ SeenInv

----------------------------------------------------------------------------
(* Places in a ring.                                                       *)

\* A place is in the ring; going on from it, or back to it, adds up; two
\* places less than a round apart differ.
LEMMA PosProps ==
    ASSUME NEW n \in Nat \ {0}, NEW x \in 0..(n - 1)
    PROVE  /\ \A k \in 0..n : Pos(x, k, n) \in 0..(n - 1)
           /\ Pos(x, 0, n) = x /\ Pos(x, n, n) = x
           /\ \A j, k \in 0..n : j + k <= n =>
                 Pos(Pos(x, j, n), k, n) = Pos(x, j + k, n)
           /\ \A j, k \in 0..(n - 1) : Pos(x, j, n) = Pos(x, k, n) => j = k
           /\ \A y \in 0..(n - 1) : \E k \in 0..(n - 1) : Pos(x, k, n) = y
  <1>1. \A k \in 0..n : Pos(x, k, n) \in 0..(n - 1)
    BY DEF Pos
  <1>2. Pos(x, 0, n) = x /\ Pos(x, n, n) = x
    BY DEF Pos
  <1>3. \A j, k \in 0..n : j + k <= n =>
            Pos(Pos(x, j, n), k, n) = Pos(x, j + k, n)
    BY DEF Pos
  <1>4. \A j, k \in 0..(n - 1) : Pos(x, j, n) = Pos(x, k, n) => j = k
    BY DEF Pos
  <1>5. ASSUME NEW y \in 0..(n - 1)
        PROVE  \E k \in 0..(n - 1) : Pos(x, k, n) = y
    <2>1. CASE x <= y
      <3>1. y - x \in 0..(n - 1) /\ Pos(x, y - x, n) = y
        BY <2>1 DEF Pos
      <3> QED BY <3>1
    <2>2. CASE ~(x <= y)
      <3>1. y + n - x \in 0..(n - 1) /\ Pos(x, y + n - x, n) = y
        BY <2>2 DEF Pos
      <3> QED BY <3>1
    <2> QED BY <2>1, <2>2
  <1> QED BY <1>1, <1>2, <1>3, <1>4, <1>5

\* Going back undoes going on.
LEMMA BackProps ==
    ASSUME NEW n \in Nat \ {0}, NEW x \in 0..(n - 1), NEW k \in 0..n
    PROVE  /\ Back(x, k, n) \in 0..(n - 1) /\ Pos(Back(x, k, n), k, n) = x
           /\ Back(Pos(x, 1, n), 1, n) = x
           /\ k < n => /\ Back(Pos(x, 1, n), k + 1, n) = Back(x, k, n)
                       /\ Pos(Back(x, k + 1, n), 1, n) = Back(x, k, n)
  BY DEF Pos, Back

\* The code goes on with a remainder.
LEMMA ModIsPos ==
    ASSUME NEW n \in Nat \ {0}, NEW x \in 0..(n - 1), NEW k \in 0..n
    PROVE  (x + k) % n = Pos(x, k, n)
  <1>1. CASE x + k < n
    <2>1. (x + k) % n = x + k
      BY <1>1
    <2> QED BY <1>1, <2>1 DEF Pos
  <1>2. CASE ~(x + k < n)
    <2>1. (x + k - n) \in 0..(n - 1)
      BY <1>2
    <2>2. (x + k) % n = x + k - n
      BY <1>2, <2>1
    <2> QED BY <1>2, <2>2 DEF Pos
  <1> QED BY <1>1, <1>2

\* A list of places that ends where the next one is taken.
LEMMA ChainAppend ==
    ASSUME NEW S, NEW q \in Seq(S), NEW x, NEW n, NEW v \in S, Chain(q, x, n),
           v = Pos(x, Len(q), n)
    PROVE  Chain(Append(q, v), x, n)
  <1> DEFINE r == Append(q, v)  l == Len(q)
  <1>1. /\ l \in Nat /\ DOMAIN q = 1..l /\ DOMAIN r = 1..(l + 1)
        /\ \A k \in 1..l : r[k] = q[k]
        /\ r[l + 1] = v
    BY AppendProperties, LenProperties
  <1> HIDE DEF r, l
  <1> SUFFICES ASSUME NEW k \in 1..(l + 1) PROVE r[k] = Pos(x, k - 1, n)
    BY <1>1 DEF Chain, r
  <1>2. CASE k \in 1..l
    BY <1>1, <1>2 DEF Chain
  <1>3. CASE k = l + 1
    <2>1. k - 1 = l
      BY <1>1, <1>3
    <2> QED BY <1>1, <1>3, <2>1 DEF l
  <1> QED BY <1>1, <1>2, <1>3

\* Two lists, the second going on where the first ends.
LEMMA ChainConcat ==
    ASSUME NEW n \in Nat \ {0}, NEW x \in 0..(n - 1), NEW S, NEW p \in Seq(S),
           NEW q \in Seq(S), Len(p) + Len(q) <= n,
           Chain(p, x, n), Chain(q, Pos(x, Len(p), n), n)
    PROVE  Chain(p \o q, x, n)
  <1> DEFINE r == p \o q  l == Len(p)  m == Len(q)
  <1>1. /\ l \in Nat /\ m \in Nat /\ DOMAIN p = 1..l /\ DOMAIN q = 1..m
        /\ DOMAIN r = 1..(l + m) /\ l + m <= n
        /\ \A i \in 1..(l + m) : r[i] = IF i <= l THEN p[i] ELSE q[i - l]
    BY ConcatProperties, LenProperties
  <1>2. /\ \A k \in 1..l : p[k] = Pos(x, k - 1, n)
        /\ \A k \in 1..m : q[k] = Pos(Pos(x, l, n), k - 1, n)
    BY <1>1 DEF Chain
  <1> HIDE DEF r, l, m
  <1> SUFFICES ASSUME NEW k \in 1..(l + m) PROVE r[k] = Pos(x, k - 1, n)
    BY <1>1 DEF Chain, r
  <1>3. CASE k <= l
    BY <1>1, <1>2, <1>3
  <1>4. CASE ~(k <= l)
    <2> DEFINE j == k - l
    <2>1. j \in 1..m /\ r[k] = q[j] /\ j - 1 \in 0..n /\ l \in 0..n
          /\ l + (j - 1) <= n /\ l + (j - 1) = k - 1
      BY <1>1, <1>4
    <2> HIDE DEF j
    <2>2. q[j] = Pos(Pos(x, l, n), j - 1, n)
      BY <1>2, <2>1
    <2>3. Pos(Pos(x, l, n), j - 1, n) = Pos(x, l + (j - 1), n)
      BY <2>1, PosProps
    <2> QED BY <2>1, <2>2, <2>3
  <1> QED BY <1>3, <1>4

\* The first of a list is its start, the rest begins one on.
LEMMA ChainTail ==
    ASSUME NEW n \in Nat \ {0}, NEW x \in 0..(n - 1), NEW S, NEW q \in Seq(S),
           q # << >>, Len(q) <= n, Chain(q, x, n)
    PROVE  Head(q) = x /\ Chain(Tail(q), Pos(x, 1, n), n)
  <1> DEFINE t == Tail(q)  l == Len(q)
  <1>1. /\ l \in Nat /\ 1 <= l /\ l <= n /\ DOMAIN q = 1..l /\ Head(q) = q[1]
        /\ DOMAIN t = 1..(l - 1) /\ \A i \in 1..(l - 1) : t[i] = q[i + 1]
    BY HeadTailProperties, LenProperties
  <1>2. \A k \in 1..l : q[k] = Pos(x, k - 1, n)
    BY <1>1 DEF Chain
  <1> HIDE DEF t, l
  <1>3. q[1] = x
    <2>1. 1 \in 1..l /\ 1 - 1 = 0
      BY <1>1
    <2>2. q[1] = Pos(x, 0, n)
      BY <1>2, <2>1
    <2>3. Pos(x, 0, n) = x
      BY PosProps
    <2> QED BY <2>2, <2>3
  <1>4. ASSUME NEW k \in 1..(l - 1) PROVE t[k] = Pos(Pos(x, 1, n), k - 1, n)
    <2>1. /\ k + 1 \in 1..l /\ 1 \in 0..n /\ k - 1 \in 0..n /\ 1 + (k - 1) <= n
          /\ (k + 1) - 1 = k /\ 1 + (k - 1) = k
      BY <1>1
    <2>2. t[k] = Pos(x, k, n)
      BY <1>1, <1>2, <2>1
    <2>3. Pos(Pos(x, 1, n), k - 1, n) = Pos(x, 1 + (k - 1), n)
      BY <2>1, PosProps
    <2> QED BY <2>1, <2>2, <2>3
  <1> QED BY <1>1, <1>3, <1>4 DEF Chain, t

\* One packet more at the end of those an array holds.
LEMMA HoldsMore ==
    ASSUME NEW n \in Nat \ {0}, NEW x \in 0..(n - 1), NEW m \in 0..(n - 1),
           NEW f, DOMAIN f = 0..(n - 1), NEW v, NEW g,
           g = [f EXCEPT ![Pos(x, m, n)] = Pos(v, m, Ids)], Holds(f, x, v, m, n)
    PROVE  Holds(g, x, v, m + 1, n)
  <1> SUFFICES ASSUME NEW k \in 0..m PROVE g[Pos(x, k, n)] = Pos(v, k, Ids)
    BY DEF Holds
  <1>1. Pos(x, k, n) \in DOMAIN f /\ Pos(x, m, n) \in DOMAIN f
    <2>1. k \in 0..n /\ m \in 0..n
      OBVIOUS
    <2> QED BY <2>1, PosProps
  <1>2. CASE k = m
    BY <1>1, <1>2
  <1>3. CASE k # m
    <2>1. k \in 0..(m - 1) /\ k \in 0..(n - 1)
      BY <1>3
    <2>2. Pos(x, k, n) # Pos(x, m, n)
      BY <1>3, <2>1, PosProps
    <2>3. f[Pos(x, k, n)] = Pos(v, k, Ids)
      BY <2>1 DEF Holds
    <2> QED BY <1>1, <2>2, <2>3
  <1> QED BY <1>2, <1>3

\* The first of the packets an array holds, and the rest.
LEMMA HoldsLess ==
    ASSUME NEW n \in Nat \ {0}, NEW x \in 0..(n - 1), NEW m \in 1..n, n < Ids,
           NEW f, NEW v \in Packets, Holds(f, x, v, m, n)
    PROVE  f[x] = v /\ Holds(f, Pos(x, 1, n), Pos(v, 1, Ids), m - 1, n)
  <1>1. Ids \in Nat \ {0} /\ v \in 0..(Ids - 1)
    BY StreamAssumption DEF Packets
  <1>2. f[x] = v
    <2>1. 0 \in 0..(m - 1)
      OBVIOUS
    <2>2. f[Pos(x, 0, n)] = Pos(v, 0, Ids)
      BY <2>1 DEF Holds
    <2> QED BY <1>1, <2>2, PosProps
  <1>3. ASSUME NEW k \in 0..((m - 1) - 1)
        PROVE  f[Pos(Pos(x, 1, n), k, n)] = Pos(Pos(v, 1, Ids), k, Ids)
    <2>1. /\ k + 1 \in 0..(m - 1) /\ 1 + k = k + 1 /\ 1 + k <= n /\ 1 + k <= Ids
          /\ 1 \in 0..n /\ k \in 0..n /\ 1 \in 0..Ids /\ k \in 0..Ids
      BY <1>1
    <2>2. f[Pos(x, k + 1, n)] = Pos(v, k + 1, Ids)
      BY <2>1 DEF Holds
    <2>3. Pos(Pos(x, 1, n), k, n) = Pos(x, 1 + k, n)
      BY <2>1, PosProps
    <2>4. Pos(Pos(v, 1, Ids), k, Ids) = Pos(v, 1 + k, Ids)
      BY <1>1, <2>1, PosProps
    <2> QED BY <2>1, <2>2, <2>3, <2>4
  <1> QED BY <1>2, <1>3 DEF Holds

----------------------------------------------------------------------------
(* What the invariant says of counts and indices, in one place.            *)

\* The sizes: the buffers are as many as the descriptors, or there is one.
LEMMA Sizes ==
    ASSUME layout \in Layouts
    PROVE  /\ NumDesc \in Nat \ {0} /\ NumBuf \in 1..NumDesc /\ NumBuf \in Nat \ {0}
           /\ Ids \in Nat \ {0} /\ NumBuf < Ids /\ NumDesc < Ids
           /\ RingSize \in 1..NumDesc /\ (RingSize = NumBuf \/ NumBuf = 1)
           /\ BufIds = 0..(NumBuf - 1) /\ Packets = 0..(Ids - 1) /\ NoPacket \notin Packets
           /\ MaxBatch \in 1..NumDesc /\ LoopCap \in Nat \ {0}
  <1>1. /\ layout[1] \in {"single", "multi", "user"} /\ layout[2] \in 1..NumDesc
        /\ layout[1] = "single" => layout[2] = 1
        /\ layout[1] = "multi" => layout[2] = NumDesc
    BY StreamAssumption
  <1>2. NumDesc \in Nat \ {0} /\ Ids \in Nat /\ Ids > 2 * NumDesc
        /\ MaxBatch \in 1..NumDesc /\ LoopCap \in Nat \ {0}
    BY StreamAssumption
  <1> QED BY <1>1, <1>2 DEF NumBuf, RingSize, BufIds, Packets, NoPacket

\* Every count is a natural number and nothing is more than the buffers.
LEMMA Counts ==
    ASSUME TypeOK, CallInv, QueueInv, MdInv, LoopInv
    PROVE  /\ Len(mdQ) \in Nat /\ Len(loop) \in Nat /\ left \in Nat
           /\ \A d \in Dirs : Len(fetch[d]) \in Nat /\ Len(descs[d]) \in Nat
                              /\ ToPost[d] \in Nat
           /\ Len(fetch["c2h"]) \in Nat /\ Len(descs["c2h"]) \in Nat
           /\ Len(fetch["h2c"]) \in Nat /\ Len(descs["h2c"]) \in Nat
           /\ ToPost["c2h"] \in Nat /\ ToPost["h2c"] \in Nat
           /\ prepared \in Nat /\ sent \in Nat /\ asked \in 0..NumBuf
           /\ NumBuf \in Nat \ {0}
           /\ Held \in 0..NumBuf /\ Arrived \in 0..NumBuf /\ Moved \in 0..NumBuf
           /\ Pending \in 0..NumBuf
           /\ Arrived = Held + Len(mdQ) /\ Moved = Arrived + Len(loop)
           /\ asked = Arrived + Len(fetch["c2h"]) + Len(descs["c2h"]) + ToPost["c2h"]
           /\ Pending = Len(fetch["h2c"]) + Len(descs["h2c"]) + ToPost["h2c"] + prepared
           /\ Moved + Pending <= NumBuf
           /\ MdHead \in 0..(NumDesc - 1) /\ Oldest \in BufIds
           /\ Pos(Oldest, Pending, NumBuf) = bufIdx["h2c"]
  <1>1. /\ NumBuf \in Nat \ {0} /\ NumDesc \in Nat \ {0} /\ BufIds = 0..(NumBuf - 1)
        /\ NumBuf <= NumDesc /\ MaxBatch \in Nat
    BY Sizes DEF TypeOK
  <1>2. /\ Len(mdQ) \in Nat /\ Len(loop) \in Nat
        /\ \A d \in Dirs : Len(fetch[d]) \in Nat /\ Len(descs[d]) \in Nat
    BY LenProperties DEF QueueInv
  <1>3. left \in Nat /\ \A d \in Dirs : ToPost[d] \in Nat
    BY <1>1 DEF TypeOK, ToPost
  <1>4. "c2h" \in Dirs /\ "h2c" \in Dirs
    BY DEF Dirs
  <1> DEFINE fc == Len(fetch["c2h"])  dc == Len(descs["c2h"])  lc == ToPost["c2h"]
             fh == Len(fetch["h2c"])  dh == Len(descs["h2c"])  lh == ToPost["h2c"]
             qm == Len(mdQ)  ql == Len(loop)
  <1>n. /\ fc \in Nat /\ dc \in Nat /\ lc \in Nat /\ fh \in Nat /\ dh \in Nat
        /\ lh \in Nat /\ qm \in Nat /\ ql \in Nat
    BY <1>2, <1>3, <1>4
  <1>5. /\ asked \in 0..NumBuf /\ prepared \in Nat /\ sent \in Nat
        /\ sent + prepared <= NumBuf
    BY <1>1 DEF CallInv
  <1>6. /\ Held = asked - (qm + fc + dc + lc)
        /\ Held >= 0 /\ Arrived = Held + qm /\ Moved = Arrived + ql
        /\ Pending = fh + dh + lh + prepared
    BY DEF MdInv, Held, Arrived, Moved, Pending
  <1>7. /\ loopback => sent + prepared = Moved + Pending
        /\ ~loopback => ql = 0 /\ Pending = 0
    BY DEF LoopInv
  <1> HIDE DEF fc, dc, lc, fh, dh, lh, qm, ql
  <1>8. Held \in Int
    BY <1>n, <1>5, <1>6
  <1>9. /\ Held \in 0..NumBuf /\ Arrived \in 0..NumBuf
        /\ asked = Arrived + fc + dc + lc
    BY <1>1, <1>n, <1>5, <1>6, <1>8
  <1>10. Pending \in Nat /\ Moved \in Nat
    BY <1>n, <1>5, <1>6, <1>9
  <1>11. Moved + Pending <= NumBuf /\ Moved \in 0..NumBuf /\ Pending \in 0..NumBuf
    BY <1>1, <1>n, <1>5, <1>6, <1>7, <1>9, <1>10
  <1>12. MdHead \in 0..(NumDesc - 1)
    <2>1. mdIdx \in 0..(NumDesc - 1)
      BY DEF TypeOK
    <2>2. 1 \in 0..NumDesc
      BY <1>1
    <2> QED BY <1>1, <2>1, <2>2, BackProps DEF MdHead
  <1>13. Oldest \in BufIds /\ Pos(Oldest, Pending, NumBuf) = bufIdx["h2c"]
    <2>1. bufIdx["h2c"] \in 0..(NumBuf - 1)
      BY <1>1, <1>4 DEF TypeOK
    <2> QED BY <1>1, <1>11, <2>1, BackProps DEF Oldest
  <1> QED BY <1>1, <1>2, <1>3, <1>n, <1>5, <1>6, <1>9, <1>11, <1>12, <1>13
          DEF fc, dc, lc, fh, dh, lh, qm, ql

\* The buffer of the descriptor k places on in the ring.
LEMMA DescBufOn ==
    ASSUME layout \in Layouts, NEW i \in 0..(RingSize - 1), NEW k \in 0..NumBuf
    PROVE  /\ DescBuf(i) \in BufIds
           /\ i + k < RingSize => DescBuf(i + k) = Pos(DescBuf(i), k, NumBuf)
           /\ i + k <= RingSize =>
                 /\ PostIdxNext(i, k) \in 0..(RingSize - 1)
                 /\ DescBuf(PostIdxNext(i, k)) = Pos(DescBuf(i), k, NumBuf)
  <1>1. /\ NumBuf \in Nat \ {0} /\ RingSize \in Nat \ {0} /\ BufIds = 0..(NumBuf - 1)
        /\ (RingSize = NumBuf \/ NumBuf = 1)
    BY Sizes
  <1>2. \A m \in Nat : NumBuf = 1 => DescBuf(m) = 0
    BY <1>1 DEF DescBuf
  <1>3. \A m \in 0..(RingSize - 1) : NumBuf # 1 => DescBuf(m) = m
    <2> TAKE m \in 0..(RingSize - 1)
    <2> HAVE NumBuf # 1
    <2>1. m \in 0..(NumBuf - 1)
      BY <1>1
    <2> QED BY <1>1, <2>1 DEF DescBuf
  <1>4. DescBuf(i) \in BufIds
    BY <1>1, <1>2, <1>3
  <1>5. i + k < RingSize => DescBuf(i + k) = Pos(DescBuf(i), k, NumBuf)
    <2> HAVE i + k < RingSize
    <2>1. CASE NumBuf = 1
      BY <1>1, <1>2, <2>1 DEF Pos
    <2>2. CASE NumBuf # 1
      BY <1>1, <1>3, <2>2 DEF Pos
    <2> QED BY <2>1, <2>2
  <1>6. ASSUME i + k <= RingSize
        PROVE  /\ PostIdxNext(i, k) \in 0..(RingSize - 1)
               /\ DescBuf(PostIdxNext(i, k)) = Pos(DescBuf(i), k, NumBuf)
    <2>1. PostIdxNext(i, k) = Pos(i, k, RingSize)
      <3>1. k \in 0..RingSize
        BY <1>1, <1>6
      <3> QED BY <1>1, <3>1, ModIsPos DEF PostIdxNext
    <2>2. Pos(i, k, RingSize) \in 0..(RingSize - 1)
      BY <1>1, <1>6 DEF Pos
    <2>3. CASE NumBuf = 1
      BY <1>1, <1>2, <2>1, <2>2, <2>3 DEF Pos
    <2>4. CASE NumBuf # 1
      BY <1>1, <1>3, <2>1, <2>2, <2>4
    <2> QED BY <2>1, <2>2, <2>3, <2>4
  <1> QED BY <1>4, <1>5, <1>6

----------------------------------------------------------------------------
(* The invariant.                                                          *)

\* Nothing is posted, on its way or held at first.
LEMMA StreamInit == Init => StreamInv
  <1> SUFFICES ASSUME Init PROVE StreamInv
    OBVIOUS
  <1>1. /\ loopback \in BOOLEAN /\ layout \in Layouts
        /\ postIdx = Both(0) /\ bufIdx = Both(0) /\ mdIdx = 0
        /\ cred = Both(NumDesc)
        /\ buf = Both([i \in 0..(NumBuf - 1) |-> NoPacket])
        /\ ring = [i \in 0..(NumDesc - 1) |-> Empty]
        /\ descs = Both(<< >>) /\ fetch = Both(<< >>) /\ pops = Both(0)
        /\ loop = << >> /\ gen = 0 /\ mdQ = << >> /\ mdWr = 0
        /\ pc = "idle" /\ left = 0
        /\ prepared = 0 /\ sent = 0 /\ asked = 0 /\ nextW = 0 /\ nextR = 0
        /\ seen = [due |-> 0, data |-> 0, user |-> 0]
    BY DEF Init
  <1>2. /\ NumBuf \in Nat \ {0} /\ NumDesc \in Nat \ {0} /\ Ids \in Nat \ {0}
        /\ RingSize \in Nat \ {0} /\ MaxBatch \in Nat \ {0}
        /\ BufIds = 0..(NumBuf - 1) /\ Packets = 0..(Ids - 1)
    BY <1>1, Sizes
  <1>3. \A d \in Dirs : /\ postIdx[d] = 0 /\ bufIdx[d] = 0 /\ cred[d] = NumDesc
                        /\ descs[d] = << >> /\ fetch[d] = << >> /\ pops[d] = 0
                        /\ Len(descs[d]) = 0 /\ Len(fetch[d]) = 0 /\ ToPost[d] = 0
    BY <1>1 DEF Both, ToPost, Dirs
  <1>4. Len(mdQ) = 0 /\ Len(loop) = 0
    BY <1>1
  <1>5. "c2h" \in Dirs /\ "h2c" \in Dirs
    BY DEF Dirs
  <1>6. Held = 0 /\ Arrived = 0 /\ Moved = 0 /\ Pending = 0
    <2>1. /\ Len(fetch["c2h"]) = 0 /\ Len(descs["c2h"]) = 0 /\ ToPost["c2h"] = 0
          /\ Len(fetch["h2c"]) = 0 /\ Len(descs["h2c"]) = 0 /\ ToPost["h2c"] = 0
      BY <1>3, <1>5
    <2>2. Held = 0 - (0 + 0 + 0 + 0) /\ Pending = 0 + 0 + 0 + 0
      BY <1>1, <1>4, <2>1 DEF Held, Pending
    <2>3. Held = 0 /\ Pending = 0
      BY <2>2
    <2>4. Arrived = 0
      BY <1>4, <2>3 DEF Arrived
    <2> QED BY <1>4, <2>3, <2>4 DEF Moved
  <1>7. MdHead = 0 /\ Oldest = 0 /\ ~GivenBack
    BY <1>1, <1>2, <1>3, <1>5, <1>6 DEF MdHead, Oldest, GivenBack, Back
  <1>8. \A n \in Nat \ {0} : Pos(0, 0, n) = 0 /\ \A k \in 0..(n - 1) : Pos(0, k, n) = k
    BY DEF Pos
  <1>9. DescBuf(0) = 0
    BY <1>2 DEF DescBuf
  <1>10. TypeOK
    <2>1. ring \in [0..(NumDesc - 1) ->
                       [valid : BOOLEAN, user : Packets \cup {NoPacket}]]
      BY <1>1 DEF Empty
    <2>2. buf \in [Dirs -> [BufIds -> Packets \cup {NoPacket}]]
      BY <1>1, <1>2 DEF Both
    <2>3. /\ postIdx \in [Dirs -> 0..(RingSize - 1)] /\ bufIdx \in [Dirs -> BufIds]
          /\ cred \in [Dirs -> 0..NumDesc]
      BY <1>1, <1>2 DEF Both
    <2>4. \A d \in Dirs : Len(descs[d]) + pops[d] + cred[d]
                          + (IF pc = d THEN left ELSE 0) = NumDesc
      BY <1>1, <1>2, <1>3 DEF Dirs
    <2>5. /\ mdIdx \in 0..(NumDesc - 1) /\ mdWr \in 0..(NumDesc - 1)
          /\ pc \in Dirs \cup {"idle", "fill", "md", "user", "copy", "failed"}
          /\ left \in 0..MaxBatch
      BY <1>1, <1>2
    <2> QED BY <1>1, <2>1, <2>2, <2>3, <2>4, <2>5 DEF TypeOK
  <1>11. CallInv /\ QueueInv
    <2>1. CallInv
      BY <1>1, <1>2 DEF CallInv, Reading, Dirs
    <2>2. << >> \in Seq(BufIds) /\ << >> \in Seq(Packets)
      OBVIOUS
    <2>3. /\ descs \in [Dirs -> Seq(BufIds)] /\ fetch \in [Dirs -> Seq(BufIds)]
          /\ pops \in [Dirs -> Nat]
      BY <1>1, <2>2 DEF Both
    <2>4. mdQ \in Seq(Packets) /\ loop \in Seq(Packets)
      BY <1>1, <2>2
    <2> QED BY <2>1, <2>3, <2>4 DEF QueueInv
  <1>12. MdInv
    <2>1. \A k \in 0..(NumDesc - 1) : ring[Pos(MdHead, k, NumDesc)] = Empty
      BY <1>1, <1>2, <1>7, <1>8
    <2>2. mdWr = Pos(MdHead, Held, NumDesc)
      BY <1>1, <1>2, <1>6, <1>7, <1>8
    <2>3. \A k \in 0..(NumDesc - 1) : ~(k < Held)
      BY <1>2, <1>6
    <2>4. DOMAIN mdQ = {}
      BY <1>1
    <2>5. \A k \in 0..(NumDesc - 1) : ring[Pos(MdHead, k, NumDesc)].valid = FALSE
      BY <2>1 DEF Empty
    <2>6. Chain(mdQ, Pos(nextR, Held, Ids), Ids)
      BY <2>4 DEF Chain
    <2> QED BY <1>6, <1>7, <2>2, <2>3, <2>5, <2>6 DEF MdInv
  <1>13. C2hInv /\ H2cInv
    <2>1. \A f, x, v, n : Holds(f, x, v, 0, n)
      BY DEF Holds
    <2>2. \A x, n : Chain(<< >>, x, n)
      BY DEF Chain
    <2>3. /\ fetch["c2h"] = << >> /\ descs["c2h"] = << >> /\ fetch["h2c"] = << >>
          /\ descs["h2c"] = << >> /\ Len(<< >>) = 0
          /\ DescBuf(postIdx["c2h"]) = 0 /\ DescBuf(postIdx["h2c"]) = 0
          /\ bufIdx["c2h"] = 0
      BY <1>3, <1>5, <1>9
    <2>4. Pos(0, 0, NumBuf) = 0 /\ 0 + 0 = 0
      BY <1>2, <1>8
    <2>5. C2hInv
      BY <1>6, <2>1, <2>2, <2>3, <2>4 DEF C2hInv
    <2>6. H2cInv
      BY <1>6, <1>7, <2>1, <2>2, <2>3, <2>4 DEF H2cInv
    <2> QED BY <2>5, <2>6
  <1>14. LoopInv
    BY <1>1, <1>2, <1>6, <1>8 DEF LoopInv, Chain
  <1>15. SeenInv
    BY <1>1 DEF SeenInv, InOrder
  <1> QED BY <1>10, <1>11, <1>12, <1>13, <1>14, <1>15 DEF StreamInv

\* Where a step moves no packet and no place, the places still agree.
LEMMA Frame ==
    ASSUME StreamInv, Held' = Held, MdHead' = MdHead, Pending' = Pending,
           GivenBack' = GivenBack, sent' + prepared' = sent + prepared,
           UNCHANGED <<loopback, layout, postIdx, bufIdx, buf, ring, descs, fetch,
                       loop, gen, mdQ, mdWr, nextW, nextR>>
    PROVE  MdInv' /\ C2hInv' /\ H2cInv' /\ LoopInv'
  <1>1. NumBuf' = NumBuf
    BY DEF NumBuf
  <1>2. Arrived' = Arrived
    BY DEF Arrived
  <1>3. Moved' = Moved
    BY <1>2 DEF Moved
  <1>4. Oldest' = Oldest
    BY <1>1 DEF Oldest
  <1>5. MdInv'
    BY DEF StreamInv, MdInv, Chain
  <1>6. C2hInv'
    BY <1>1, <1>2 DEF StreamInv, C2hInv, Chain, Holds, DescBuf
  <1>7. H2cInv'
    BY <1>1, <1>3, <1>4 DEF StreamInv, H2cInv, Chain, Holds, DescBuf
  <1>8. LoopInv'
    BY <1>2, <1>3 DEF StreamInv, LoopInv, Chain
  <1> QED BY <1>5, <1>6, <1>7, <1>8

\* What the descriptors' credits come to, direction by direction.
LEMMA CreditSums ==
    ASSUME StreamInv
    PROVE  \A d \in Dirs : Len(descs[d]) + pops[d] + cred[d] + ToPost[d] = NumDesc
  BY DEF StreamInv, TypeOK, ToPost

\* Nor do the types, where a step changes no index but the metadata's and
\* every credit is still somewhere.
LEMMA TypeFrame ==
    ASSUME StreamInv, UNCHANGED <<loopback, layout, postIdx, bufIdx, buf, ring, mdWr>>,
           mdIdx' \in 0..(NumDesc - 1), cred' \in [Dirs -> 0..NumDesc],
           pc' \in Dirs \cup {"idle", "fill", "md", "user", "copy", "failed"},
           left' \in 0..MaxBatch,
           \A d \in Dirs : Len(descs'[d]) + pops'[d] + cred'[d] + ToPost'[d] = NumDesc
    PROVE  TypeOK'
  <1>1. /\ RingSize' = RingSize /\ BufIds' = BufIds /\ Packets' = Packets
        /\ NoPacket' = NoPacket
    BY DEF RingSize, BufIds, Packets, NumBuf, NoPacket
  <1>2. \A d \in Dirs : Len(descs'[d]) + pops'[d] + cred'[d]
                        + (IF pc' = d THEN left' ELSE 0) = NumDesc
    BY DEF ToPost
  <1> QED BY <1>1, <1>2 DEF StreamInv, TypeOK

\* sde_mgmt_start_read: credits become descriptors still to be posted.
LEMMA StartReadKeeps ==
    ASSUME StreamInv, NEW n \in 1..MaxBatch, StartRead(n)
    PROVE  StreamInv'
  <1>1. /\ pc = "idle" /\ pc' = "c2h" /\ left' = n /\ asked' = asked + n
        /\ asked + n <= NumBuf /\ cred["c2h"] >= n
        /\ cred' = [cred EXCEPT !["c2h"] = @ - n]
        /\ UNCHANGED <<loopback, layout, postIdx, bufIdx, mdIdx, buf, ring, descs, fetch,
                       pops, loop, gen, mdQ, mdWr, prepared, sent, nextW, nextR, seen>>
    BY DEF StartRead, Goto, cardVars, Window
  <1>2. /\ NumBuf \in Nat \ {0} /\ NumDesc \in Nat \ {0} /\ MaxBatch \in Nat
        /\ NumBuf' = NumBuf /\ BufIds' = BufIds /\ Packets' = Packets
    BY <1>1, Sizes DEF StreamInv, TypeOK, NumBuf, BufIds, Packets
  <1>3. /\ ToPost["c2h"] = 0 /\ ToPost'["c2h"] = n /\ ToPost["h2c"] = 0
        /\ ToPost'["h2c"] = 0
    BY <1>1 DEF ToPost, Dirs
  <1>4. /\ asked \in Nat /\ n \in Nat /\ Len(mdQ) \in Nat /\ Len(fetch["c2h"]) \in Nat
        /\ Len(descs["c2h"]) \in Nat
    BY Counts DEF StreamInv, CallInv, Dirs
  <1>5. Held' = Held
    BY <1>1, <1>3, <1>4 DEF Held
  <1>6. MdHead' = MdHead /\ GivenBack' = GivenBack /\ Pending' = Pending
    BY <1>1, <1>3 DEF MdHead, GivenBack, Pending
  <1>7. MdInv' /\ C2hInv' /\ H2cInv' /\ LoopInv'
    BY <1>1, <1>5, <1>6, Frame
  <1>8. TypeOK'
    <2>1. cred["c2h"] \in 0..NumDesc /\ cred["h2c"] \in 0..NumDesc
      BY DEF StreamInv, TypeOK, Dirs
    <2>2. cred' \in [Dirs -> 0..NumDesc] /\ cred'["c2h"] = cred["c2h"] - n
          /\ cred'["h2c"] = cred["h2c"]
      <3>1. cred["c2h"] - n \in 0..NumDesc /\ cred \in [Dirs -> 0..NumDesc]
        BY <1>1, <1>2, <1>4, <2>1 DEF StreamInv, TypeOK
      <3> QED BY <1>1, <3>1 DEF Dirs
    <2>3. /\ Len(descs["c2h"]) + pops["c2h"] + cred["c2h"] + ToPost["c2h"] = NumDesc
          /\ Len(descs["h2c"]) + pops["h2c"] + cred["h2c"] + ToPost["h2c"] = NumDesc
          /\ pops["c2h"] \in Nat
      BY CreditSums DEF Dirs, StreamInv, QueueInv
    <2>4. Len(descs'["c2h"]) + pops'["c2h"] + cred'["c2h"] + ToPost'["c2h"] = NumDesc
      BY <1>1, <1>3, <1>4, <2>1, <2>2, <2>3
    <2>5. Len(descs'["h2c"]) + pops'["h2c"] + cred'["h2c"] + ToPost'["h2c"] = NumDesc
      BY <1>1, <1>3, <2>2, <2>3
    <2> QED BY <1>1, <1>2, <2>2, <2>4, <2>5, TypeFrame DEF StreamInv, TypeOK, Dirs
  <1>9. CallInv'
    BY <1>1, <1>2, <1>4 DEF StreamInv, CallInv, Reading, Dirs
  <1>10. QueueInv'
    BY <1>1, <1>2 DEF StreamInv, QueueInv
  <1>11. SeenInv'
    BY <1>1 DEF StreamInv, SeenInv, InOrder
  <1> QED BY <1>7, <1>8, <1>9, <1>10, <1>11 DEF StreamInv

\* sde_mgmt_write: what was prepared is still to be posted.
LEMMA WriteKeeps ==
    ASSUME StreamInv, Write
    PROVE  StreamInv'
  <1>1. /\ pc = "idle" /\ pc' = "h2c" /\ left' = prepared /\ prepared > 0
        /\ prepared' = 0 /\ sent' = sent + prepared /\ cred["h2c"] >= prepared
        /\ cred' = [cred EXCEPT !["h2c"] = @ - prepared]
        /\ UNCHANGED <<loopback, layout, postIdx, bufIdx, mdIdx, buf, ring, descs, fetch,
                       pops, loop, gen, mdQ, mdWr, asked, nextW, nextR, seen>>
    BY DEF Write, Goto, cardVars
  <1>2. /\ NumBuf \in Nat \ {0} /\ NumDesc \in Nat \ {0} /\ MaxBatch \in Nat
        /\ NumBuf' = NumBuf /\ BufIds' = BufIds /\ Packets' = Packets
    BY <1>1, Sizes DEF StreamInv, TypeOK, NumBuf, BufIds, Packets
  <1>3. /\ ToPost["c2h"] = 0 /\ ToPost'["c2h"] = 0 /\ ToPost["h2c"] = 0
        /\ ToPost'["h2c"] = prepared
    BY <1>1 DEF ToPost, Dirs
  <1>4. /\ prepared \in 1..MaxBatch /\ sent \in Nat /\ Len(fetch["h2c"]) \in Nat
        /\ Len(descs["h2c"]) \in Nat
    BY <1>1, <1>2, Counts DEF StreamInv, CallInv, Dirs
  <1>5. Pending' = Pending
    BY <1>1, <1>3, <1>4 DEF Pending
  <1>6. MdHead' = MdHead /\ GivenBack' = GivenBack /\ Held' = Held
    BY <1>1, <1>3 DEF MdHead, GivenBack, Held
  <1>7. MdInv' /\ C2hInv' /\ H2cInv' /\ LoopInv'
    <2>1. sent' + prepared' = sent + prepared
      BY <1>1, <1>4
    <2> QED BY <1>1, <1>5, <1>6, <2>1, Frame
  <1>8. TypeOK'
    <2>1. cred["c2h"] \in 0..NumDesc /\ cred["h2c"] \in 0..NumDesc
      BY DEF StreamInv, TypeOK, Dirs
    <2>2. cred' \in [Dirs -> 0..NumDesc] /\ cred'["h2c"] = cred["h2c"] - prepared
          /\ cred'["c2h"] = cred["c2h"]
      BY <1>1, <1>2, <1>4, <2>1 DEF StreamInv, TypeOK, Dirs
    <2>3. /\ Len(descs["c2h"]) + pops["c2h"] + cred["c2h"] + ToPost["c2h"] = NumDesc
          /\ Len(descs["h2c"]) + pops["h2c"] + cred["h2c"] + ToPost["h2c"] = NumDesc
          /\ pops["h2c"] \in Nat
      BY CreditSums DEF Dirs, StreamInv, QueueInv
    <2>4. Len(descs'["h2c"]) + pops'["h2c"] + cred'["h2c"] + ToPost'["h2c"] = NumDesc
      BY <1>1, <1>3, <1>4, <2>1, <2>2, <2>3
    <2>5. Len(descs'["c2h"]) + pops'["c2h"] + cred'["c2h"] + ToPost'["c2h"] = NumDesc
      BY <1>1, <1>3, <2>2, <2>3
    <2> QED BY <1>1, <1>2, <1>4, <2>2, <2>4, <2>5, TypeFrame DEF StreamInv, TypeOK, Dirs
  <1>9. CallInv'
    <2>1. pc' \notin {"fill", "md", "user", "copy"}
      BY <1>1
    <2> QED BY <1>1, <1>2, <1>4, <2>1 DEF StreamInv, CallInv, Reading
  <1>10. QueueInv'
    BY <1>1, <1>2 DEF StreamInv, QueueInv
  <1>11. SeenInv'
    BY <1>1 DEF StreamInv, SeenInv, InOrder
  <1> QED BY <1>7, <1>8, <1>9, <1>10, <1>11 DEF StreamInv

\* The calls that begin, the wait for metadata that fails, and a status write.
LEMMA SmallStepsKeep ==
    ASSUME StreamInv,
           \/ \E n \in 1..MaxBatch : Prepare(n) \/ ReadData(n)
           \/ MdTimeout \/ \E d \in Dirs : StatusWrite(d)
           \/ UNCHANGED vars
    PROVE  StreamInv'
  <1>1. UNCHANGED <<loopback, layout, postIdx, bufIdx, mdIdx, buf, ring, descs, fetch,
                    loop, gen, mdQ, mdWr, prepared, sent, asked, nextW, nextR, seen>>
    BY DEF Prepare, ReadData, MdTimeout, StatusWrite, vars, libVars, cardVars, callVars
  <1>2. /\ NumBuf \in Nat \ {0} /\ NumDesc \in Nat \ {0} /\ MaxBatch \in Nat
        /\ NumBuf' = NumBuf /\ BufIds' = BufIds /\ Packets' = Packets
    BY <1>1, Sizes DEF StreamInv, TypeOK, NumBuf, BufIds, Packets
  <1>3. \/ UNCHANGED <<pc, left>>
        \/ /\ pc \notin Dirs \cup {"user", "copy"} /\ left' \in 0..MaxBatch
           /\ pc' \in {"fill", "md", "failed"} /\ UNCHANGED <<cred, pops>>
    BY <1>2 DEF Prepare, ReadData, MdTimeout, StatusWrite, vars, Goto, libVars, cardVars,
                StreamInv, TypeOK, Dirs
  <1>4. ToPost' = ToPost
    BY <1>3 DEF ToPost, Dirs
  <1>5. /\ Held' = Held /\ Pending' = Pending /\ MdHead' = MdHead
        /\ GivenBack' = GivenBack
    BY <1>1, <1>3, <1>4 DEF Held, Pending, MdHead, GivenBack
  <1>6. MdInv' /\ C2hInv' /\ H2cInv' /\ LoopInv'
    BY <1>1, <1>5, Frame
  <1>7. /\ cred' \in [Dirs -> 0..NumDesc] /\ pops' \in [Dirs -> Nat]
        /\ \A d \in Dirs : cred'[d] + pops'[d] = cred[d] + pops[d]
    <2>1. \A d \in Dirs : pops[d] \in Nat /\ cred[d] \in Nat
      BY <1>2 DEF StreamInv, QueueInv, TypeOK
    <2>2. CASE UNCHANGED <<cred, pops>>
      BY <2>1, <2>2 DEF StreamInv, TypeOK, QueueInv
    <2>3. ASSUME NEW d \in Dirs, StatusWrite(d)
          PROVE  /\ cred' \in [Dirs -> 0..NumDesc] /\ pops' \in [Dirs -> Nat]
                 /\ \A e \in Dirs : cred'[e] + pops'[e] = cred[e] + pops[e]
      <3>1. /\ cred' = [cred EXCEPT ![d] = @ + pops[d]]
            /\ pops' = [pops EXCEPT ![d] = 0]
        BY <2>3 DEF StatusWrite
      <3>2. cred[d] + pops[d] \in 0..NumDesc
        <4>1. /\ Len(descs[d]) \in Nat /\ ToPost[d] \in Nat
              /\ Len(descs[d]) + pops[d] + cred[d] + ToPost[d] = NumDesc
          BY Counts, CreditSums DEF StreamInv
        <4> QED BY <1>2, <2>1, <4>1
      <3>3. cred \in [Dirs -> 0..NumDesc] /\ pops \in [Dirs -> Nat]
        BY DEF StreamInv, TypeOK, QueueInv
      <3>4. cred' \in [Dirs -> 0..NumDesc] /\ pops' \in [Dirs -> Nat]
        BY <3>1, <3>2, <3>3
      <3>5. \A e \in Dirs : /\ cred'[e] = IF e = d THEN cred[e] + pops[e] ELSE cred[e]
                            /\ pops'[e] = IF e = d THEN 0 ELSE pops[e]
        BY <3>1, <3>3
      <3> QED BY <2>1, <3>4, <3>5
    <2>4. \/ \E d \in Dirs : StatusWrite(d)
          \/ UNCHANGED <<cred, pops>>
      BY DEF Prepare, ReadData, MdTimeout, vars, libVars, cardVars
    <2> QED BY <2>2, <2>3, <2>4
  <1>8. TypeOK'
    <2>1. ASSUME NEW d \in Dirs
          PROVE  Len(descs'[d]) + pops'[d] + cred'[d] + ToPost'[d] = NumDesc
      <3>1. /\ Len(descs[d]) \in Nat /\ ToPost[d] \in Nat
            /\ Len(descs[d]) + pops[d] + cred[d] + ToPost[d] = NumDesc
        BY Counts, CreditSums DEF StreamInv
      <3>2. /\ pops[d] \in Nat /\ cred[d] \in 0..NumDesc
            /\ pops'[d] \in Nat /\ cred'[d] \in 0..NumDesc
            /\ cred'[d] + pops'[d] = cred[d] + pops[d]
        BY <1>7 DEF StreamInv, QueueInv, TypeOK
      <3>3. Len(descs'[d]) = Len(descs[d]) /\ ToPost'[d] = ToPost[d]
        BY <1>1, <1>4
      <3> DEFINE n == Len(descs[d])  t == ToPost[d]
                 p == pops[d]  c == cred[d]  q == pops'[d]  e == cred'[d]
      <3>4. /\ n \in Nat /\ t \in Nat /\ n + p + c + t = NumDesc
            /\ p \in Nat /\ c \in Nat /\ q \in Nat /\ e \in Nat /\ e + q = c + p
        BY <3>1, <3>2
      <3> HIDE DEF n, t, p, c, q, e
      <3>5. n + q + e + t = NumDesc
        BY <3>4
      <3> QED BY <3>3, <3>5 DEF n, t, q, e
    <2>2. /\ pc' \in Dirs \cup {"idle", "fill", "md", "user", "copy", "failed"}
          /\ left' \in 0..MaxBatch
      BY <1>3 DEF StreamInv, TypeOK
    <2> QED BY <1>1, <1>2, <1>7, <2>1, <2>2, TypeFrame DEF StreamInv, TypeOK
  <1>9. CallInv'
    <2>1. CASE UNCHANGED <<pc, left>>
      BY <1>1, <1>2, <2>1 DEF StreamInv, CallInv, Reading
    <2>2. ASSUME NEW n \in 1..MaxBatch, Prepare(n)
          PROVE  CallInv'
      <3>1. /\ pc' = "fill" /\ left' = n /\ loopback /\ prepared = 0
            /\ sent + n <= NumBuf
        BY <2>2 DEF Prepare, Goto, Window
      <3> QED BY <1>1, <1>2, <3>1 DEF StreamInv, CallInv, Reading, Dirs
    <2>3. ASSUME NEW n \in 1..MaxBatch, ReadData(n)
          PROVE  CallInv'
      <3>1. /\ pc' = "md" /\ left' = n /\ n <= asked /\ (loopback => n <= sent)
        BY <2>3 DEF ReadData, Goto
      <3> QED BY <1>1, <1>2, <3>1 DEF StreamInv, CallInv, Reading, Dirs
    <2>4. CASE MdTimeout
      <3>1. pc' = "failed"
        BY <2>4 DEF MdTimeout, Goto
      <3> QED BY <1>1, <1>2, <3>1 DEF StreamInv, CallInv, Reading, Dirs
    <2>5. ASSUME NEW d \in Dirs, StatusWrite(d)
          PROVE  UNCHANGED <<pc, left>>
      BY <2>5 DEF StatusWrite
    <2>6. UNCHANGED vars => UNCHANGED <<pc, left>>
      BY DEF vars
    <2> QED BY <2>1, <2>2, <2>3, <2>4, <2>5, <2>6
  <1>10. QueueInv'
    BY <1>1, <1>2, <1>7 DEF StreamInv, QueueInv
  <1>11. SeenInv'
    BY <1>1, <1>3 DEF StreamInv, SeenInv, InOrder
  <1> QED BY <1>6, <1>8, <1>9, <1>10, <1>11 DEF StreamInv

\* sde_dma_post_desc: a run of descriptors goes on where those on the card end.
LEMMA PostChain ==
    ASSUME layout \in Layouts, NEW i \in 0..(RingSize - 1), NEW n \in 1..NumBuf,
           i + n <= RingSize, NEW x \in BufIds, NEW q \in Seq(BufIds),
           Len(q) + n <= NumBuf, Chain(q, x, NumBuf),
           DescBuf(i) = Pos(x, Len(q), NumBuf),
           NEW new, new = [k \in 1..n |-> DescBuf(i + k - 1)]
    PROVE  /\ q \o new \in Seq(BufIds) /\ Len(q \o new) = Len(q) + n
           /\ Chain(q \o new, x, NumBuf) /\ PostIdxNext(i, n) \in 0..(RingSize - 1)
           /\ DescBuf(PostIdxNext(i, n)) = Pos(x, Len(q) + n, NumBuf)
  <1>1. /\ NumBuf \in Nat \ {0} /\ RingSize \in Nat \ {0} /\ BufIds = 0..(NumBuf - 1)
    BY Sizes
  <1>2. Len(q) \in Nat
    BY LenProperties
  <1>3. ASSUME NEW k \in 1..n
        PROVE  DescBuf(i + k - 1) = Pos(DescBuf(i), k - 1, NumBuf)
    <2>1. k - 1 \in 0..NumBuf /\ i + (k - 1) < RingSize /\ i + (k - 1) = i + k - 1
      BY <1>1
    <2> QED BY <2>1, DescBufOn
  <1>4. DescBuf(i) \in BufIds
    BY <1>1, DescBufOn
  <1>5. ASSUME NEW k \in 1..n PROVE DescBuf(i + k - 1) \in BufIds
    <2>1. k - 1 \in 0..NumBuf
      BY <1>1
    <2>2. Pos(DescBuf(i), k - 1, NumBuf) \in 0..(NumBuf - 1)
      BY <1>1, <1>4, <2>1, PosProps
    <2> QED BY <1>1, <1>3, <2>2
  <1>6. new \in Seq(BufIds) /\ DOMAIN new = 1..n /\ Len(new) = n
    BY <1>1, <1>5
  <1>7. Chain(new, Pos(x, Len(q), NumBuf), NumBuf)
    BY <1>3, <1>6 DEF Chain
  <1>8. Chain(q \o new, x, NumBuf)
    BY <1>1, <1>6, <1>7, ChainConcat
  <1>9. q \o new \in Seq(BufIds) /\ Len(q \o new) = Len(q) + n
    BY <1>6, ConcatProperties
  <1>10. /\ PostIdxNext(i, n) \in 0..(RingSize - 1)
         /\ DescBuf(PostIdxNext(i, n)) = Pos(Pos(x, Len(q), NumBuf), n, NumBuf)
    <2>1. n \in 0..NumBuf
      BY <1>1
    <2> QED BY <1>1, <2>1, DescBufOn
  <1>11. Pos(Pos(x, Len(q), NumBuf), n, NumBuf) = Pos(x, Len(q) + n, NumBuf)
    <2>1. n \in 0..NumBuf /\ Len(q) \in 0..NumBuf
      BY <1>1, <1>2
    <2> QED BY <1>1, <2>1, PosProps
  <1> QED BY <1>8, <1>9, <1>10, <1>11

\* A run of descriptors is posted.
LEMMA PostChunkKeeps ==
    ASSUME StreamInv, PostChunk
    PROVE  StreamInv'
  <1> DEFINE room == RingSize - postIdx[pc]
             n == IF left > room THEN room ELSE left
             new == [k \in 1..n |-> DescBuf(postIdx[pc] + k - 1)]
  <1>1. /\ pc \in Dirs /\ left > 0
        /\ descs' = [descs EXCEPT ![pc] = @ \o new]
        /\ postIdx' = [postIdx EXCEPT ![pc] = PostIdxNext(@, n)]
        /\ pc' = (IF left = n THEN "idle" ELSE pc) /\ left' = left - n
        /\ UNCHANGED <<loopback, layout, bufIdx, mdIdx, cred, buf, ring, fetch,
                       pops, loop, gen, mdQ, mdWr, prepared, sent, asked, nextW, nextR,
                       seen>>
    BY DEF PostChunk, Goto, callVars
  <1>2. PICK d \in Dirs : d = pc
    BY <1>1
  <1>3. /\ NumBuf \in Nat \ {0} /\ NumDesc \in Nat \ {0} /\ MaxBatch \in Nat
        /\ NumBuf' = NumBuf /\ BufIds' = BufIds /\ Packets' = Packets
        /\ RingSize' = RingSize /\ RingSize \in Nat \ {0} /\ NoPacket' = NoPacket
        /\ BufIds = 0..(NumBuf - 1)
    BY <1>1, Sizes DEF StreamInv, TypeOK, NumBuf, BufIds, Packets, RingSize, NoPacket
  <1>4. /\ postIdx \in [Dirs -> 0..(RingSize - 1)] /\ left \in 0..MaxBatch
        /\ descs \in [Dirs -> Seq(BufIds)] /\ layout \in Layouts
    BY DEF StreamInv, TypeOK, QueueInv
  <1>5. left <= NumBuf
    <2>1. ToPost[d] = left
      BY <1>2 DEF ToPost
    <2>2. CASE d = "c2h"
      <3>1. /\ asked = Arrived + Len(fetch["c2h"]) + Len(descs["c2h"]) + ToPost["c2h"]
            /\ Arrived \in 0..NumBuf /\ Len(fetch["c2h"]) \in Nat
            /\ Len(descs["c2h"]) \in Nat /\ asked \in 0..NumBuf
        BY Counts DEF StreamInv
      <3> QED BY <1>3, <1>4, <2>1, <2>2, <3>1
    <2>3. CASE d = "h2c"
      <3>1. /\ Pending = Len(fetch["h2c"]) + Len(descs["h2c"]) + ToPost["h2c"] + prepared
            /\ Pending \in 0..NumBuf /\ Len(fetch["h2c"]) \in Nat
            /\ Len(descs["h2c"]) \in Nat /\ prepared \in Nat
        BY Counts DEF StreamInv
      <3> QED BY <1>3, <1>4, <2>1, <2>3, <3>1
    <2> QED BY <2>2, <2>3 DEF Dirs
  <1>6. /\ n \in 1..left /\ n \in 1..NumBuf /\ postIdx[d] + n <= RingSize
    BY <1>1, <1>2, <1>3, <1>4, <1>5
  <1>7. new = [k \in 1..n |-> DescBuf(postIdx[d] + k - 1)]
    BY <1>2
  <1> HIDE DEF room, n, new
  <1>8. /\ \A e \in Dirs : descs'[e] = IF e = d THEN descs[e] \o new ELSE descs[e]
        /\ \A e \in Dirs : postIdx'[e] = IF e = d THEN PostIdxNext(postIdx[e], n)
                                                  ELSE postIdx[e]
    BY <1>1, <1>2, <1>4
  <1>9. /\ ToPost[d] = left /\ ToPost'[d] = left - n
        /\ \A e \in Dirs \ {d} : ToPost[e] = 0 /\ ToPost'[e] = 0
    BY <1>1, <1>2, <1>4, <1>6 DEF ToPost, Dirs
  <1>10. MdHead' = MdHead /\ GivenBack' = GivenBack
    BY <1>1 DEF MdHead, GivenBack, Dirs
  \* The chain of the direction that posts.
  <1>11. ASSUME NEW x \in BufIds, Chain(descs[d], x, NumBuf), Len(descs[d]) + n <= NumBuf,
                DescBuf(postIdx[d]) = Pos(x, Len(descs[d]), NumBuf)
         PROVE  /\ descs'[d] \in Seq(BufIds) /\ Len(descs'[d]) = Len(descs[d]) + n
                /\ Chain(descs'[d], x, NumBuf) /\ postIdx'[d] \in 0..(RingSize - 1)
                /\ DescBuf(postIdx'[d]) = Pos(x, Len(descs[d]) + n, NumBuf)
    <2>1. descs'[d] = descs[d] \o new /\ postIdx'[d] = PostIdxNext(postIdx[d], n)
      BY <1>8
    <2>2. descs[d] \in Seq(BufIds) /\ postIdx[d] \in 0..(RingSize - 1)
      BY <1>4
    <2>3. new = [k \in 1..n |-> DescBuf(postIdx[d] + k - 1)]
      BY <1>7
    <2>4. PICK q \in Seq(BufIds), i \in 0..(RingSize - 1) :
              q = descs[d] /\ i = postIdx[d]
      BY <2>2
    <2>5. /\ i + n <= RingSize /\ Len(q) + n <= NumBuf /\ Chain(q, x, NumBuf)
          /\ DescBuf(i) = Pos(x, Len(q), NumBuf)
          /\ new = [k \in 1..n |-> DescBuf(i + k - 1)]
      BY <1>6, <1>11, <2>3, <2>4
    <2>6. /\ q \o new \in Seq(BufIds) /\ Len(q \o new) = Len(q) + n
          /\ Chain(q \o new, x, NumBuf) /\ PostIdxNext(i, n) \in 0..(RingSize - 1)
          /\ DescBuf(PostIdxNext(i, n)) = Pos(x, Len(q) + n, NumBuf)
      BY <1>4, <1>6, <2>5, PostChain
    <2> QED BY <2>1, <2>4, <2>6
  <1>12. ASSUME descs'[d] \in Seq(BufIds), Len(descs'[d]) = Len(descs[d]) + n,
                postIdx'[d] \in 0..(RingSize - 1)
         PROVE  TypeOK' /\ CallInv' /\ QueueInv' /\ SeenInv'
    <2>1. descs' \in [Dirs -> Seq(BufIds)]
      BY <1>1, <1>2, <1>4, <1>8, <1>12
    <2>2. postIdx' \in [Dirs -> 0..(RingSize - 1)]
      BY <1>1, <1>2, <1>4, <1>8, <1>12
    <2>3. QueueInv'
      BY <1>1, <1>3, <2>1 DEF StreamInv, QueueInv
    <2>4. \A e \in Dirs : Len(descs'[e]) + pops'[e] + cred'[e]
                          + (IF pc' = e THEN left' ELSE 0) = NumDesc
      <3> TAKE e \in Dirs
      <3>1. /\ Len(descs[e]) \in Nat /\ pops[e] \in Nat /\ cred[e] \in 0..NumDesc
            /\ ToPost[e] \in Nat
            /\ Len(descs[e]) + pops[e] + cred[e] + ToPost[e] = NumDesc
        BY Counts, CreditSums DEF StreamInv, QueueInv, TypeOK
      <3>2. (IF pc' = e THEN left' ELSE 0) = ToPost'[e]
        BY DEF ToPost
      <3>3. CASE e = d
        <4>1. /\ Len(descs'[e]) = Len(descs[e]) + n /\ ToPost'[e] = ToPost[e] - n
              /\ pops'[e] = pops[e] /\ cred'[e] = cred[e]
          BY <1>1, <1>9, <1>12, <3>3
        <4>2. n \in Nat
          BY <1>3, <1>6
        <4> QED BY <3>1, <3>2, <4>1, <4>2
      <3>4. CASE e # d
        BY <1>1, <1>8, <1>9, <3>1, <3>2, <3>4
      <3> QED BY <3>3, <3>4
    <2>5. left' \in 0..MaxBatch
      BY <1>1, <1>3, <1>4, <1>6
    <2>6. TypeOK'
      BY <1>1, <1>3, <2>2, <2>4, <2>5 DEF StreamInv, TypeOK
    <2>7. CallInv'
      <3>1. pc' \in Dirs \cup {"idle"} /\ (pc' \in Dirs => left' >= 1)
        <4>1. left \in Nat /\ n \in 1..left /\ "idle" \notin Dirs
          BY <1>3, <1>4, <1>6 DEF Dirs
        <4>2. CASE left = n
          BY <1>1, <4>1, <4>2
        <4>3. CASE left # n
          <5>1. pc' = pc /\ left' = left - n /\ left - n >= 1
            BY <1>1, <4>1, <4>3
          <5> QED BY <1>1, <5>1
        <4> QED BY <4>2, <4>3
      <3> QED BY <1>1, <1>3, <3>1 DEF StreamInv, CallInv, Reading, Dirs
    <2>8. SeenInv'
      BY <1>1 DEF StreamInv, SeenInv, InOrder, Dirs
    <2> QED BY <2>3, <2>6, <2>7, <2>8
  <1>13. CASE d = "c2h"
    <2> DEFINE b == bufIdx["c2h"]  nf == Len(fetch["c2h"])  nd == Len(descs["c2h"])
               x == Pos(b, Arrived + nf, NumBuf)
    <2>0. b \in 0..(NumBuf - 1)
      BY <1>3 DEF StreamInv, TypeOK, Dirs
    <2>1. /\ nf \in Nat /\ nd \in Nat /\ Arrived \in 0..NumBuf
          /\ Len(mdQ) \in Nat /\ asked \in 0..NumBuf
          /\ asked = Arrived + nf + nd + ToPost["c2h"]
      BY Counts DEF StreamInv
    <2>2. /\ Chain(descs["c2h"], x, NumBuf)
          /\ DescBuf(postIdx["c2h"]) = Pos(b, Arrived + nf + nd, NumBuf)
      BY DEF StreamInv, C2hInv
    <2>3. /\ ToPost["c2h"] = left /\ ToPost'["c2h"] = left - n
          /\ ToPost'["h2c"] = ToPost["h2c"]
      BY <1>9, <1>13 DEF Dirs
    <2>4. /\ Arrived + nf \in 0..NumBuf /\ nd \in 0..NumBuf /\ n \in 0..NumBuf
          /\ (Arrived + nf) + nd <= NumBuf /\ (Arrived + nf) + (nd + n) <= NumBuf
          /\ nd + n \in 0..NumBuf /\ left \in Nat /\ n \in Nat
      <3>1. left \in Nat /\ n \in Nat /\ n <= left /\ Arrived \in Nat
        BY <1>3, <1>4, <1>6, <2>1
      <3>2. ToPost["c2h"] = left
        BY <2>3
      <3> HIDE DEF nf, nd
      <3>3. Arrived + nf + nd + left <= NumBuf
        BY <1>3, <2>1, <3>2
      <3> QED BY <1>3, <2>1, <3>1, <3>3
    <2> HIDE DEF b, nf, nd
    <2>5. /\ x \in BufIds /\ Pos(x, nd, NumBuf) = Pos(b, (Arrived + nf) + nd, NumBuf)
          /\ Pos(x, nd + n, NumBuf) = Pos(b, (Arrived + nf) + (nd + n), NumBuf)
      <3>1. x \in BufIds
        BY <1>3, <2>0, <2>4, PosProps
      <3>2. Pos(x, nd, NumBuf) = Pos(b, (Arrived + nf) + nd, NumBuf)
        BY <1>3, <2>0, <2>4, PosProps
      <3>3. Pos(x, nd + n, NumBuf) = Pos(b, (Arrived + nf) + (nd + n), NumBuf)
        BY <1>3, <2>0, <2>4, PosProps
      <3> QED BY <3>1, <3>2, <3>3
    <2> HIDE DEF x
    <2>6. Len(descs[d]) = nd
      BY <1>13 DEF nd
    <2>7. Chain(descs[d], x, NumBuf) /\ DescBuf(postIdx[d]) = Pos(x, nd, NumBuf)
      BY <1>13, <2>2, <2>5
    <2>8. nd + n <= NumBuf
      BY <2>4
    <2>9. /\ descs'[d] \in Seq(BufIds) /\ Len(descs'[d]) = nd + n
          /\ Chain(descs'[d], x, NumBuf) /\ postIdx'[d] \in 0..(RingSize - 1)
          /\ DescBuf(postIdx'[d]) = Pos(x, nd + n, NumBuf)
      BY <1>11, <2>5, <2>6, <2>7, <2>8
    <2>10. Held' = Held
      <3>1. Held' = asked - (Len(mdQ) + nf + (nd + n) + (left - n))
        BY <1>1, <1>13, <2>3, <2>9 DEF Held, nf
      <3>2. Held = asked - (Len(mdQ) + nf + nd + left)
        BY <2>3 DEF Held, nf, nd
      <3> QED BY <2>1, <2>4, <3>1, <3>2
    <2>11. Arrived' = Arrived
      BY <1>1, <2>10 DEF Arrived
    <2>12. Moved' = Moved
      BY <1>1, <2>11 DEF Moved
    <2>13. descs'["h2c"] = descs["h2c"] /\ postIdx'["h2c"] = postIdx["h2c"]
      BY <1>8, <1>13 DEF Dirs
    <2>14. Pending' = Pending
      BY <1>1, <2>3, <2>13 DEF Pending
    <2>15. Oldest' = Oldest
      BY <1>1, <1>3, <2>14 DEF Oldest
    <2>16. MdInv'
      BY <1>1, <1>10, <2>10 DEF StreamInv, MdInv, Chain
    <2>17. C2hInv'
      <3>1. (Arrived + nf) + (nd + n) = Arrived + nf + (nd + n)
        BY <2>1, <2>4
      <3>2. DescBuf(postIdx'["c2h"]) = Pos(b, Arrived + nf + (nd + n), NumBuf)
        BY <1>13, <2>5, <2>9, <3>1
      <3>3. Chain(descs'["c2h"], Pos(b, Arrived + nf, NumBuf), NumBuf)
        BY <1>13, <2>9 DEF x
      <3>4. Len(descs'["c2h"]) = nd + n
        BY <1>13, <2>9
      <3> QED BY <1>1, <1>3, <2>11, <3>2, <3>3, <3>4
              DEF StreamInv, C2hInv, Holds, Chain, DescBuf, b, nf
    <2>18. H2cInv'
      BY <1>1, <1>3, <2>12, <2>13, <2>14, <2>15
         DEF StreamInv, H2cInv, Holds, Chain, DescBuf
    <2>19. LoopInv'
      BY <1>1, <2>11, <2>12, <2>14 DEF StreamInv, LoopInv, Chain
    <2> QED BY <1>12, <2>6, <2>9, <2>16, <2>17, <2>18, <2>19 DEF StreamInv
  <1>14. CASE d = "h2c"
    <2> DEFINE nf == Len(fetch["h2c"])  nd == Len(descs["h2c"])
               x == Pos(Oldest, nf, NumBuf)
    <2>0. Oldest \in 0..(NumBuf - 1)
      BY <1>3, Counts DEF StreamInv
    <2>1. /\ nf \in Nat /\ nd \in Nat /\ prepared \in Nat /\ Pending \in 0..NumBuf
          /\ Pending = nf + nd + ToPost["h2c"] + prepared
      BY Counts DEF StreamInv
    <2>2. /\ Chain(descs["h2c"], x, NumBuf)
          /\ DescBuf(postIdx["h2c"]) = Pos(Oldest, nf + nd, NumBuf)
      BY DEF StreamInv, H2cInv
    <2>3. /\ ToPost["h2c"] = left /\ ToPost'["h2c"] = left - n
          /\ ToPost'["c2h"] = ToPost["c2h"]
      BY <1>9, <1>14 DEF Dirs
    <2>4. /\ nf \in 0..NumBuf /\ nd \in 0..NumBuf /\ n \in 0..NumBuf
          /\ nf + nd <= NumBuf /\ nf + (nd + n) <= NumBuf
          /\ nd + n \in 0..NumBuf /\ left \in Nat /\ n \in Nat
      <3>1. left \in Nat /\ n \in Nat /\ n <= left /\ ToPost["h2c"] = left
        BY <1>3, <1>4, <1>6, <2>3
      <3> HIDE DEF nf, nd
      <3> QED BY <1>3, <2>1, <3>1
    <2> HIDE DEF nf, nd
    <2>5. /\ x \in BufIds /\ Pos(x, nd, NumBuf) = Pos(Oldest, nf + nd, NumBuf)
          /\ Pos(x, nd + n, NumBuf) = Pos(Oldest, nf + (nd + n), NumBuf)
      <3>1. x \in BufIds
        BY <1>3, <2>0, <2>4, PosProps
      <3>2. Pos(x, nd, NumBuf) = Pos(Oldest, nf + nd, NumBuf)
        BY <1>3, <2>0, <2>4, PosProps
      <3>3. Pos(x, nd + n, NumBuf) = Pos(Oldest, nf + (nd + n), NumBuf)
        BY <1>3, <2>0, <2>4, PosProps
      <3> QED BY <3>1, <3>2, <3>3
    <2> HIDE DEF x
    <2>6. Len(descs[d]) = nd
      BY <1>14 DEF nd
    <2>7. Chain(descs[d], x, NumBuf) /\ DescBuf(postIdx[d]) = Pos(x, nd, NumBuf)
      BY <1>14, <2>2, <2>5
    <2>8. nd + n <= NumBuf
      BY <2>4
    <2>9. /\ descs'[d] \in Seq(BufIds) /\ Len(descs'[d]) = nd + n
          /\ Chain(descs'[d], x, NumBuf) /\ postIdx'[d] \in 0..(RingSize - 1)
          /\ DescBuf(postIdx'[d]) = Pos(x, nd + n, NumBuf)
      BY <1>11, <2>5, <2>6, <2>7, <2>8
    <2>10. Pending' = Pending
      <3>1. Pending' = nf + (nd + n) + (left - n) + prepared
        BY <1>1, <1>14, <2>3, <2>9 DEF Pending, nf
      <3>2. Pending = nf + nd + left + prepared
        BY <2>3 DEF Pending, nf, nd
      <3> QED BY <2>1, <2>4, <3>1, <3>2
    <2>11. Oldest' = Oldest
      BY <1>1, <1>3, <2>10 DEF Oldest
    <2>12. descs'["c2h"] = descs["c2h"] /\ postIdx'["c2h"] = postIdx["c2h"]
      BY <1>8, <1>14 DEF Dirs
    <2>13. Held' = Held
      BY <1>1, <2>3, <2>12 DEF Held
    <2>14. Arrived' = Arrived
      BY <1>1, <2>13 DEF Arrived
    <2>15. Moved' = Moved
      BY <1>1, <2>14 DEF Moved
    <2>16. MdInv'
      BY <1>1, <1>10, <2>13 DEF StreamInv, MdInv, Chain
    <2>17. C2hInv'
      BY <1>1, <1>3, <2>12, <2>14 DEF StreamInv, C2hInv, Holds, Chain, DescBuf
    <2>18. H2cInv'
      <3>1. DescBuf(postIdx'["h2c"]) = Pos(Oldest, nf + (nd + n), NumBuf)
        BY <1>14, <2>5, <2>9
      <3>2. Chain(descs'["h2c"], Pos(Oldest, nf, NumBuf), NumBuf)
        BY <1>14, <2>9 DEF x
      <3>3. Len(descs'["h2c"]) = nd + n
        BY <1>14, <2>9
      <3> QED BY <1>1, <1>3, <2>10, <2>11, <2>15, <3>1, <3>2, <3>3
              DEF StreamInv, H2cInv, Holds, Chain, DescBuf, nf
    <2>19. LoopInv'
      BY <1>1, <2>10, <2>14, <2>15 DEF StreamInv, LoopInv, Chain
    <2> QED BY <1>12, <2>6, <2>9, <2>16, <2>17, <2>18, <2>19 DEF StreamInv
  <1> QED BY <1>13, <1>14 DEF Dirs

\* sde_mgmt_prepare_write: the next packet goes into the buffer after those the
\* card has still to read.
LEMMA WriteDataKeeps ==
    ASSUME StreamInv, WriteData
    PROVE  /\ StreamInv'
           /\ Pending < NumBuf /\ bufIdx["h2c"] = Pos(Oldest, Pending, NumBuf)
  <1>1. /\ pc = "fill" /\ buf' = [buf EXCEPT !["h2c"][bufIdx["h2c"]] = nextW]
        /\ bufIdx' = [bufIdx EXCEPT !["h2c"] = BufIdxNext(@)]
        /\ nextW' = (nextW + 1) % Ids /\ prepared' = prepared + 1
        /\ pc' = (IF left = 1 THEN "idle" ELSE "fill") /\ left' = left - 1
        /\ UNCHANGED <<loopback, layout, postIdx, mdIdx, cred, ring, descs, fetch, pops,
                       loop, gen, mdQ, mdWr, sent, asked, nextR, seen>>
    BY DEF WriteData, Goto, cardVars
  <1>2. /\ NumBuf \in Nat \ {0} /\ NumDesc \in Nat \ {0} /\ MaxBatch \in Nat
        /\ NumBuf' = NumBuf /\ BufIds' = BufIds /\ Packets' = Packets
        /\ RingSize' = RingSize /\ NoPacket' = NoPacket
        /\ BufIds = 0..(NumBuf - 1) /\ Packets = 0..(Ids - 1)
        /\ Ids \in Nat \ {0} /\ NumBuf < Ids
    BY <1>1, Sizes DEF StreamInv, TypeOK, NumBuf, BufIds, Packets, RingSize, NoPacket
  <1>3. /\ loopback /\ left >= 1 /\ left \in 0..MaxBatch
        /\ sent + prepared + left <= NumBuf /\ prepared + left <= MaxBatch
        /\ prepared \in 0..MaxBatch /\ sent \in Nat /\ nextR \in Packets /\ nextW \in Packets
    BY <1>1 DEF StreamInv, TypeOK, CallInv
  <1>4. /\ sent + prepared = Moved + Pending /\ nextW = Pos(nextR, sent + prepared, Ids)
    BY <1>3 DEF StreamInv, LoopInv
  <1>5. /\ Moved \in 0..NumBuf /\ Pending \in 0..NumBuf /\ Oldest \in BufIds
        /\ Pos(Oldest, Pending, NumBuf) = bufIdx["h2c"]
        /\ Len(fetch["h2c"]) \in Nat /\ Len(descs["h2c"]) \in Nat /\ ToPost["h2c"] \in Nat
    BY Counts DEF StreamInv
  <1>6. Pending < NumBuf /\ Moved + Pending < NumBuf /\ sent + prepared < NumBuf
    BY <1>2, <1>3, <1>4, <1>5
  <1>7. ToPost' = ToPost
    BY <1>1 DEF ToPost, Dirs
  <1>8. MdHead' = MdHead /\ GivenBack' = GivenBack /\ Held' = Held
    BY <1>1, <1>7 DEF MdHead, GivenBack, Held
  <1>9. Arrived' = Arrived
    BY <1>1, <1>8 DEF Arrived
  <1>10. Moved' = Moved
    BY <1>1, <1>9 DEF Moved
  <1>11. Pending' = Pending + 1
    <2> DEFINE rest == Len(fetch["h2c"]) + Len(descs["h2c"]) + ToPost["h2c"]
    <2>1. Pending = rest + prepared /\ Pending' = rest + (prepared + 1)
      BY <1>1, <1>7 DEF Pending
    <2>2. rest \in Nat
      <3>1. \A x, y, z \in Nat : x + y + z \in Nat
        OBVIOUS
      <3> QED BY <1>5, <3>1
    <2>3. prepared \in Nat
      BY <1>2, <1>3
    <2> HIDE DEF rest
    <2> QED BY <2>1, <2>2, <2>3
  <1>12. /\ bufIdx["h2c"] \in 0..(NumBuf - 1) /\ bufIdx \in [Dirs -> BufIds]
         /\ buf \in [Dirs -> [BufIds -> Packets \cup {NoPacket}]]
         /\ buf["h2c"] \in [BufIds -> Packets \cup {NoPacket}] /\ "h2c" \in Dirs
         /\ "c2h" \in Dirs
    BY <1>2 DEF StreamInv, TypeOK, Dirs
  <1>13. BufIdxNext(bufIdx["h2c"]) = Pos(bufIdx["h2c"], 1, NumBuf)
    BY <1>2, <1>12, ModIsPos DEF BufIdxNext
  <1>14. Pos(bufIdx["h2c"], 1, NumBuf) \in 0..(NumBuf - 1)
    <2>1. 1 \in 0..NumBuf
      BY <1>2
    <2> QED BY <1>2, <1>12, <2>1, PosProps
  <1>15. /\ bufIdx' \in [Dirs -> BufIds] /\ bufIdx'["c2h"] = bufIdx["c2h"]
         /\ bufIdx'["h2c"] = Pos(bufIdx["h2c"], 1, NumBuf)
    BY <1>1, <1>2, <1>12, <1>13, <1>14
  <1>16. Oldest' = Oldest
    <2>1. Back(Pos(bufIdx["h2c"], 1, NumBuf), Pending + 1, NumBuf)
              = Back(bufIdx["h2c"], Pending, NumBuf)
      BY <1>2, <1>5, <1>6, <1>12, BackProps
    <2> QED BY <1>2, <1>11, <1>15, <2>1 DEF Oldest
  <1>17. /\ buf'["c2h"] = buf["c2h"]
         /\ buf'["h2c"] = [buf["h2c"] EXCEPT ![bufIdx["h2c"]] = nextW]
         /\ buf' \in [Dirs -> [BufIds -> Packets \cup {NoPacket}]]
    BY <1>1, <1>2, <1>3, <1>12
  <1>18. nextW' = Pos(nextW, 1, Ids) /\ nextW' \in Packets
         /\ nextW' = Pos(nextR, sent + (prepared + 1), Ids)
    <2>1. nextW \in 0..(Ids - 1) /\ nextR \in 0..(Ids - 1) /\ 1 \in 0..Ids
      BY <1>2, <1>3
    <2>2. /\ sent + prepared \in 0..Ids /\ (sent + prepared) + 1 <= Ids
          /\ (sent + prepared) + 1 = sent + (prepared + 1)
      BY <1>2, <1>3, <1>6
    <2>3. nextW' = Pos(nextW, 1, Ids)
      BY <1>1, <1>2, <2>1, ModIsPos
    <2>4. Pos(nextW, 1, Ids) \in 0..(Ids - 1)
      BY <1>2, <2>1, PosProps
    <2>5. Pos(Pos(nextR, sent + prepared, Ids), 1, Ids)
              = Pos(nextR, (sent + prepared) + 1, Ids)
      BY <1>2, <2>1, <2>2, PosProps
    <2> QED BY <1>2, <1>4, <2>2, <2>3, <2>4, <2>5
  <1>19. Holds(buf'["h2c"], Oldest, Pos(nextR, Moved, Ids), Pending + 1, NumBuf)
    <2>1. Pos(Pos(nextR, Moved, Ids), Pending, Ids) = Pos(nextR, Moved + Pending, Ids)
      <3>1. /\ Moved \in 0..Ids /\ Pending \in 0..Ids /\ Moved + Pending <= Ids
            /\ nextR \in 0..(Ids - 1)
        BY <1>2, <1>3, <1>5, <1>6
      <3> QED BY <1>2, <3>1, PosProps
    <2>2. Holds(buf["h2c"], Oldest, Pos(nextR, Moved, Ids), Pending, NumBuf)
      BY DEF StreamInv, H2cInv
    <2>3. buf'["h2c"] = [buf["h2c"] EXCEPT ![Pos(Oldest, Pending, NumBuf)]
                             = Pos(Pos(nextR, Moved, Ids), Pending, Ids)]
      BY <1>4, <1>5, <1>17, <2>1
    <2>4. DOMAIN buf["h2c"] = 0..(NumBuf - 1) /\ Oldest \in 0..(NumBuf - 1)
          /\ Pending \in 0..(NumBuf - 1)
      BY <1>2, <1>5, <1>6, <1>12
    <2> QED BY <1>2, <2>2, <2>3, <2>4, HoldsMore
  <1>20. MdInv'
    BY <1>1, <1>8 DEF StreamInv, MdInv, Chain
  <1>21. C2hInv'
    BY <1>1, <1>2, <1>9, <1>15, <1>17 DEF StreamInv, C2hInv, Holds, Chain, DescBuf
  <1>22. H2cInv'
    BY <1>1, <1>2, <1>10, <1>11, <1>16, <1>19 DEF StreamInv, H2cInv, Holds, Chain, DescBuf
  <1>23. LoopInv'
    <2>1. sent + (prepared + 1) = Moved + (Pending + 1)
      BY <1>3, <1>4, <1>5
    <2> QED BY <1>1, <1>3, <1>9, <1>10, <1>11, <1>18, <2>1 DEF StreamInv, LoopInv, Chain
  <1>24. TypeOK'
    <2>1. \A d \in Dirs : Len(descs'[d]) + pops'[d] + cred'[d]
                          + (IF pc' = d THEN left' ELSE 0) = NumDesc
      BY <1>1 DEF StreamInv, TypeOK, Dirs
    <2>2. left' \in 0..MaxBatch
      <3>1. left' = left - 1
        BY <1>1
      <3> QED BY <1>2, <1>3, <3>1
    <2> QED BY <1>1, <1>2, <1>15, <1>17, <2>1, <2>2 DEF StreamInv, TypeOK
  <1>25. CallInv'
    <2>1. /\ left = 1 => pc' = "idle"
          /\ left # 1 => left' >= 1
          /\ pc' \in {"idle", "fill"} /\ prepared' \in 0..MaxBatch
          /\ sent + prepared' + left' <= NumBuf /\ prepared' + left' <= MaxBatch
          /\ sent + prepared' <= NumBuf
      <3>1. /\ prepared' = prepared + 1 /\ left' = left - 1
            /\ (left = 1 => pc' = "idle") /\ pc' \in {"idle", "fill"}
        BY <1>1
      <3>2. left \in Nat /\ left >= 1 /\ prepared \in Nat /\ sent \in Nat
        BY <1>2, <1>3
      <3>3. left # 1 => left' >= 1
        BY <3>1, <3>2
      <3>4. prepared' + left' = prepared + left
        BY <3>1, <3>2
      <3>5. /\ sent + prepared' + left' = sent + prepared + left
            /\ sent + prepared' = (sent + prepared) + 1
        BY <3>1, <3>2
      <3>6. prepared' \in 0..MaxBatch
        BY <1>2, <1>3, <3>1, <3>2
      <3>7. sent + prepared' <= NumBuf
        BY <1>2, <1>6, <3>2, <3>5
      <3> QED BY <1>3, <3>1, <3>3, <3>4, <3>5, <3>6, <3>7
    <2> QED BY <1>1, <1>2, <1>3, <1>18, <2>1 DEF StreamInv, CallInv, Reading, Dirs
  <1>26. QueueInv' /\ SeenInv'
    BY <1>1, <1>2 DEF StreamInv, QueueInv, SeenInv, InOrder
  <1> QED BY <1>5, <1>6, <1>20, <1>21, <1>22, <1>23, <1>24, <1>25, <1>26 DEF StreamInv

\* sde_mgmt_read_md finds the next entry valid and gives it back.
LEMMA PollMdKeeps ==
    ASSUME StreamInv, PollMd
    PROVE  StreamInv'
  <1>1. /\ pc = "md" /\ ring[mdIdx].valid /\ pc' = "user" /\ left' = left
        /\ ring' = [ring EXCEPT ![mdIdx].valid = FALSE]
        /\ UNCHANGED <<loopback, layout, postIdx, bufIdx, mdIdx, cred, buf, descs, fetch,
                       pops, loop, gen, mdQ, mdWr, prepared, sent, asked, nextW, nextR,
                       seen>>
    BY DEF PollMd, Goto, libVars, cardVars, callVars
  <1>2. /\ NumDesc \in Nat \ {0} /\ NumBuf' = NumBuf /\ BufIds' = BufIds
        /\ Packets' = Packets /\ RingSize' = RingSize /\ NoPacket' = NoPacket
    BY <1>1, Sizes DEF StreamInv, TypeOK, NumBuf, BufIds, Packets, RingSize, NoPacket
  <1>3. /\ MdHead = mdIdx /\ MdHead' = mdIdx /\ ~GivenBack /\ GivenBack'
        /\ mdIdx \in 0..(NumDesc - 1)
    BY <1>1 DEF MdHead, GivenBack, StreamInv, TypeOK
  <1>4. ToPost' = ToPost
    BY <1>1 DEF ToPost, Dirs
  <1>5. Held' = Held /\ Pending' = Pending
    BY <1>1, <1>4 DEF Held, Pending
  <1>6. Arrived' = Arrived
    BY <1>1, <1>5 DEF Arrived
  <1>7. Moved' = Moved /\ Oldest' = Oldest
    BY <1>1, <1>2, <1>5, <1>6 DEF Moved, Oldest
  <1>8. ring \in [0..(NumDesc - 1) -> [valid : BOOLEAN, user : Packets \cup {NoPacket}]]
    BY DEF StreamInv, TypeOK
  <1>9. /\ ring' \in [0..(NumDesc - 1) -> [valid : BOOLEAN, user : Packets \cup {NoPacket}]]
        /\ \A i \in 0..(NumDesc - 1) :
              /\ ring'[i].user = ring[i].user
              /\ ring'[i].valid = IF i = mdIdx THEN FALSE ELSE ring[i].valid
    BY <1>1, <1>3, <1>8
  <1>10. Held \in Nat /\ Held >= 1
    <2>1. 0 \in 0..(NumDesc - 1) /\ Pos(MdHead, 0, NumDesc) = mdIdx
      BY <1>2, <1>3, PosProps
    <2>2. ring[Pos(MdHead, 0, NumDesc)].valid => 0 < Held
      BY <2>1 DEF StreamInv, MdInv
    <2>3. Held \in 0..NumBuf /\ NumBuf \in Nat
      BY Counts DEF StreamInv
    <2> QED BY <1>1, <2>1, <2>2, <2>3
  <1>11. MdInv'
    <2>1. ASSUME NEW k \in 0..(NumDesc - 1)
          PROVE  /\ ring'[Pos(MdHead, k, NumDesc)].valid <=> k < Held /\ k # 0
                 /\ k < Held => ring'[Pos(MdHead, k, NumDesc)].user = Pos(nextR, k, Ids)
      <3> DEFINE p == Pos(MdHead, k, NumDesc)
      <3>1. p \in 0..(NumDesc - 1)
        <4>1. k \in 0..NumDesc
          BY <1>2
        <4> QED BY <1>2, <1>3, <4>1, PosProps
      <3>2. p = mdIdx <=> k = 0
        <4>1. 0 \in 0..(NumDesc - 1) /\ Pos(MdHead, 0, NumDesc) = mdIdx
          BY <1>2, <1>3, PosProps
        <4>2. Pos(MdHead, k, NumDesc) = Pos(MdHead, 0, NumDesc) => k = 0
          BY <1>2, <1>3, <4>1, PosProps
        <4> QED BY <4>1, <4>2
      <3>3. /\ ring[p].valid <=> k < Held
            /\ k < Held => ring[p].user = Pos(nextR, k, Ids)
        BY <1>3 DEF StreamInv, MdInv
      <3> HIDE DEF p
      <3>4. /\ ring'[p].valid <=> k < Held /\ k # 0
            /\ k < Held => ring'[p].user = Pos(nextR, k, Ids)
        BY <1>9, <3>1, <3>2, <3>3
      <3> QED BY <3>4 DEF p
    <2>2. mdWr = Pos(MdHead, Held, NumDesc) /\ Chain(mdQ, Pos(nextR, Held, Ids), Ids)
      BY DEF StreamInv, MdInv
    <2> QED BY <1>1, <1>3, <1>5, <1>10, <2>1, <2>2 DEF MdInv, Chain
  <1>12. C2hInv' /\ H2cInv' /\ LoopInv'
    BY <1>1, <1>2, <1>5, <1>6, <1>7
       DEF StreamInv, C2hInv, H2cInv, LoopInv, Holds, Chain, DescBuf
  <1>13. TypeOK'
    <2>1. \A d \in Dirs : Len(descs'[d]) + pops'[d] + cred'[d]
                          + (IF pc' = d THEN left' ELSE 0) = NumDesc
      BY <1>1 DEF StreamInv, TypeOK, Dirs
    <2> QED BY <1>1, <1>2, <1>9, <2>1 DEF StreamInv, TypeOK
  <1>14. CallInv' /\ QueueInv' /\ SeenInv'
    BY <1>1, <1>2 DEF StreamInv, CallInv, QueueInv, SeenInv, InOrder, Reading
  <1> QED BY <1>11, <1>12, <1>13, <1>14 DEF StreamInv

\* sde_mgmt_read_md reads the user bits of the entry it gave back: they are
\* the next packet's.
LEMMA ReadUserKeeps ==
    ASSUME StreamInv, ReadUser
    PROVE  StreamInv'
  <1>1. /\ pc = "user" /\ pc' = "copy" /\ left' = left /\ mdIdx' = MdIdxNext(mdIdx)
        /\ seen' = [due |-> nextR, data |-> NoPacket, user |-> ring[mdIdx].user]
        /\ UNCHANGED <<loopback, layout, postIdx, bufIdx, cred, buf, ring, descs, fetch,
                       pops, loop, gen, mdQ, mdWr, prepared, sent, asked, nextW, nextR>>
    BY DEF ReadUser, Goto, cardVars, callVars
  <1>2. /\ NumDesc \in Nat \ {0} /\ NumBuf' = NumBuf /\ BufIds' = BufIds
        /\ Packets' = Packets /\ 1 \in 0..NumDesc
    BY <1>1, Sizes DEF StreamInv, TypeOK, NumBuf, BufIds, Packets
  <1>3. mdIdx \in 0..(NumDesc - 1)
    BY DEF StreamInv, TypeOK
  <1>4. mdIdx' = Pos(mdIdx, 1, NumDesc) /\ mdIdx' \in 0..(NumDesc - 1)
    BY <1>1, <1>2, <1>3, ModIsPos, PosProps DEF MdIdxNext
  <1>5. MdHead = mdIdx /\ MdHead' = mdIdx /\ GivenBack' = GivenBack
    BY <1>1, <1>2, <1>3, <1>4, BackProps DEF MdHead, GivenBack
  <1>6. ToPost' = ToPost
    BY <1>1 DEF ToPost, Dirs
  <1>7. Held' = Held /\ Pending' = Pending
    BY <1>1, <1>6 DEF Held, Pending
  <1>8. MdInv' /\ C2hInv' /\ H2cInv' /\ LoopInv'
    BY <1>1, <1>5, <1>7, Frame
  <1>9. TypeOK'
    BY <1>1, <1>2, <1>4, <1>6, CreditSums, TypeFrame DEF StreamInv, TypeOK
  <1>10. CallInv' /\ QueueInv'
    BY <1>1, <1>2 DEF StreamInv, CallInv, QueueInv, Reading
  <1>11. ring[mdIdx].user = nextR
    <2>1. Held >= 1 /\ GivenBack /\ Held \in Nat
      <3>1. Held \in 0..NumBuf /\ NumBuf \in Nat
        BY Counts DEF StreamInv
      <3> QED BY <1>1, <3>1 DEF StreamInv, MdInv, GivenBack
    <2>2. 0 \in 0..(NumDesc - 1) /\ Pos(MdHead, 0, NumDesc) = mdIdx /\ 0 < Held
      BY <1>2, <1>3, <1>5, <2>1, PosProps
    <2>3. ring[Pos(MdHead, 0, NumDesc)].user = Pos(nextR, 0, Ids)
      BY <2>2 DEF StreamInv, MdInv
    <2>4. Pos(nextR, 0, Ids) = nextR
      BY Sizes, PosProps DEF StreamInv, TypeOK, CallInv
    <2> QED BY <2>2, <2>3, <2>4
  <1>12. SeenInv'
    BY <1>1, <1>11 DEF SeenInv, InOrder
  <1> QED BY <1>8, <1>9, <1>10, <1>12 DEF StreamInv

\* sde_dma_read_data copies the next packet out of the next buffer, and every
\* place is counted from the one after it.
LEMMA CopyDataKeeps ==
    ASSUME StreamInv, CopyData
    PROVE  StreamInv'
  <1> DEFINE b == bufIdx["c2h"]
  <1>1. /\ pc = "copy" /\ seen' = [seen EXCEPT !.data = buf["c2h"][b]]
        /\ bufIdx' = [bufIdx EXCEPT !["c2h"] = BufIdxNext(@)]
        /\ nextR' = (nextR + 1) % Ids /\ asked' = asked - 1
        /\ sent' = (IF loopback THEN sent - 1 ELSE sent)
        /\ pc' = (IF left = 1 THEN "idle" ELSE "md") /\ left' = left - 1
        /\ UNCHANGED <<loopback, layout, postIdx, mdIdx, cred, buf, ring, descs, fetch,
                       pops, loop, gen, mdQ, mdWr, prepared, nextW>>
    BY DEF CopyData, Goto, cardVars
  <1>2. /\ NumBuf \in Nat \ {0} /\ NumDesc \in Nat \ {0} /\ MaxBatch \in Nat
        /\ NumBuf' = NumBuf /\ BufIds' = BufIds /\ Packets' = Packets
        /\ RingSize' = RingSize /\ NoPacket' = NoPacket
        /\ BufIds = 0..(NumBuf - 1) /\ Packets = 0..(Ids - 1)
        /\ Ids \in Nat \ {0} /\ NumBuf < Ids /\ NumBuf <= NumDesc /\ NumDesc < Ids
    BY <1>1, Sizes DEF StreamInv, TypeOK, NumBuf, BufIds, Packets, RingSize, NoPacket
  <1>3. /\ left >= 1 /\ left \in 0..MaxBatch /\ left <= asked /\ (loopback => left <= sent)
        /\ sent \in Nat /\ asked \in 0..NumBuf /\ nextR \in 0..(Ids - 1)
        /\ prepared \in 0..MaxBatch /\ sent + prepared <= NumBuf
        /\ mdIdx \in 0..(NumDesc - 1)
    BY <1>1, <1>2 DEF StreamInv, TypeOK, CallInv, Reading
  <1>4. /\ b \in 0..(NumBuf - 1) /\ bufIdx \in [Dirs -> BufIds]
        /\ "h2c" \in Dirs /\ "c2h" \in Dirs
    BY <1>2 DEF StreamInv, TypeOK, Dirs
  <1>5. /\ Len(mdQ) \in Nat /\ Len(fetch["c2h"]) \in Nat /\ Len(descs["c2h"]) \in Nat
        /\ ToPost["c2h"] \in Nat /\ Len(loop) \in Nat
        /\ Len(fetch["h2c"]) \in Nat /\ Len(descs["h2c"]) \in Nat
    BY Counts DEF StreamInv
  <1>6. /\ Held \in 0..NumBuf /\ Arrived \in 0..NumBuf /\ Moved \in 0..NumBuf
        /\ Pending \in 0..NumBuf /\ Moved + Pending <= NumBuf
        /\ Arrived = Held + Len(mdQ) /\ Moved = Arrived + Len(loop)
        /\ asked = Arrived + Len(fetch["c2h"]) + Len(descs["c2h"]) + ToPost["c2h"]
        /\ MdHead \in 0..(NumDesc - 1)
    BY Counts DEF StreamInv
  <1>7. Held >= 1 /\ GivenBack /\ ~GivenBack'
    BY <1>1 DEF StreamInv, MdInv, GivenBack
  <1>8. ToPost' = ToPost
    BY <1>1 DEF ToPost, Dirs
  <1>9. Held' = Held - 1
    <2> DEFINE rest == Len(mdQ) + Len(fetch["c2h"]) + Len(descs["c2h"]) + ToPost["c2h"]
    <2>1. Held = asked - rest /\ Held' = (asked - 1) - rest
      BY <1>1, <1>8 DEF Held
    <2>2. rest \in Nat /\ asked \in Nat
      <3>1. \A w, x, y, z \in Nat : w + x + y + z \in Nat
        OBVIOUS
      <3>2. rest \in Nat
        BY <1>5, <3>1
      <3>3. asked \in Nat
        BY <1>2, <1>3
      <3> QED BY <3>2, <3>3
    <2> HIDE DEF rest
    <2> QED BY <2>1, <2>2
  <1>10. Arrived' = Arrived - 1
    BY <1>1, <1>2, <1>5, <1>6, <1>9 DEF Arrived
  <1>11. Moved' = Moved - 1
    <2> DEFINE n == Len(loop)
    <2>1. Moved = Arrived + n /\ Moved' = Arrived' + n
      BY <1>1 DEF Moved
    <2>2. Arrived \in Nat /\ n \in Nat
      BY <1>2, <1>5, <1>6
    <2> HIDE DEF n
    <2> QED BY <1>10, <2>1, <2>2
  <1>12. Pending' = Pending
    BY <1>1, <1>8 DEF Pending
  <1>13. BufIdxNext(b) = Pos(b, 1, NumBuf) /\ Pos(b, 1, NumBuf) \in 0..(NumBuf - 1)
    <2>1. 1 \in 0..NumBuf
      BY <1>2
    <2>2. (b + 1) % NumBuf = Pos(b, 1, NumBuf)
      BY <1>2, <1>4, <2>1, ModIsPos
    <2>3. Pos(b, 1, NumBuf) \in 0..(NumBuf - 1)
      BY <1>2, <1>4, <2>1, PosProps
    <2> QED BY <2>2, <2>3 DEF BufIdxNext
  <1>14. /\ bufIdx' \in [Dirs -> BufIds] /\ bufIdx'["h2c"] = bufIdx["h2c"]
         /\ bufIdx'["c2h"] = Pos(b, 1, NumBuf)
    BY <1>1, <1>2, <1>4, <1>13
  <1>15. Oldest' = Oldest
    BY <1>2, <1>12, <1>14 DEF Oldest
  <1>16. nextR' = Pos(nextR, 1, Ids) /\ nextR' \in 0..(Ids - 1)
    <2>1. 1 \in 0..Ids
      BY <1>2
    <2>2. nextR' = Pos(nextR, 1, Ids)
      BY <1>1, <1>2, <1>3, <2>1, ModIsPos
    <2>3. Pos(nextR, 1, Ids) \in 0..(Ids - 1)
      BY <1>2, <1>3, <2>1, PosProps
    <2> QED BY <2>2, <2>3
  \* A packet's number and a buffer, counted from the next one.
  <1>17. ASSUME NEW k \in 1..NumBuf
         PROVE  /\ Pos(nextR', k - 1, Ids) = Pos(nextR, k, Ids)
                /\ Pos(bufIdx'["c2h"], k - 1, NumBuf) = Pos(b, k, NumBuf)
    <2>1. /\ 1 \in 0..Ids /\ k - 1 \in 0..Ids /\ 1 + (k - 1) <= Ids /\ 1 + (k - 1) = k
          /\ 1 \in 0..NumBuf /\ k - 1 \in 0..NumBuf /\ 1 + (k - 1) <= NumBuf
      BY <1>2
    <2>2. Pos(Pos(nextR, 1, Ids), k - 1, Ids) = Pos(nextR, 1 + (k - 1), Ids)
      BY <1>2, <1>3, <2>1, PosProps
    <2>3. Pos(Pos(b, 1, NumBuf), k - 1, NumBuf) = Pos(b, 1 + (k - 1), NumBuf)
      BY <1>2, <1>4, <2>1, PosProps
    <2> QED BY <1>14, <1>16, <2>1, <2>2, <2>3
  <1>18. MdHead' = mdIdx /\ mdIdx = Pos(MdHead, 1, NumDesc)
    <2>1. 1 \in 0..NumDesc
      BY <1>2
    <2>2. Pos(Back(mdIdx, 1, NumDesc), 1, NumDesc) = mdIdx
      BY <1>2, <1>3, <2>1, BackProps
    <2> QED BY <1>1, <2>2 DEF MdHead
  <1>19. ASSUME NEW k \in 0..(NumDesc - 1)
         PROVE  Pos(MdHead', k, NumDesc) = Pos(MdHead, k + 1, NumDesc)
    <2>1. 1 \in 0..NumDesc /\ k \in 0..NumDesc /\ 1 + k <= NumDesc /\ 1 + k = k + 1
      BY <1>2
    <2>2. Pos(Pos(MdHead, 1, NumDesc), k, NumDesc) = Pos(MdHead, 1 + k, NumDesc)
      BY <1>2, <1>6, <2>1, PosProps
    <2> QED BY <1>18, <2>1, <2>2
  <1> HIDE DEF b
  <1>20. MdInv'
    <2>1. mdWr = Pos(MdHead', Held', NumDesc)
      <3>1. Held' \in 0..(NumDesc - 1) /\ Held' + 1 = Held
        BY <1>2, <1>6, <1>7, <1>9
      <3>2. mdWr = Pos(MdHead, Held, NumDesc)
        BY DEF StreamInv, MdInv
      <3> QED BY <1>19, <3>1, <3>2
    <2>2. ASSUME NEW k \in 0..(NumDesc - 1)
          PROVE  /\ ring[Pos(MdHead', k, NumDesc)].valid <=> k < Held'
                 /\ k < Held' => ring[Pos(MdHead', k, NumDesc)].user = Pos(nextR', k, Ids)
      <3>1. CASE k + 1 \in 0..(NumDesc - 1)
        <4>1. /\ ring[Pos(MdHead, k + 1, NumDesc)].valid <=>
                     k + 1 < Held /\ ~(k + 1 = 0 /\ GivenBack)
              /\ k + 1 < Held =>
                     ring[Pos(MdHead, k + 1, NumDesc)].user = Pos(nextR, k + 1, Ids)
          BY <3>1 DEF StreamInv, MdInv
        <4>2. /\ k + 1 # 0 /\ (k + 1 < Held <=> k < Held') /\ (k + 1) - 1 = k
              /\ k + 1 < Held => k + 1 \in 1..NumBuf
          BY <1>2, <1>6, <1>9
        <4>3. k + 1 < Held => Pos(nextR', k, Ids) = Pos(nextR, k + 1, Ids)
          BY <1>17, <4>2
        <4> QED BY <1>19, <4>1, <4>2, <4>3
      <3>2. CASE k + 1 = NumDesc
        <4>1. Pos(MdHead', k, NumDesc) = MdHead
          BY <1>2, <1>6, <1>19, <3>2, PosProps
        <4>2. 0 \in 0..(NumDesc - 1) /\ Pos(MdHead, 0, NumDesc) = MdHead
          BY <1>2, <1>6, PosProps
        <4>3. ~ring[MdHead].valid
          BY <1>7, <4>2 DEF StreamInv, MdInv
        <4>4. ~(k < Held')
          BY <1>2, <1>6, <1>9, <3>2
        <4> QED BY <4>1, <4>3, <4>4
      <3> QED BY <1>2, <3>1, <3>2
    <2>3. Chain(mdQ, Pos(nextR', Held', Ids), Ids)
      <3>1. Held \in 1..NumBuf
        BY <1>2, <1>6, <1>7
      <3>2. Pos(nextR', Held', Ids) = Pos(nextR, Held, Ids)
        BY <1>9, <1>17, <3>1
      <3> QED BY <3>2 DEF StreamInv, MdInv
    <2>4. Held' >= 0
      BY <1>2, <1>6, <1>7, <1>9
    <2> QED BY <1>1, <1>7, <2>1, <2>2, <2>3, <2>4 DEF MdInv, Chain
  <1>21. C2hInv'
    <2> DEFINE nf == Len(fetch["c2h"])  nd == Len(descs["c2h"])
    <2>1. /\ Arrived \in 1..NumBuf /\ Arrived + nf \in 1..NumBuf
          /\ Arrived + nf + nd \in 1..NumBuf
          /\ (Arrived - 1) + nf = (Arrived + nf) - 1
          /\ (Arrived - 1) + nf + nd = (Arrived + nf + nd) - 1
      <3>1. nf \in Nat /\ nd \in Nat /\ ToPost["c2h"] \in Nat
        BY <1>5
      <3>2. Arrived \in 1..NumBuf
        BY <1>2, <1>5, <1>6, <1>7
      <3>3. asked = Arrived + nf + nd + ToPost["c2h"]
        BY <1>6
      <3> HIDE DEF nf, nd
      <3> QED BY <1>2, <1>3, <3>1, <3>2, <3>3
    <2>2. Holds(buf["c2h"], Pos(b, 1, NumBuf), Pos(nextR, 1, Ids), Arrived - 1, NumBuf)
      <3>1. Holds(buf["c2h"], b, nextR, Arrived, NumBuf)
        BY DEF StreamInv, C2hInv, b
      <3> QED BY <1>2, <1>3, <1>4, <2>1, <3>1, HoldsLess
    <2>3. /\ Pos(bufIdx'["c2h"], (Arrived + nf) - 1, NumBuf) = Pos(b, Arrived + nf, NumBuf)
          /\ Pos(bufIdx'["c2h"], Arrived - 1, NumBuf) = Pos(b, Arrived, NumBuf)
          /\ Pos(bufIdx'["c2h"], (Arrived + nf + nd) - 1, NumBuf)
                 = Pos(b, Arrived + nf + nd, NumBuf)
      BY <1>17, <2>1
    <2>4. /\ Chain(fetch["c2h"], Pos(b, Arrived, NumBuf), NumBuf)
          /\ Chain(descs["c2h"], Pos(b, Arrived + nf, NumBuf), NumBuf)
          /\ DescBuf(postIdx["c2h"]) = Pos(b, Arrived + nf + nd, NumBuf)
      BY DEF StreamInv, C2hInv, b
    <2>5. /\ Holds(buf["c2h"], bufIdx'["c2h"], nextR', Arrived', NumBuf)
          /\ Chain(fetch["c2h"], Pos(bufIdx'["c2h"], Arrived', NumBuf), NumBuf)
          /\ Chain(descs["c2h"], Pos(bufIdx'["c2h"], Arrived' + nf, NumBuf), NumBuf)
          /\ DescBuf(postIdx["c2h"]) = Pos(bufIdx'["c2h"], Arrived' + nf + nd, NumBuf)
      BY <1>10, <1>14, <1>16, <2>1, <2>2, <2>3, <2>4
    <2> QED BY <1>1, <1>2, <2>5 DEF C2hInv, Holds, Chain, DescBuf
  <1>22. Pos(nextR', Moved', Ids) = Pos(nextR, Moved, Ids)
    <2>1. Moved \in 1..NumBuf
      BY <1>2, <1>5, <1>6, <1>7
    <2> QED BY <1>11, <1>17, <2>1
  <1>23. H2cInv'
    BY <1>1, <1>2, <1>12, <1>15, <1>22 DEF StreamInv, H2cInv, Holds, Chain, DescBuf
  <1>24. LoopInv'
    <2>1. Arrived \in 1..NumBuf
      BY <1>2, <1>5, <1>6, <1>7
    <2>2. Pos(nextR', Arrived', Ids) = Pos(nextR, Arrived, Ids)
      BY <1>10, <1>17, <2>1
    <2>3. Chain(loop, Pos(nextR', Arrived', Ids), Ids)
      BY <2>2 DEF StreamInv, LoopInv
    <2>4. ASSUME loopback
          PROVE  /\ sent' + prepared' = Moved' + Pending'
                 /\ nextW' = Pos(nextR', sent' + prepared', Ids)
      <3>1. sent + prepared = Moved + Pending /\ nextW = Pos(nextR, sent + prepared, Ids)
        BY <2>4 DEF StreamInv, LoopInv
      <3>2. /\ sent + prepared \in 1..NumBuf /\ sent' + prepared' = (sent + prepared) - 1
            /\ sent' + prepared' = Moved' + Pending'
        <4>1. sent' = sent - 1 /\ prepared' = prepared /\ sent >= 1
          BY <1>1, <1>2, <1>3, <2>4
        <4>2. sent \in Nat /\ prepared \in Nat /\ sent + prepared <= NumBuf
          BY <1>2, <1>3
        <4>3. Moved \in Nat /\ Pending \in Nat /\ Moved' = Moved - 1 /\ Pending' = Pending
          BY <1>2, <1>6, <1>11, <1>12
        <4> QED BY <1>2, <3>1, <4>1, <4>2, <4>3
      <3>3. Pos(nextR', (sent + prepared) - 1, Ids) = Pos(nextR, sent + prepared, Ids)
        BY <1>17, <3>2
      <3> QED BY <1>1, <3>1, <3>2, <3>3
    <2>5. ~loopback => loop = << >> /\ Pending' = 0 /\ gen = Pos(nextR', Arrived', Ids)
      BY <1>12, <2>2 DEF StreamInv, LoopInv
    <2> QED BY <1>1, <2>3, <2>4, <2>5 DEF LoopInv, Chain
  <1>25. TypeOK'
    <2>1. \A d \in Dirs : Len(descs'[d]) + pops'[d] + cred'[d]
                          + (IF pc' = d THEN left' ELSE 0) = NumDesc
      BY <1>1 DEF StreamInv, TypeOK, Dirs
    <2>2. left' \in 0..MaxBatch
      <3>1. left' = left - 1
        BY <1>1
      <3> QED BY <1>2, <1>3, <3>1
    <2> QED BY <1>1, <1>2, <1>14, <2>1, <2>2 DEF StreamInv, TypeOK
  <1>26. CallInv'
    <2>1. /\ asked' \in 0..NumBuf /\ sent' \in Nat /\ sent' + prepared <= NumBuf
          /\ left = 1 => pc' = "idle"
          /\ left # 1 => /\ pc' = "md" /\ left' >= 1 /\ left' <= asked'
                         /\ loopback => left' <= sent'
      <3>1. /\ asked \in Nat /\ asked <= NumBuf /\ left \in Nat /\ left >= 1
            /\ left <= asked /\ sent \in Nat /\ prepared \in Nat
            /\ sent + prepared <= NumBuf /\ (loopback => left <= sent)
        BY <1>2, <1>3
      <3>2. sent' \in Nat /\ sent' + prepared <= NumBuf
        <4>1. CASE loopback
          BY <1>1, <1>2, <3>1, <4>1
        <4>2. CASE ~loopback
          BY <1>1, <3>1, <4>2
        <4> QED BY <4>1, <4>2
      <3>3. left # 1 => left - 1 <= asked - 1 /\ left - 1 >= 1
                        /\ (loopback => left - 1 <= sent - 1)
        BY <3>1
      <3>4. asked - 1 \in 0..NumBuf
        BY <1>2, <3>1
      <3> QED BY <1>1, <3>2, <3>3, <3>4
    <2> QED BY <1>1, <1>2, <1>16, <2>1 DEF StreamInv, CallInv, Reading, Dirs
  <1>27. QueueInv'
    BY <1>1, <1>2 DEF StreamInv, QueueInv
  <1>28. SeenInv'
    <2>1. buf["c2h"][b] = nextR
      <3>1. Holds(buf["c2h"], b, nextR, Arrived, NumBuf) /\ Arrived \in 1..NumBuf
        BY <1>2, <1>5, <1>6, <1>7 DEF StreamInv, C2hInv, b
      <3> QED BY <1>2, <1>3, <1>4, <3>1, HoldsLess
    <2>2. seen.user = seen.due /\ seen.due = nextR
      BY <1>1 DEF StreamInv, SeenInv, InOrder
    <2> QED BY <1>1, <2>1, <2>2 DEF SeenInv, InOrder
  <1> QED BY <1>20, <1>21, <1>23, <1>24, <1>25, <1>26, <1>27, <1>28 DEF StreamInv

\* A descriptor goes from one list to the one before it.
LEMMA PopChain ==
    ASSUME NEW n \in Nat \ {0}, NEW x \in 0..(n - 1), NEW S, 0..(n - 1) \subseteq S,
           NEW f \in Seq(S), NEW q \in Seq(S), q # << >>, Len(f) + Len(q) <= n,
           Chain(f, x, n), Chain(q, Pos(x, Len(f), n), n)
    PROVE  /\ Append(f, Head(q)) \in Seq(S) /\ Tail(q) \in Seq(S)
           /\ Len(Append(f, Head(q))) = Len(f) + 1 /\ Len(Tail(q)) = Len(q) - 1
           /\ Len(q) >= 1 /\ Chain(Append(f, Head(q)), x, n)
           /\ Chain(Tail(q), Pos(x, Len(f) + 1, n), n)
  <1>1. Len(f) \in Nat /\ Len(q) \in Nat /\ Len(q) >= 1
    BY HeadTailProperties, LenProperties
  <1>2. Head(q) \in S /\ Tail(q) \in Seq(S) /\ Len(Tail(q)) = Len(q) - 1
    BY HeadTailProperties
  <1>3. Append(f, Head(q)) \in Seq(S) /\ Len(Append(f, Head(q))) = Len(f) + 1
    BY <1>2, AppendProperties
  <1>4. /\ Len(f) \in 0..n /\ 1 \in 0..n /\ Len(f) + 1 <= n /\ Len(q) <= n
    BY <1>1
  <1>5. Pos(x, Len(f), n) \in 0..(n - 1)
    BY <1>4, PosProps
  <1>6. Head(q) = Pos(x, Len(f), n) /\ Chain(Tail(q), Pos(Pos(x, Len(f), n), 1, n), n)
    BY <1>4, <1>5, ChainTail
  <1>7. Pos(Pos(x, Len(f), n), 1, n) = Pos(x, Len(f) + 1, n)
    BY <1>4, PosProps
  <1>8. Chain(Append(f, Head(q)), x, n)
    BY <1>2, <1>6, ChainAppend
  <1> QED BY <1>1, <1>2, <1>3, <1>6, <1>7, <1>8

\* A data mover takes a descriptor.
LEMMA PopKeeps ==
    ASSUME StreamInv, NEW d \in Dirs, Pop(d)
    PROVE  StreamInv'
  <1> DEFINE f == fetch[d]  q == descs[d]
  <1>1. /\ q # << >> /\ fetch' = [fetch EXCEPT ![d] = Append(@, Head(q))]
        /\ descs' = [descs EXCEPT ![d] = Tail(@)]
        /\ pops' = [pops EXCEPT ![d] = @ + 1]
        /\ UNCHANGED <<loopback, layout, postIdx, bufIdx, mdIdx, cred, buf, ring, loop,
                       gen, mdQ, mdWr, prepared, sent, asked, nextW, nextR, pc, left, seen>>
    BY DEF Pop, libVars, callVars
  <1>2. /\ NumBuf \in Nat \ {0} /\ NumBuf' = NumBuf /\ BufIds' = BufIds
        /\ Packets' = Packets /\ BufIds = 0..(NumBuf - 1) /\ NumDesc \in Nat \ {0}
    BY <1>1, Sizes DEF StreamInv, TypeOK, NumBuf, BufIds, Packets
  <1>3. /\ fetch \in [Dirs -> Seq(BufIds)] /\ descs \in [Dirs -> Seq(BufIds)]
        /\ pops \in [Dirs -> Nat] /\ cred \in [Dirs -> 0..NumDesc]
        /\ f \in Seq(BufIds) /\ q \in Seq(BufIds)
    BY DEF StreamInv, TypeOK, QueueInv
  <1>4. /\ MdHead' = MdHead /\ GivenBack' = GivenBack /\ ToPost' = ToPost
    BY <1>1 DEF MdHead, GivenBack, ToPost
  <1>5. /\ \A e \in Dirs : fetch'[e] = IF e = d THEN Append(f, Head(q)) ELSE fetch[e]
        /\ \A e \in Dirs : descs'[e] = IF e = d THEN Tail(q) ELSE descs[e]
        /\ \A e \in Dirs : pops'[e] = IF e = d THEN pops[e] + 1 ELSE pops[e]
    BY <1>1, <1>3
  <1>6. /\ Len(f) \in Nat /\ Len(q) \in Nat
    BY <1>3, LenProperties
  <1>7. /\ Append(f, Head(q)) \in Seq(BufIds) /\ Tail(q) \in Seq(BufIds)
        /\ Len(Append(f, Head(q))) = Len(f) + 1 /\ Len(Tail(q)) = Len(q) - 1
        /\ Len(q) >= 1
    BY <1>1, <1>3, <1>6, HeadTailProperties, AppendProperties, LenProperties
  <1> HIDE DEF f, q
  <1>8. TypeOK' /\ CallInv' /\ QueueInv' /\ SeenInv'
    <2>1. /\ fetch' \in [Dirs -> Seq(BufIds)] /\ descs' \in [Dirs -> Seq(BufIds)]
          /\ pops' \in [Dirs -> Nat]
      BY <1>1, <1>3, <1>7 DEF f, q
    <2>2. ASSUME NEW e \in Dirs
          PROVE  Len(descs'[e]) + pops'[e] + cred'[e] + ToPost'[e] = NumDesc
      <3>1. /\ Len(descs[e]) \in Nat /\ ToPost[e] \in Nat
            /\ Len(descs[e]) + pops[e] + cred[e] + ToPost[e] = NumDesc
        BY Counts, CreditSums DEF StreamInv
      <3>2. pops[e] \in Nat /\ cred[e] \in Nat
        BY <1>2, <1>3
      <3>3. CASE e = d
        <4>1. Len(descs'[e]) = Len(descs[e]) - 1 /\ pops'[e] = pops[e] + 1
          BY <1>5, <1>7, <3>3 DEF q
        <4>2. cred'[e] = cred[e] /\ ToPost'[e] = ToPost[e]
          BY <1>1, <1>4
        <4> QED BY <3>1, <3>2, <4>1, <4>2
      <3>4. CASE e # d
        BY <1>1, <1>4, <1>5, <3>1, <3>4
      <3> QED BY <3>3, <3>4
    <2>3. TypeOK'
      BY <1>1, <1>2, <2>2, TypeFrame DEF StreamInv, TypeOK
    <2> QED BY <1>1, <1>2, <2>1, <2>3
            DEF StreamInv, CallInv, QueueInv, SeenInv, InOrder, Reading
  <1>9. CASE d = "c2h"
    <2> DEFINE b == bufIdx["c2h"]  x == Pos(b, Arrived, NumBuf)
    <2>1. /\ f = fetch["c2h"] /\ q = descs["c2h"]
          /\ fetch'["c2h"] = Append(f, Head(q)) /\ descs'["c2h"] = Tail(q)
          /\ fetch'["h2c"] = fetch["h2c"] /\ descs'["h2c"] = descs["h2c"]
      BY <1>5, <1>9 DEF f, q, Dirs
    <2>2. /\ Arrived \in 0..NumBuf /\ asked \in 0..NumBuf
          /\ asked = Arrived + Len(f) + Len(q) + ToPost["c2h"] /\ ToPost["c2h"] \in Nat
          /\ Len(mdQ) \in Nat
      BY <2>1, Counts DEF StreamInv
    <2>3. b \in 0..(NumBuf - 1)
      BY <1>2 DEF StreamInv, TypeOK, Dirs
    <2>4. /\ Arrived + Len(f) \in 0..NumBuf /\ Len(f) + Len(q) <= NumBuf
          /\ Len(f) \in 0..NumBuf /\ Arrived + (Len(f) + 1) <= NumBuf
          /\ Len(f) + 1 \in 0..NumBuf
          /\ Arrived + (Len(f) + 1) = Arrived + Len(f) + 1
          /\ Arrived + (Len(f) + 1) + (Len(q) - 1) = Arrived + Len(f) + Len(q)
      BY <1>2, <1>6, <1>7, <2>2
    <2>5. /\ Chain(f, x, NumBuf)
          /\ Chain(q, Pos(b, Arrived + Len(f), NumBuf), NumBuf)
          /\ DescBuf(postIdx["c2h"]) = Pos(b, Arrived + Len(f) + Len(q), NumBuf)
      BY <2>1 DEF StreamInv, C2hInv
    <2> HIDE DEF b
    <2>6. x \in BufIds /\ Pos(x, Len(f), NumBuf) = Pos(b, Arrived + Len(f), NumBuf)
      <3>1. x \in BufIds
        BY <1>2, <2>2, <2>3, PosProps
      <3>2. Pos(x, Len(f), NumBuf) = Pos(b, Arrived + Len(f), NumBuf)
        BY <1>2, <2>2, <2>3, <2>4, PosProps
      <3> QED BY <3>1, <3>2
    <2>7. Pos(x, Len(f) + 1, NumBuf) = Pos(b, Arrived + (Len(f) + 1), NumBuf)
      <3>1. \A j, k \in 0..NumBuf : j + k <= NumBuf =>
                Pos(Pos(b, j, NumBuf), k, NumBuf) = Pos(b, j + k, NumBuf)
        BY <1>2, <2>3, PosProps
      <3> QED BY <2>2, <2>4, <3>1
    <2> HIDE DEF x
    <2>8. /\ Chain(Append(f, Head(q)), x, NumBuf)
          /\ Chain(Tail(q), Pos(x, Len(f) + 1, NumBuf), NumBuf)
      BY <1>1, <1>2, <1>3, <2>4, <2>5, <2>6, PopChain DEF f, q
    <2>9. Held' = Held
      <3>1. Held = asked - (Len(mdQ) + Len(f) + Len(q) + ToPost["c2h"])
        BY <2>1 DEF Held
      <3>2. Held' = asked - (Len(mdQ) + (Len(f) + 1) + (Len(q) - 1) + ToPost["c2h"])
        BY <1>1, <1>4, <1>7, <2>1 DEF Held
      <3> QED BY <1>2, <1>6, <2>2, <3>1, <3>2
    <2>10. Arrived' = Arrived
      BY <1>1, <2>9 DEF Arrived
    <2>11. Moved' = Moved /\ Pending' = Pending
      BY <1>1, <1>4, <2>1, <2>10 DEF Moved, Pending
    <2>12. Oldest' = Oldest
      BY <1>1, <1>2, <2>11 DEF Oldest
    <2>13. MdInv' /\ H2cInv' /\ LoopInv'
      BY <1>1, <1>2, <1>4, <2>1, <2>9, <2>10, <2>11, <2>12
         DEF StreamInv, MdInv, H2cInv, LoopInv, Holds, Chain, DescBuf
    <2>14. C2hInv'
      <3>1. /\ Len(fetch'["c2h"]) = Len(f) + 1 /\ Len(descs'["c2h"]) = Len(q) - 1
        BY <1>7, <2>1
      <3>2. /\ Chain(fetch'["c2h"], Pos(b, Arrived, NumBuf), NumBuf)
            /\ Chain(descs'["c2h"], Pos(b, Arrived + (Len(f) + 1), NumBuf), NumBuf)
        BY <2>1, <2>7, <2>8 DEF x
      <3>3. DescBuf(postIdx["c2h"]) =
                Pos(b, Arrived + (Len(f) + 1) + (Len(q) - 1), NumBuf)
        BY <2>4, <2>5
      <3> QED BY <1>1, <1>2, <2>10, <3>1, <3>2, <3>3
              DEF StreamInv, C2hInv, Holds, Chain, DescBuf, b
    <2> QED BY <1>8, <2>13, <2>14 DEF StreamInv
  <1>10. CASE d = "h2c"
    <2>1. /\ f = fetch["h2c"] /\ q = descs["h2c"]
          /\ fetch'["h2c"] = Append(f, Head(q)) /\ descs'["h2c"] = Tail(q)
          /\ fetch'["c2h"] = fetch["c2h"] /\ descs'["c2h"] = descs["c2h"]
      BY <1>5, <1>10 DEF f, q, Dirs
    <2>2. /\ Pending \in 0..NumBuf /\ prepared \in Nat /\ Oldest \in BufIds
          /\ Pending = Len(f) + Len(q) + ToPost["h2c"] + prepared /\ ToPost["h2c"] \in Nat
      BY <2>1, Counts DEF StreamInv
    <2>3. /\ Len(f) + Len(q) <= NumBuf
          /\ (Len(f) + 1) + (Len(q) - 1) = Len(f) + Len(q)
      BY <1>2, <1>6, <1>7, <2>2
    <2>4. /\ Chain(f, Oldest, NumBuf)
          /\ Chain(q, Pos(Oldest, Len(f), NumBuf), NumBuf)
          /\ DescBuf(postIdx["h2c"]) = Pos(Oldest, Len(f) + Len(q), NumBuf)
      BY <2>1 DEF StreamInv, H2cInv
    <2>5. /\ Chain(Append(f, Head(q)), Oldest, NumBuf)
          /\ Chain(Tail(q), Pos(Oldest, Len(f) + 1, NumBuf), NumBuf)
      BY <1>1, <1>2, <1>3, <2>2, <2>3, <2>4, PopChain DEF f, q
    <2>6. Pending' = Pending
      <3>1. Pending = Len(f) + Len(q) + ToPost["h2c"] + prepared
        BY <2>2
      <3>2. Pending' = (Len(f) + 1) + (Len(q) - 1) + ToPost["h2c"] + prepared
        BY <1>1, <1>4, <1>7, <2>1 DEF Pending
      <3> QED BY <2>3, <3>1, <3>2
    <2>7. Held' = Held /\ Oldest' = Oldest
      BY <1>1, <1>2, <1>4, <2>1, <2>6 DEF Held, Oldest
    <2>8. Arrived' = Arrived
      BY <1>1, <2>7 DEF Arrived
    <2>9. Moved' = Moved
      BY <1>1, <2>8 DEF Moved
    <2>10. MdInv' /\ C2hInv' /\ LoopInv'
      BY <1>1, <1>2, <1>4, <2>1, <2>6, <2>7, <2>8, <2>9
         DEF StreamInv, MdInv, C2hInv, LoopInv, Holds, Chain, DescBuf
    <2>11. H2cInv'
      <3>1. /\ Len(fetch'["h2c"]) = Len(f) + 1 /\ Len(descs'["h2c"]) = Len(q) - 1
        BY <1>7, <2>1
      <3>2. DescBuf(postIdx["h2c"]) = Pos(Oldest, (Len(f) + 1) + (Len(q) - 1), NumBuf)
        BY <2>3, <2>4
      <3> QED BY <1>1, <1>2, <2>1, <2>5, <2>6, <2>7, <2>9, <3>1, <3>2
              DEF StreamInv, H2cInv, Holds, Chain, DescBuf
    <2> QED BY <1>8, <2>10, <2>11 DEF StreamInv
  <1> QED BY <1>9, <1>10 DEF Dirs

\* The card reads the oldest buffer into its loopback.
LEMMA H2cMoveKeeps ==
    ASSUME StreamInv, H2cMove
    PROVE  StreamInv'
  <1> DEFINE f == fetch["h2c"]  v == Pos(nextR, Moved, Ids)
  <1>1. /\ f # << >> /\ loop' = Append(loop, buf["h2c"][Head(f)])
        /\ fetch' = [fetch EXCEPT !["h2c"] = Tail(@)]
        /\ UNCHANGED <<loopback, layout, postIdx, bufIdx, mdIdx, cred, buf, ring, descs,
                       pops, gen, mdQ, mdWr, prepared, sent, asked, nextW, nextR, pc, left,
                       seen>>
    BY DEF H2cMove, libVars, callVars
  <1>2. /\ NumBuf \in Nat \ {0} /\ NumBuf' = NumBuf /\ BufIds' = BufIds
        /\ Packets' = Packets /\ BufIds = 0..(NumBuf - 1) /\ NumDesc \in Nat \ {0}
        /\ Ids \in Nat \ {0} /\ Packets = 0..(Ids - 1) /\ NumBuf < Ids
    BY <1>1, Sizes DEF StreamInv, TypeOK, NumBuf, BufIds, Packets
  <1>3. /\ fetch \in [Dirs -> Seq(BufIds)] /\ f \in Seq(BufIds) /\ loop \in Seq(Packets)
        /\ nextR \in Packets
    BY DEF StreamInv, QueueInv, CallInv, Dirs
  <1>4. /\ Len(f) \in Nat /\ Len(f) >= 1 /\ Tail(f) \in Seq(BufIds)
        /\ Len(Tail(f)) = Len(f) - 1 /\ Len(loop) \in Nat
    BY <1>1, <1>3, HeadTailProperties, LenProperties
  <1>5. /\ fetch' \in [Dirs -> Seq(BufIds)] /\ fetch'["h2c"] = Tail(f)
        /\ fetch'["c2h"] = fetch["c2h"]
    BY <1>1, <1>3, <1>4 DEF Dirs
  <1>6. /\ Moved \in 0..NumBuf /\ Pending \in 0..NumBuf /\ Moved + Pending <= NumBuf
        /\ Pending = Len(f) + Len(descs["h2c"]) + ToPost["h2c"] + prepared
        /\ Moved = Arrived + Len(loop) /\ Arrived \in 0..NumBuf
        /\ Len(descs["h2c"]) \in Nat /\ ToPost["h2c"] \in Nat /\ prepared \in Nat
        /\ Oldest \in BufIds
    BY Counts DEF StreamInv
  <1> HIDE DEF f
  <1>7. Pending >= 1 /\ Len(f) <= NumBuf /\ Moved < NumBuf
        /\ Len(f) + Len(descs["h2c"]) <= NumBuf
    <2> DEFINE a == Len(f)  c == Len(descs["h2c"])  e == ToPost["h2c"]
    <2>1. /\ a \in Nat /\ c \in Nat /\ e \in Nat /\ prepared \in Nat /\ a >= 1
          /\ Pending = a + c + e + prepared
      BY <1>4, <1>6
    <2> HIDE DEF a, c, e
    <2>2. a + c <= Pending /\ a <= Pending /\ Pending >= 1
      BY <2>1
    <2>3. NumBuf \in Nat /\ Pending \in Nat /\ Pending <= NumBuf /\ Moved \in Nat
          /\ Moved + Pending <= NumBuf
      BY <1>2, <1>6
    <2>4. a + c <= NumBuf /\ a <= NumBuf /\ Moved < NumBuf
      BY <2>1, <2>2, <2>3
    <2> QED BY <2>2, <2>4 DEF a, c
  <1>8. loopback
    BY <1>2, <1>6, <1>7 DEF StreamInv, LoopInv
  <1>9. MdHead' = MdHead /\ GivenBack' = GivenBack /\ ToPost' = ToPost
    BY <1>1 DEF MdHead, GivenBack, ToPost
  <1>10. Held' = Held
    BY <1>1, <1>5, <1>9 DEF Held
  <1>11. Arrived' = Arrived
    BY <1>1, <1>10 DEF Arrived
  <1>12. Pending' = Pending - 1
    <2> DEFINE rest == Len(descs["h2c"]) + ToPost["h2c"] + prepared
    <2>1. rest \in Nat
      <3>1. \A x, y, z \in Nat : x + y + z \in Nat
        OBVIOUS
      <3> QED BY <1>6, <3>1
    <2>2. Pending = Len(f) + rest
      <3> DEFINE a == Len(f)  c == Len(descs["h2c"])  e == ToPost["h2c"]
      <3>1. /\ a \in Nat /\ c \in Nat /\ e \in Nat /\ prepared \in Nat
            /\ Pending = a + c + e + prepared
        BY <1>4, <1>6
      <3> HIDE DEF a, c, e
      <3>2. Pending = a + (c + e + prepared)
        BY <3>1
      <3> QED BY <3>2 DEF a, c, e
    <2>3. Pending' = (Len(f) - 1) + rest
      <3>1. \A w \in Int : \A x, y, z \in Nat : w + x + y + z = w + (x + y + z)
        OBVIOUS
      <3>2. Pending' = (Len(f) - 1) + Len(descs["h2c"]) + ToPost["h2c"] + prepared
        BY <1>1, <1>4, <1>5, <1>9 DEF Pending
      <3>3. Len(f) - 1 \in Int
        BY <1>4
      <3> QED BY <1>6, <3>1, <3>2, <3>3
    <2> HIDE DEF rest
    <2> QED BY <1>4, <2>1, <2>2, <2>3
  <1>13. Oldest' = Pos(Oldest, 1, NumBuf)
    <2>1. bufIdx["h2c"] \in 0..(NumBuf - 1)
      BY <1>2 DEF StreamInv, TypeOK, Dirs
    <2>2. Pending - 1 \in 0..NumBuf /\ Pending - 1 < NumBuf /\ (Pending - 1) + 1 = Pending
      <3>1. Pending \in 0..NumBuf /\ Pending >= 1 /\ NumBuf \in Nat
        BY <1>2, <1>6, <1>7
      <3> QED BY <3>1
    <2>3. Pos(Back(bufIdx["h2c"], (Pending - 1) + 1, NumBuf), 1, NumBuf)
              = Back(bufIdx["h2c"], Pending - 1, NumBuf)
      BY <1>2, <2>1, <2>2, BackProps
    <2> QED BY <1>1, <1>2, <1>12, <2>2, <2>3 DEF Oldest
  <1>14. v \in Packets
    <2>1. Moved \in 0..Ids /\ nextR \in 0..(Ids - 1)
      BY <1>2, <1>3, <1>6
    <2> QED BY <1>2, <2>1, PosProps
  <1> HIDE DEF v
  <1>15. Holds(buf["h2c"], Oldest, v, Pending, NumBuf) /\ Chain(f, Oldest, NumBuf)
    BY DEF StreamInv, H2cInv, v, f
  <1>16. Head(f) = Oldest /\ Chain(Tail(f), Pos(Oldest, 1, NumBuf), NumBuf)
    BY <1>1, <1>2, <1>3, <1>6, <1>7, <1>15, ChainTail DEF f
  <1>17. /\ buf["h2c"][Oldest] = v
         /\ Holds(buf["h2c"], Pos(Oldest, 1, NumBuf), Pos(v, 1, Ids), Pending - 1, NumBuf)
    <2>1. Pending \in 1..NumBuf /\ Oldest \in 0..(NumBuf - 1)
      BY <1>2, <1>6, <1>7
    <2>2. Holds(buf["h2c"], Oldest, v, Pending, NumBuf)
      BY <1>15
    <2>3. NumBuf \in Nat \ {0} /\ NumBuf < Ids /\ v \in Packets
      BY <1>2, <1>14
    <2> QED BY <2>1, <2>2, <2>3, HoldsLess
  <1>18. loop' = Append(loop, v)
    BY <1>1, <1>16, <1>17
  <1>19. loop' \in Seq(Packets) /\ Len(loop') = Len(loop) + 1
    BY <1>3, <1>14, <1>18, AppendProperties
  <1>20. Moved' = Moved + 1
    BY <1>2, <1>4, <1>6, <1>11, <1>19 DEF Moved
  <1>21. Pos(v, 1, Ids) = Pos(nextR, Moved + 1, Ids)
    <2>1. Moved \in 0..Ids /\ 1 \in 0..Ids /\ Moved + 1 <= Ids /\ nextR \in 0..(Ids - 1)
      <3>1. /\ Moved \in Nat /\ NumBuf \in Nat /\ Moved < NumBuf
            /\ Ids \in Nat \ {0} /\ NumBuf < Ids
        BY <1>2, <1>6, <1>7
      <3>2. Moved \in 0..Ids /\ 1 \in 0..Ids /\ Moved + 1 <= Ids
        BY <3>1
      <3> QED BY <1>2, <1>3, <3>2
    <2> QED BY <1>2, <2>1, PosProps DEF v
  <1>22. MdInv' /\ C2hInv'
    BY <1>1, <1>2, <1>5, <1>9, <1>10, <1>11
       DEF StreamInv, MdInv, C2hInv, Holds, Chain, DescBuf
  <1>23. H2cInv'
    <2> DEFINE nd == Len(descs["h2c"])
    <2>1. Holds(buf["h2c"], Oldest', Pos(nextR, Moved', Ids), Pending', NumBuf)
      BY <1>12, <1>13, <1>17, <1>20, <1>21
    <2>2. Chain(fetch'["h2c"], Oldest', NumBuf)
      BY <1>5, <1>13, <1>16
    <2>3. /\ Pos(Oldest', Len(f) - 1, NumBuf) = Pos(Oldest, Len(f), NumBuf)
          /\ Pos(Oldest', (Len(f) - 1) + nd, NumBuf) = Pos(Oldest, Len(f) + nd, NumBuf)
      <3>1. \A j, k \in 0..NumBuf : j + k <= NumBuf =>
                Pos(Pos(Oldest, j, NumBuf), k, NumBuf) = Pos(Oldest, j + k, NumBuf)
        BY <1>2, <1>6, PosProps
      <3>2. nd \in Nat /\ Len(f) + nd <= NumBuf
        BY <1>6, <1>7
      <3> HIDE DEF nd
      <3>3. /\ 1 \in 0..NumBuf /\ Len(f) - 1 \in 0..NumBuf /\ 1 + (Len(f) - 1) = Len(f)
            /\ Len(f) <= NumBuf /\ (Len(f) - 1) + nd \in 0..NumBuf
            /\ 1 + ((Len(f) - 1) + nd) = Len(f) + nd
        BY <1>2, <1>4, <1>7, <3>2
      <3> QED BY <1>13, <3>1, <3>2, <3>3
    <2>4. Len(fetch'["h2c"]) = Len(f) - 1
      BY <1>4, <1>5
    <2>5. /\ Chain(descs["h2c"], Pos(Oldest, Len(f), NumBuf), NumBuf)
          /\ DescBuf(postIdx["h2c"]) = Pos(Oldest, Len(f) + nd, NumBuf)
      BY DEF StreamInv, H2cInv, f
    <2> QED BY <1>1, <1>2, <2>1, <2>2, <2>3, <2>4, <2>5 DEF H2cInv, Holds, Chain, DescBuf
  <1>24. LoopInv'
    <2>1. Chain(loop', Pos(nextR, Arrived, Ids), Ids)
      <3>1. Chain(loop, Pos(nextR, Arrived, Ids), Ids)
        BY DEF StreamInv, LoopInv
      <3>2. v = Pos(Pos(nextR, Arrived, Ids), Len(loop), Ids)
        <4> DEFINE l == Len(loop)
        <4>1. l \in Nat /\ Arrived \in Nat /\ Moved = Arrived + l /\ Moved \in 0..NumBuf
          BY <1>2, <1>4, <1>6
        <4>2. nextR \in 0..(Ids - 1) /\ Ids \in Nat \ {0} /\ NumBuf < Ids /\ NumBuf \in Nat
          BY <1>2, <1>3
        <4> HIDE DEF l
        <4>3. Arrived \in 0..Ids /\ l \in 0..Ids /\ Arrived + l <= Ids
          BY <4>1, <4>2
        <4>4. Pos(Pos(nextR, Arrived, Ids), l, Ids) = Pos(nextR, Arrived + l, Ids)
          BY <4>2, <4>3, PosProps
        <4> QED BY <4>1, <4>4 DEF v, l
      <3> QED BY <1>3, <1>14, <1>18, <3>1, <3>2, ChainAppend
    <2>2. Moved' + Pending' = Moved + Pending
      BY <1>2, <1>6, <1>12, <1>20
    <2> QED BY <1>1, <1>8, <1>11, <2>1, <2>2 DEF StreamInv, LoopInv, Chain
  <1>25. TypeOK' /\ CallInv' /\ QueueInv' /\ SeenInv'
    <2>1. TypeOK'
      BY <1>1, <1>2, <1>9, CreditSums, TypeFrame DEF StreamInv, TypeOK
    <2> QED BY <1>1, <1>2, <1>5, <1>19, <2>1
            DEF StreamInv, CallInv, QueueInv, SeenInv, InOrder, Reading
  <1> QED BY <1>22, <1>23, <1>24, <1>25 DEF StreamInv

\* sde_wb.sv writes the entry after those that hold a packet: it is free, and is
\* not the one whose user bits are about to be read.
LEMMA MdWriteKeeps ==
    ASSUME StreamInv, MdWrite
    PROVE  /\ StreamInv'
           /\ ~ring[mdWr].valid /\ ~(pc = "user" /\ mdWr = mdIdx)
  <1> DEFINE v == Pos(nextR, Held, Ids)  qm == Len(mdQ)
             fc == Len(fetch["c2h"])  dc == Len(descs["c2h"])  lc == ToPost["c2h"]
             At(k) == Pos(MdHead, k, NumDesc)
  <1>1. /\ mdQ # << >> /\ ring' = [ring EXCEPT ![mdWr] = [valid |-> TRUE, user |-> Head(mdQ)]]
        /\ mdWr' = (mdWr + 1) % NumDesc /\ mdQ' = Tail(mdQ)
        /\ UNCHANGED <<loopback, layout, postIdx, bufIdx, mdIdx, cred, buf, descs, fetch,
                       pops, loop, gen, prepared, sent, asked, nextW, nextR, pc, left, seen>>
    BY DEF MdWrite, libVars, callVars
  <1>2. /\ NumBuf \in Nat \ {0} /\ NumBuf' = NumBuf /\ BufIds' = BufIds
        /\ Packets' = Packets /\ NumDesc \in Nat \ {0} /\ NumBuf <= NumDesc
        /\ Ids \in Nat \ {0} /\ Packets = 0..(Ids - 1) /\ NumBuf < Ids /\ NumDesc < Ids
        /\ RingSize' = RingSize /\ NoPacket' = NoPacket
    BY <1>1, Sizes DEF StreamInv, TypeOK, NumBuf, BufIds, Packets, RingSize, NoPacket
  <1>3. mdQ \in Seq(Packets) /\ nextR \in 0..(Ids - 1) /\ mdWr \in 0..(NumDesc - 1)
    BY <1>2 DEF StreamInv, QueueInv, CallInv, TypeOK
  <1>4. /\ qm \in Nat /\ qm >= 1 /\ Tail(mdQ) \in Seq(Packets) /\ Len(Tail(mdQ)) = qm - 1
        /\ Head(mdQ) \in Packets
    BY <1>1, <1>3, HeadTailProperties, LenProperties
  <1>5. /\ Held \in 0..NumBuf /\ Arrived \in 0..NumBuf /\ Arrived = Held + qm
        /\ fc \in Nat /\ dc \in Nat /\ lc \in Nat /\ asked \in 0..NumBuf
        /\ MdHead \in 0..(NumDesc - 1)
    BY Counts DEF StreamInv
  <1>6. MdHead' = MdHead /\ GivenBack' = GivenBack /\ ToPost' = ToPost
    BY <1>1 DEF MdHead, GivenBack, ToPost
  <1>7. Held' = Held + 1
    <2>1. Held = asked - (qm + fc + dc + lc) /\ Held' = asked - ((qm - 1) + fc + dc + lc)
      BY <1>1, <1>4, <1>6 DEF Held
    <2>2. asked \in Nat
      BY <1>2, <1>5
    <2>3. qm \in Nat /\ fc \in Nat /\ dc \in Nat /\ lc \in Nat
      BY <1>4, <1>5
    <2> HIDE DEF qm, fc, dc, lc
    <2> QED BY <2>1, <2>2, <2>3
  <1> HIDE DEF qm, fc, dc, lc
  <1>8. Arrived' = Arrived
    <2>1. Arrived' = Held' + (qm - 1)
      BY <1>1, <1>4 DEF Arrived
    <2> QED BY <1>2, <1>4, <1>5, <1>7, <2>1
  <1>9. /\ Held \in 0..(NumDesc - 1) /\ Held + 1 \in 0..NumDesc /\ Held \in 0..Ids
        /\ Held + 1 <= Ids /\ qm <= Ids
    BY <1>2, <1>4, <1>5
  <1>10. v \in 0..(Ids - 1) /\ Pos(v, 1, Ids) = Pos(nextR, Held + 1, Ids)
    <2>1. 1 \in 0..Ids
      BY <1>2
    <2>2. v \in 0..(Ids - 1)
      BY <1>2, <1>3, <1>9, PosProps
    <2>3. Pos(v, 1, Ids) = Pos(nextR, Held + 1, Ids)
      BY <1>2, <1>3, <1>9, <2>1, PosProps
    <2> QED BY <2>2, <2>3
  <1> HIDE DEF v
  <1>11. Head(mdQ) = v /\ Chain(Tail(mdQ), Pos(v, 1, Ids), Ids)
    <2>1. Chain(mdQ, v, Ids)
      BY DEF StreamInv, MdInv, v
    <2>2. Len(mdQ) <= Ids
      BY <1>9 DEF qm
    <2> QED BY <1>1, <1>2, <1>3, <1>10, <2>1, <2>2, ChainTail
  <1>12. mdWr = At(Held)
    BY DEF StreamInv, MdInv
  <1>13. mdWr' = At(Held + 1) /\ mdWr' \in 0..(NumDesc - 1)
    <2>1. 1 \in 0..NumDesc /\ Held \in 0..NumDesc
      BY <1>2, <1>9
    <2>2. mdWr' = Pos(mdWr, 1, NumDesc)
      BY <1>1, <1>2, <1>3, <2>1, ModIsPos
    <2>3. Pos(Pos(MdHead, Held, NumDesc), 1, NumDesc) = Pos(MdHead, Held + 1, NumDesc)
      <3>1. Held + 1 <= NumDesc
        BY <1>9
      <3> QED BY <1>2, <1>5, <2>1, <3>1, PosProps
    <2>4. Pos(mdWr, 1, NumDesc) \in 0..(NumDesc - 1)
      BY <1>2, <1>3, <2>1, PosProps
    <2> QED BY <1>12, <2>2, <2>3, <2>4
  <1>14. GivenBack => Held # 0
    BY DEF StreamInv, MdInv
  <1>15. \A k \in 0..(NumDesc - 1) : At(k) \in 0..(NumDesc - 1) /\ (At(k) = mdWr => k = Held)
    <2> SUFFICES ASSUME NEW k \in 0..(NumDesc - 1)
                 PROVE  At(k) \in 0..(NumDesc - 1) /\ (At(k) = At(Held) => k = Held)
      BY <1>12
    <2>1. k \in 0..NumDesc
      BY <1>2
    <2>2. At(k) \in 0..(NumDesc - 1)
      BY <1>2, <1>5, <2>1, PosProps
    <2>3. At(k) = At(Held) => k = Held
      BY <1>2, <1>5, <1>9, PosProps
    <2> QED BY <2>2, <2>3
  <1>16. \A k \in 0..(NumDesc - 1) :
             /\ ring[At(k)].valid <=> k < Held /\ ~(k = 0 /\ GivenBack)
             /\ k < Held => ring[At(k)].user = Pos(nextR, k, Ids)
    BY DEF StreamInv, MdInv
  <1>17. ring \in [0..(NumDesc - 1) -> [valid : BOOLEAN, user : Packets \cup {NoPacket}]]
    BY DEF StreamInv, TypeOK
  <1>18. ~ring[mdWr].valid
    BY <1>9, <1>12, <1>16
  <1>19. ~(pc = "user" /\ mdWr = mdIdx)
    <2> SUFFICES ASSUME pc = "user", mdWr = mdIdx PROVE FALSE
      OBVIOUS
    <2>1. MdHead = mdIdx /\ Held # 0
      BY <1>14 DEF MdHead, GivenBack
    <2>2. 0 \in 0..(NumDesc - 1) /\ At(0) = MdHead
      BY <1>2, <1>5, PosProps
    <2> QED BY <1>15, <2>1, <2>2
  <1>20. MdInv'
    <2>1. ASSUME NEW k \in 0..(NumDesc - 1)
          PROVE  /\ ring'[At(k)].valid <=> k < Held + 1 /\ ~(k = 0 /\ GivenBack)
                 /\ k < Held + 1 => ring'[At(k)].user = Pos(nextR, k, Ids)
      <3>1. CASE k = Held
        <4>1. ring'[At(k)] = [valid |-> TRUE, user |-> v]
          BY <1>1, <1>3, <1>11, <1>12, <1>17, <3>1
        <4> QED BY <1>9, <1>14, <3>1, <4>1 DEF v
      <3>2. CASE k # Held
        <4>1. ring'[At(k)] = ring[At(k)]
          BY <1>1, <1>15, <1>17, <3>2
        <4>2. k < Held + 1 <=> k < Held
          BY <1>9, <3>2
        <4> QED BY <1>16, <4>1, <4>2
      <3> QED BY <3>1, <3>2
    <2>2. Held' >= 0 /\ Held' >= 1
      BY <1>7, <1>9
    <2>3. Chain(mdQ', Pos(nextR', Held', Ids), Ids)
      BY <1>1, <1>7, <1>10, <1>11
    <2>4. Chain(mdQ, Pos(nextR, Held, Ids), Ids)'
      BY <2>3 DEF Chain
    <2> HIDE DEF At
    <2>5. mdWr' = At(Held')
      BY <1>7, <1>13
    <2>6. \A k \in 0..(NumDesc - 1) :
             /\ ring'[At(k)].valid <=> k < Held' /\ ~(k = 0 /\ GivenBack')
             /\ k < Held' => ring'[At(k)].user = Pos(nextR', k, Ids)
      BY <1>1, <1>6, <1>7, <2>1
    <2> QED BY <1>6, <2>2, <2>4, <2>5, <2>6 DEF MdInv, At
  <1>21. C2hInv'
    BY <1>1, <1>2, <1>8 DEF StreamInv, C2hInv, Holds, Chain, DescBuf
  <1>22. Moved' = Moved /\ Pending' = Pending
    BY <1>1, <1>6, <1>8 DEF Moved, Pending
  <1>23. Oldest' = Oldest
    BY <1>1, <1>2, <1>22 DEF Oldest
  <1>24. H2cInv' /\ LoopInv'
    BY <1>1, <1>2, <1>8, <1>22, <1>23 DEF StreamInv, H2cInv, LoopInv, Holds, Chain, DescBuf
  <1>25. TypeOK'
    <2>1. \A d \in Dirs : Len(descs'[d]) + pops'[d] + cred'[d]
                          + (IF pc' = d THEN left' ELSE 0) = NumDesc
      BY <1>1 DEF StreamInv, TypeOK
    <2>2. ring' \in [0..(NumDesc - 1) -> [valid : BOOLEAN, user : Packets \cup {NoPacket}]]
      BY <1>1, <1>4, <1>17
    <2> QED BY <1>1, <1>2, <1>13, <2>1, <2>2 DEF StreamInv, TypeOK
  <1>26. CallInv' /\ QueueInv' /\ SeenInv'
    BY <1>1, <1>2, <1>4 DEF StreamInv, CallInv, QueueInv, SeenInv, InOrder, Reading
  <1> QED BY <1>18, <1>19, <1>20, <1>21, <1>24, <1>25, <1>26 DEF StreamInv

\* The packet after those that have arrived goes to the buffer after theirs.
LEMMA C2hMoveKeeps ==
    ASSUME StreamInv, C2hMove
    PROVE  StreamInv'
  <1> DEFINE b == bufIdx["c2h"]  f == fetch["c2h"]  qm == Len(mdQ)
             nf == Len(f)  nd == Len(descs["c2h"])  lc == ToPost["c2h"]
             v == Pos(nextR, Arrived, Ids)  x == Pos(b, Arrived, NumBuf)
  <1>1. /\ f # << >> /\ (loopback => loop # << >>)
        /\ buf' = [buf EXCEPT !["c2h"][Head(f)] = IF loopback THEN Head(loop) ELSE gen]
        /\ mdQ' = Append(mdQ, IF loopback THEN Head(loop) ELSE gen)
        /\ loopback => loop' = Tail(loop) /\ gen' = gen
        /\ ~loopback => gen' = (gen + 1) % Ids /\ loop' = loop
        /\ fetch' = [fetch EXCEPT !["c2h"] = Tail(@)]
        /\ UNCHANGED <<loopback, layout, postIdx, bufIdx, mdIdx, cred, ring, descs, pops,
                       mdWr, prepared, sent, asked, nextW, nextR, pc, left, seen>>
    BY DEF C2hMove, libVars, callVars
  <1>2. /\ NumBuf \in Nat \ {0} /\ NumBuf' = NumBuf /\ BufIds' = BufIds
        /\ Packets' = Packets /\ BufIds = 0..(NumBuf - 1)
        /\ Ids \in Nat \ {0} /\ Packets = 0..(Ids - 1) /\ NumBuf < Ids
        /\ RingSize' = RingSize /\ NoPacket' = NoPacket
    BY <1>1, Sizes DEF StreamInv, TypeOK, NumBuf, BufIds, Packets, RingSize, NoPacket
  <1>3. /\ fetch \in [Dirs -> Seq(BufIds)] /\ f \in Seq(BufIds) /\ loop \in Seq(Packets)
        /\ mdQ \in Seq(Packets) /\ nextR \in 0..(Ids - 1) /\ b \in 0..(NumBuf - 1)
        /\ buf \in [Dirs -> [BufIds -> Packets \cup {NoPacket}]]
        /\ "c2h" \in Dirs /\ "h2c" \in Dirs
    BY <1>2 DEF StreamInv, QueueInv, CallInv, TypeOK, Dirs
  <1>4. /\ nf \in Nat /\ nf >= 1 /\ Tail(f) \in Seq(BufIds) /\ Len(Tail(f)) = nf - 1
        /\ Len(loop) \in Nat /\ qm \in Nat
    BY <1>1, <1>3, HeadTailProperties, LenProperties
  <1>5. /\ fetch' \in [Dirs -> Seq(BufIds)] /\ fetch'["c2h"] = Tail(f)
        /\ fetch'["h2c"] = fetch["h2c"]
    BY <1>1, <1>3, <1>4
  <1>6. /\ Held \in 0..NumBuf /\ Arrived \in 0..NumBuf /\ Arrived = Held + qm
        /\ nd \in Nat /\ lc \in Nat /\ asked \in 0..NumBuf
        /\ asked = Arrived + nf + nd + lc
        /\ Moved \in 0..NumBuf /\ Moved = Arrived + Len(loop)
    BY Counts DEF StreamInv
  <1>7. MdHead' = MdHead /\ GivenBack' = GivenBack /\ ToPost' = ToPost /\ Pending' = Pending
        /\ Oldest' = Oldest
    <2>1. MdHead' = MdHead /\ GivenBack' = GivenBack /\ ToPost' = ToPost
      BY <1>1 DEF MdHead, GivenBack, ToPost
    <2>2. Pending' = Pending
      BY <1>1, <1>5, <2>1 DEF Pending
    <2> QED BY <1>1, <1>2, <2>1, <2>2 DEF Oldest
  <1>8. /\ Arrived \in 0..(NumBuf - 1) /\ Arrived + nf \in 0..NumBuf /\ nf <= NumBuf
        /\ Arrived + nf + nd \in 0..NumBuf /\ Arrived + 1 \in 0..NumBuf
        /\ (Arrived + 1) + (nf - 1) = Arrived + nf
        /\ (Arrived + 1) + (nf - 1) + nd = Arrived + nf + nd
    <2> HIDE DEF nf, nd, lc, qm
    <2>1. /\ nf \in Nat /\ nf >= 1 /\ nd \in Nat /\ lc \in Nat /\ Arrived \in Nat
          /\ asked \in Nat /\ asked <= NumBuf /\ asked = Arrived + nf + nd + lc
      BY <1>2, <1>4, <1>6
    <2> QED BY <1>2, <2>1
  <1>9. Held' = Held
    <2>1. /\ Held = asked - (qm + nf + nd + lc)
          /\ Held' = asked - ((qm + 1) + (nf - 1) + nd + lc)
      <3>1. Len(mdQ') = qm + 1
        <4>1. Append(mdQ, IF loopback THEN Head(loop) ELSE gen) \in Seq(Packets)
              /\ Len(Append(mdQ, IF loopback THEN Head(loop) ELSE gen)) = qm + 1
          <5>1. (IF loopback THEN Head(loop) ELSE gen) \in Packets
            BY <1>1, <1>3, HeadTailProperties DEF StreamInv, CallInv
          <5> QED BY <1>3, <5>1, AppendProperties
        <4> QED BY <1>1, <4>1
      <3> QED BY <1>1, <1>4, <1>5, <1>7, <3>1 DEF Held
    <2> HIDE DEF qm, nf, nd, lc
    <2>2. asked \in Nat /\ qm \in Nat /\ nf \in Nat /\ nd \in Nat /\ lc \in Nat
      BY <1>2, <1>4, <1>6
    <2> QED BY <2>1, <2>2
  <1> HIDE DEF nf, nd, lc, f
  <1>10. v \in 0..(Ids - 1) /\ Pos(v, 1, Ids) = Pos(nextR, Arrived + 1, Ids)
         /\ Pos(v, 1, Ids) \in 0..(Ids - 1)
    <2>1. Arrived \in 0..Ids /\ 1 \in 0..Ids /\ Arrived + 1 <= Ids
      BY <1>2, <1>8
    <2>2. v \in 0..(Ids - 1)
      BY <1>2, <1>3, <2>1, PosProps
    <2>3. Pos(v, 1, Ids) = Pos(nextR, Arrived + 1, Ids)
      BY <1>2, <1>3, <2>1, PosProps
    <2>4. Pos(v, 1, Ids) \in 0..(Ids - 1)
      BY <1>2, <2>1, <2>2, PosProps
    <2> QED BY <2>2, <2>3, <2>4
  <1>11. x \in 0..(NumBuf - 1) /\ Pos(x, 1, NumBuf) = Pos(b, Arrived + 1, NumBuf)
    <2>1. Arrived \in 0..NumBuf /\ 1 \in 0..NumBuf /\ Arrived + 1 <= NumBuf
      BY <1>2, <1>8
    <2>2. x \in 0..(NumBuf - 1)
      BY <1>2, <1>3, <2>1, PosProps
    <2>3. Pos(x, 1, NumBuf) = Pos(b, Arrived + 1, NumBuf)
      <3>1. b \in 0..(NumBuf - 1) /\ NumBuf \in Nat \ {0}
        BY <1>2, <1>3
      <3> HIDE DEF b
      <3>2. \A j, k \in 0..NumBuf : j + k <= NumBuf =>
                Pos(Pos(b, j, NumBuf), k, NumBuf) = Pos(b, j + k, NumBuf)
        BY <3>1, PosProps
      <3> QED BY <2>1, <3>2
    <2> QED BY <2>2, <2>3
  <1>12. Head(f) = x /\ Chain(Tail(f), Pos(x, 1, NumBuf), NumBuf)
    <2>1. Chain(f, x, NumBuf)
      BY DEF StreamInv, C2hInv, f
    <2>2. Len(f) <= NumBuf
      BY <1>8 DEF nf
    <2> HIDE DEF x
    <2> QED BY <1>1, <1>2, <1>3, <1>11, <2>1, <2>2, ChainTail
  <1> HIDE DEF x
  \* The packet is the one after those that have arrived, and so is the one after it.
  <1>13. /\ (IF loopback THEN Head(loop) ELSE gen) = v
         /\ loop' \in Seq(Packets) /\ gen' \in Packets
         /\ Chain(loop', Pos(v, 1, Ids), Ids)
         /\ loopback => Len(loop') = Len(loop) - 1
         /\ ~loopback => loop' = << >> /\ gen' = Pos(v, 1, Ids)
    <2>1. CASE loopback
      <3>1. Chain(loop, v, Ids)
        BY DEF StreamInv, LoopInv
      <3>2. Len(loop) <= Ids
        <4> DEFINE l == Len(loop)
        <4>1. l \in Nat /\ Arrived \in Nat /\ Arrived + l <= NumBuf
          BY <1>2, <1>4, <1>6
        <4> HIDE DEF l
        <4>2. l <= Ids
          BY <1>2, <4>1
        <4> QED BY <4>2 DEF l
      <3> HIDE DEF v
      <3>3. Head(loop) = v /\ Chain(Tail(loop), Pos(v, 1, Ids), Ids)
        BY <1>1, <1>2, <1>3, <1>10, <2>1, <3>1, <3>2, ChainTail
      <3>4. Tail(loop) \in Seq(Packets) /\ Len(Tail(loop)) = Len(loop) - 1
        BY <1>1, <1>3, <2>1, HeadTailProperties
      <3> QED BY <1>1, <2>1, <3>3, <3>4 DEF StreamInv, CallInv
    <2>2. CASE ~loopback
      <3>1. loop = << >> /\ gen = v
        BY <2>2 DEF StreamInv, LoopInv
      <3> HIDE DEF v
      <3>2. gen' = Pos(v, 1, Ids)
        <4>1. 1 \in 0..Ids
          BY <1>2
        <4>2. (v + 1) % Ids = Pos(v, 1, Ids)
          BY <1>2, <1>10, <4>1, ModIsPos
        <4> QED BY <1>1, <2>2, <3>1, <4>2
      <3>3. Chain(<< >>, Pos(v, 1, Ids), Ids)
        BY DEF Chain
      <3> QED BY <1>1, <1>2, <1>3, <1>10, <2>2, <3>1, <3>2, <3>3
    <2> QED BY <2>1, <2>2
  <1>14. /\ buf' = [buf EXCEPT !["c2h"][x] = v] /\ mdQ' = Append(mdQ, v)
         /\ mdQ' \in Seq(Packets) /\ Len(mdQ') = qm + 1
    <2>1. buf' = [buf EXCEPT !["c2h"][x] = v] /\ mdQ' = Append(mdQ, v)
      BY <1>1, <1>12, <1>13
    <2>2. v \in Packets
      BY <1>2, <1>10
    <2> HIDE DEF v
    <2> QED BY <1>3, <2>1, <2>2, AppendProperties
  <1>15. Arrived' = Arrived + 1
    <2>1. Arrived' = Held + (qm + 1)
      BY <1>9, <1>14 DEF Arrived
    <2>2. Held \in Nat /\ qm \in Nat
      BY <1>2, <1>4, <1>6
    <2> HIDE DEF qm
    <2> QED BY <1>6, <2>1, <2>2
  <1>16. loopback => Moved' = Moved
    <2> SUFFICES ASSUME loopback PROVE Moved' = Moved
      OBVIOUS
    <2> DEFINE l == Len(loop)
    <2>1. Moved' = (Arrived + 1) + (l - 1) /\ Moved = Arrived + l
      BY <1>6, <1>13, <1>15 DEF Moved
    <2>2. l \in Nat /\ Arrived \in Nat
      BY <1>2, <1>4, <1>6
    <2> HIDE DEF l
    <2> QED BY <2>1, <2>2
  <1>17. /\ buf'["h2c"] = buf["h2c"] /\ buf'["c2h"] = [buf["c2h"] EXCEPT ![x] = v]
         /\ buf' \in [Dirs -> [BufIds -> Packets \cup {NoPacket}]]
         /\ DOMAIN buf["c2h"] = 0..(NumBuf - 1)
    <2>1. v \in Packets \cup {NoPacket} /\ x \in BufIds
      BY <1>2, <1>10, <1>11
    <2>2. buf["c2h"] \in [BufIds -> Packets \cup {NoPacket}]
      BY <1>3
    <2>3. [buf["c2h"] EXCEPT ![x] = v] \in [BufIds -> Packets \cup {NoPacket}]
      BY <2>1, <2>2
    <2>4. buf' = [buf EXCEPT !["c2h"] = [buf["c2h"] EXCEPT ![x] = v]]
      BY <1>3, <1>14
    <2> QED BY <1>2, <1>3, <2>2, <2>3, <2>4
  <1>18. MdInv'
    <2>1. v = Pos(Pos(nextR, Held, Ids), qm, Ids)
      <3>1. /\ Held \in 0..Ids /\ qm \in 0..Ids /\ Held + qm <= Ids
        <4>1. Held \in Nat /\ qm \in Nat /\ Held + qm <= NumBuf
          BY <1>2, <1>4, <1>6
        <4> HIDE DEF qm
        <4> QED BY <1>2, <4>1
      <3>2. Pos(Pos(nextR, Held, Ids), qm, Ids) = Pos(nextR, Held + qm, Ids)
        BY <1>2, <1>3, <3>1, PosProps
      <3> QED BY <1>6, <3>2
    <2>2. Chain(mdQ, Pos(nextR, Held, Ids), Ids)
      BY DEF StreamInv, MdInv
    <2>3. Chain(Append(mdQ, v), Pos(nextR, Held, Ids), Ids)
      BY <1>2, <1>3, <1>10, <2>1, <2>2, ChainAppend DEF qm
    <2> HIDE DEF v
    <2>4. Chain(mdQ, Pos(nextR, Held, Ids), Ids)'
      BY <1>1, <1>9, <1>14, <2>3 DEF Chain
    <2> QED BY <1>1, <1>7, <1>9, <2>4 DEF StreamInv, MdInv
  <1>19. C2hInv'
    <2>1. Holds(buf'["c2h"], b, nextR, Arrived + 1, NumBuf)
      <3>1. Holds(buf["c2h"], b, nextR, Arrived, NumBuf)
        BY DEF StreamInv, C2hInv
      <3> QED BY <1>2, <1>3, <1>8, <1>17, <3>1, HoldsMore DEF x, v
    <2>2. /\ Chain(descs["c2h"], Pos(b, Arrived + nf, NumBuf), NumBuf)
          /\ DescBuf(postIdx["c2h"]) = Pos(b, Arrived + nf + nd, NumBuf)
      BY DEF StreamInv, C2hInv, f, nf, nd
    <2>3. Len(fetch'["c2h"]) = nf - 1
      BY <1>4, <1>5
    <2>4. Chain(fetch'["c2h"], Pos(b, Arrived + 1, NumBuf), NumBuf)
      BY <1>5, <1>11, <1>12
    <2>5. /\ Chain(descs["c2h"], Pos(b, (Arrived + 1) + (nf - 1), NumBuf), NumBuf)
          /\ DescBuf(postIdx["c2h"]) = Pos(b, (Arrived + 1) + (nf - 1) + nd, NumBuf)
      BY <1>8, <2>2
    <2> QED BY <1>1, <1>2, <1>15, <2>1, <2>3, <2>4, <2>5 DEF C2hInv, Holds, Chain, DescBuf, nd
  <1>20. H2cInv'
    <2>1. CASE loopback
      BY <1>1, <1>2, <1>5, <1>7, <1>16, <1>17, <2>1
         DEF StreamInv, H2cInv, Holds, Chain, DescBuf
    <2>2. CASE ~loopback
      <3>1. Pending = 0
        BY <2>2 DEF StreamInv, LoopInv
      <3>2. Holds(buf["h2c"], Oldest, Pos(nextR, Moved, Ids), Pending, NumBuf)'
        BY <1>7, <3>1 DEF Holds
      <3> QED BY <1>1, <1>2, <1>5, <1>7, <3>2 DEF StreamInv, H2cInv, Chain, DescBuf
    <2> QED BY <2>1, <2>2
  <1>21. LoopInv'
    <2>1. Chain(loop', Pos(nextR, Arrived', Ids), Ids)
      BY <1>10, <1>13, <1>15
    <2>2. ~loopback => loop' = << >> /\ Pending' = 0 /\ gen' = Pos(nextR, Arrived', Ids)
      BY <1>7, <1>10, <1>13, <1>15 DEF StreamInv, LoopInv
    <2> QED BY <1>1, <1>7, <1>16, <2>1, <2>2 DEF StreamInv, LoopInv, Chain
  <1>22. TypeOK'
    <2>1. \A d \in Dirs : Len(descs'[d]) + pops'[d] + cred'[d]
                          + (IF pc' = d THEN left' ELSE 0) = NumDesc
      BY <1>1 DEF StreamInv, TypeOK
    <2> QED BY <1>1, <1>2, <1>17, <2>1 DEF StreamInv, TypeOK
  <1>23. CallInv' /\ QueueInv' /\ SeenInv'
    BY <1>1, <1>2, <1>5, <1>13, <1>14
       DEF StreamInv, CallInv, QueueInv, SeenInv, InOrder, Reading
  <1> QED BY <1>18, <1>19, <1>20, <1>21, <1>22, <1>23 DEF StreamInv

\* Every step keeps the invariant.
LEMMA StreamStep == StreamInv /\ [Next]_vars => StreamInv'
  <1> SUFFICES ASSUME StreamInv, [Next]_vars PROVE StreamInv'
    OBVIOUS
  <1>1. CASE Start
    <2>1. CASE Write
      BY <2>1, WriteKeeps
    <2>2. ASSUME NEW n \in 1..MaxBatch, StartRead(n) \/ Prepare(n) \/ ReadData(n)
          PROVE  StreamInv'
      BY <2>2, StartReadKeeps, SmallStepsKeep
    <2> QED BY <1>1, <2>1, <2>2 DEF Start
  <1>2. CASE Library
    BY <1>2, PostChunkKeeps, WriteDataKeeps, PollMdKeeps, ReadUserKeeps, CopyDataKeeps
       DEF Library
  <1>3. CASE Card
    <2>1. ASSUME NEW d \in Dirs, Pop(d) \/ StatusWrite(d)
          PROVE  StreamInv'
      BY <2>1, PopKeeps, SmallStepsKeep
    <2>2. CASE H2cMove \/ C2hMove \/ MdWrite
      BY <2>2, H2cMoveKeeps, C2hMoveKeeps, MdWriteKeeps
    <2> QED BY <1>3, <2>1, <2>2 DEF Card
  <1>4. CASE MdTimeout \/ Done \/ UNCHANGED vars
    BY <1>4, SmallStepsKeep DEF Done
  <1> QED BY <1>1, <1>2, <1>3, <1>4 DEF Next

\* Hence it holds in every state of every run.
LEMMA StreamInvariant == Spec => []StreamInv
  BY StreamInit, StreamStep, PTL DEF Spec

----------------------------------------------------------------------------
(* The theorems.                                                           *)

\* The indices of the library and of the card stay inside the descriptor ring,
\* the buffers and the metadata ring, for every layout, and no descriptor's
\* credit is lost or counted twice (sde_mgmt_init, sde_dma_post_desc).
THEOREM StreamTypes == Spec => []TypeOK
  <1>1. StreamInv => TypeOK
    BY DEF StreamInv
  <1> QED BY <1>1, StreamInvariant, PTL

\* Each packet read is the next one sent, by its metadata and by what is in the
\* buffer it is copied from (sde_mgmt_read_data).
THEOREM PacketsInOrder == Spec => []InOrder
  <1>1. StreamInv => InOrder
    BY DEF StreamInv, SeenInv
  <1> QED BY <1>1, StreamInvariant, PTL

\* A caller that keeps no more packets than there are buffers never has the
\* metadata ring overrun, though nothing tells the card where the reader is
\* (sde_wb.sv, sde_mgmt_read_md).
THEOREM RingIsNotOverrun == Spec => RingNotOverrun
  <1> DEFINE Kept == \A i \in DOMAIN ring : ring'[i] # ring[i] /\ ring'[i].valid
                         => ~ring[i].valid /\ ~(pc = "user" /\ i = mdIdx)
  <1>1. StreamInv /\ [Next]_vars => [Kept]_vars
    <2> SUFFICES ASSUME StreamInv, [Next]_vars,
                        NEW i \in DOMAIN ring, ring'[i] # ring[i], ring'[i].valid
                 PROVE  ~ring[i].valid /\ ~(pc = "user" /\ i = mdIdx)
      BY DEF Kept
    <2>1. ring \in [0..(NumDesc - 1) -> [valid : BOOLEAN, user : Packets \cup {NoPacket}]]
      BY DEF StreamInv, TypeOK
    <2>2. CASE MdWrite
      <3>1. ring' = [ring EXCEPT ![mdWr] = [valid |-> TRUE, user |-> Head(mdQ)]]
        BY <2>2 DEF MdWrite
      <3>2. i = mdWr
        BY <2>1, <3>1
      <3> QED BY <2>2, <3>2, MdWriteKeeps
    <2>3. CASE PollMd
      <3>1. ring' = [ring EXCEPT ![mdIdx].valid = FALSE]
        BY <2>3 DEF PollMd
      <3>2. ~ring'[i].valid
        BY <2>1, <3>1
      <3> QED BY <3>2
    <2>4. CASE ~MdWrite /\ ~PollMd
      <3>1. UNCHANGED ring
        BY <2>4 DEF Next, vars, Start, Library, Card, Done, MdTimeout, Write, StartRead,
               Prepare, ReadData, PostChunk, WriteData, ReadUser, CopyData, H2cMove,
               C2hMove, Pop, StatusWrite
      <3> QED BY <3>1
    <2> QED BY <2>2, <2>3, <2>4
  <1> QED BY <1>1, StreamInvariant, PTL DEF Spec, RingNotOverrun

\* sde_mgmt_prepare_write asks nobody which buffers are free, and never fills
\* one that a descriptor on the card still points to.
THEOREM InFlightStaysIntact == Spec => InFlightIntact
  <1> DEFINE q == descs["h2c"] \o fetch["h2c"]
             Kept == \A i \in BufIds : buf'["h2c"][i] # buf["h2c"][i]
                         => \A k \in DOMAIN q : q[k] # i
  <1>1. StreamInv /\ [Next]_vars => [Kept]_vars
    <2> SUFFICES ASSUME StreamInv, [Next]_vars, NEW i \in BufIds,
                        buf'["h2c"][i] # buf["h2c"][i], NEW k \in DOMAIN q
                 PROVE  q[k] # i
      BY DEF Kept
    <2>1. WriteData
      <3>1. CASE C2hMove
        <4>1. buf'["h2c"] = buf["h2c"]
          BY <3>1 DEF C2hMove, StreamInv, TypeOK, Dirs
        <4> QED BY <4>1
      <3>2. CASE ~C2hMove /\ ~WriteData
        <4>1. UNCHANGED buf
          BY <3>2 DEF Next, vars, Start, Library, Card, Done, MdTimeout, Write, StartRead,
                 Prepare, ReadData, PostChunk, PollMd, ReadUser, CopyData, H2cMove,
                 MdWrite, Pop, StatusWrite, libVars
        <4> QED BY <4>1
      <3> QED BY <3>1, <3>2
    <2> DEFINE d == descs["h2c"]  f == fetch["h2c"]  n == Len(d)  m == Len(f)
    <2>2. i = bufIdx["h2c"]
      <3>1. buf' = [buf EXCEPT !["h2c"][bufIdx["h2c"]] = nextW]
        BY <2>1 DEF WriteData
      <3>2. buf \in [Dirs -> [BufIds -> Packets \cup {NoPacket}]] /\ "h2c" \in Dirs
        BY DEF StreamInv, TypeOK, Dirs
      <3> QED BY <3>1, <3>2
    <2>3. Pending < NumBuf /\ i = Pos(Oldest, Pending, NumBuf)
      BY <2>1, <2>2, WriteDataKeeps
    <2>4. /\ NumBuf \in Nat \ {0} /\ Oldest \in 0..(NumBuf - 1) /\ Pending \in Nat
          /\ n + m <= Pending
      <3> DEFINE lc == ToPost["h2c"]
      <3>1. /\ NumBuf \in Nat \ {0} /\ Oldest \in 0..(NumBuf - 1) /\ Pending \in Nat
            /\ n \in Nat /\ m \in Nat /\ lc \in Nat /\ prepared \in Nat
            /\ Pending = m + n + lc + prepared
        <4>1. NumBuf \in Nat \ {0} /\ BufIds = 0..(NumBuf - 1)
          BY Sizes DEF StreamInv, TypeOK
        <4>2. /\ Oldest \in BufIds /\ Pending \in 0..NumBuf
              /\ n \in Nat /\ m \in Nat /\ lc \in Nat /\ prepared \in Nat
              /\ Pending = m + n + lc + prepared
          BY Counts DEF StreamInv
        <4> HIDE DEF n, m, lc
        <4> QED BY <4>1, <4>2
      <3> HIDE DEF n, m, lc
      <3> QED BY <3>1
    <2>5. /\ n \in Nat /\ m \in Nat /\ k \in 1..(n + m)
          /\ q[k] = IF k <= n THEN d[k] ELSE f[k - n]
          /\ DOMAIN d = 1..n /\ DOMAIN f = 1..m
      <3>1. d \in Seq(BufIds) /\ f \in Seq(BufIds)
        BY DEF StreamInv, QueueInv, Dirs
      <3>2. /\ n \in Nat /\ m \in Nat /\ DOMAIN d = 1..n /\ DOMAIN f = 1..m
        BY <3>1, LenProperties
      <3> HIDE DEF d, f
      <3>3. /\ Len(d \o f) = Len(d) + Len(f) /\ d \o f \in Seq(BufIds)
            /\ \A j \in 1..(Len(d) + Len(f)) :
                  (d \o f)[j] = IF j <= Len(d) THEN d[j] ELSE f[j - Len(d)]
        BY <3>1, ConcatProperties
      <3>4. DOMAIN (d \o f) = 1..(n + m)
        BY <3>3, LenProperties
      <3>5. k \in DOMAIN (d \o f)
        BY DEF d, f
      <3>6. q = d \o f
        BY DEF d, f
      <3> QED BY <3>2, <3>3, <3>4, <3>5, <3>6
    <2>6. Chain(f, Oldest, NumBuf) /\ Chain(d, Pos(Oldest, m, NumBuf), NumBuf)
      BY DEF StreamInv, H2cInv
    <2> HIDE DEF n, m, d, f, q
    <2> DEFINE j == IF k <= n THEN m + (k - 1) ELSE (k - n) - 1
    <2>7. j \in 0..(NumBuf - 1) /\ j # Pending /\ Pending \in 0..(NumBuf - 1)
      BY <2>3, <2>4, <2>5
    <2>8. q[k] = Pos(Oldest, j, NumBuf)
      <3>1. CASE k <= n
        <4>1. k - 1 \in 0..NumBuf /\ m \in 0..NumBuf /\ m + (k - 1) <= NumBuf
          BY <2>3, <2>4, <2>5, <3>1
        <4>2. d[k] = Pos(Pos(Oldest, m, NumBuf), k - 1, NumBuf)
          BY <2>5, <2>6, <3>1 DEF Chain
        <4>3. Pos(Pos(Oldest, m, NumBuf), k - 1, NumBuf) = Pos(Oldest, m + (k - 1), NumBuf)
          BY <2>4, <4>1, PosProps
        <4> QED BY <2>5, <3>1, <4>2, <4>3
      <3>2. CASE ~(k <= n)
        <4>1. k - n \in 1..m
          BY <2>5, <3>2
        <4> QED BY <2>5, <2>6, <3>2, <4>1 DEF Chain
      <3> QED BY <3>1, <3>2
    <2> HIDE DEF j
    <2> QED BY <2>3, <2>4, <2>7, <2>8, PosProps
  <1> QED BY <1>1, StreamInvariant, PTL DEF Spec, InFlightIntact

=============================================================================
