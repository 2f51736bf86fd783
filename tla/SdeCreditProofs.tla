-------------------------- MODULE SdeCreditProofs --------------------------
(***************************************************************************)
(* The credit protocol is safe for every ring depth, counter width, batch  *)
(* size, coalescing setting and buffering of the PCIe paths, whether or    *)
(* not pokes fail, as long as the program does not reset the SDE in        *)
(* mid-life (ReCfg = FALSE).                                               *)
(*                                                                         *)
(* The invariant measures every copy of the limit by its distance ahead of *)
(* the driver's own count, D.  Distances survive the roll-over of the      *)
(* counters, and all moves of the protocol are moves of distances: a pop   *)
(* adds one to the card's, a status write carries an older distance        *)
(* towards the host, and counting a call's descriptors subtracts the same  *)
(* amount from all of them.                                                *)
(***************************************************************************)
EXTENDS SdeCredit, SdeDescProofs, SequenceTheorems

\* Descriptors poked by the call in progress, which it has not counted yet.
Poked == IF pc = "post" THEN posted + inChunk ELSE 0

DriverInv == pc = "post" => /\ num <= SubW(hostLimit, drvConsumed)
                            /\ posted <= num
                            /\ posted = num => inChunk = 0
                            /\ posted < num => inChunk < Chunk

\* The card's limit leaves room for what is in the ring or on its way there.
LimitInv == SubW(limit, drvConsumed) + RamOcc + FtOcc + Len(chan)
              <= Depth + Poked

\* From the limit h in host memory over the status writes fl in flight and
\* the latched limit q, while a write of it is in preparation, to the card's
\* limit l, the distances ahead of the driver's count c only grow.
Chain(h, fl, q, latched, l, c) ==
    /\ SubW(h, c) <= SubW(l, c)
    /\ \A i \in 1..Len(fl) : /\ SubW(h, c) <= SubW(fl[i].limit, c)
                             /\ SubW(fl[i].limit, c) <= SubW(l, c)
    /\ \A i, j \in 1..Len(fl) :
          i <= j => SubW(fl[i].limit, c) <= SubW(fl[j].limit, c)
    /\ latched => /\ SubW(h, c) <= SubW(q, c)
                  /\ SubW(q, c) <= SubW(l, c)
                  /\ \A i \in 1..Len(fl) : SubW(fl[i].limit, c) <= SubW(q, c)

ChainInv == Chain(hostLimit, flight, limitQ, wbState = "send", limit, drvConsumed)

CreditInv == /\ TypeOK /\ RingInv /\ NoOverflow /\ pc # "cfg"
             /\ DriverInv /\ LimitInv /\ ChainInv

----------------------------------------------------------------------------
Cnt == 0..(W - 1)
StatusWrites == Seq([limit : Cnt, err : BOOLEAN])

\* A difference of two counters is again a counter value.
LEMMA SubRange ==
    ASSUME NEW x \in Cnt, NEW c \in Cnt
    PROVE  SubW(x, c) \in Cnt /\ SubW(x, c) \in Int
  BY WAssumption DEF Cnt, SubW

\* Counting n descriptors that x is ahead of brings every copy n closer.
LEMMA SubAdvance ==
    ASSUME NEW x \in Cnt, NEW c \in Cnt, NEW n \in Nat, n <= SubW(x, c)
    PROVE  AddW(c, n) \in Cnt /\ SubW(x, AddW(c, n)) = SubW(x, c) - n
  BY WAssumption DEF Cnt, SubW, AddW

\* One more pop puts the limit one further ahead.
LEMMA LimitAdvance ==
    ASSUME NEW x \in Cnt, NEW c \in Cnt, SubW(x, c) + 1 < W
    PROVE  AddW(x, 1) \in Cnt /\ SubW(AddW(x, 1), c) = SubW(x, c) + 1
  BY WAssumption DEF Cnt, SubW, AddW

\* Two copies ahead of the same count are as far apart as their distances.
LEMMA SubBetween ==
    ASSUME NEW x \in Cnt, NEW y \in Cnt, NEW c \in Cnt,
           SubW(x, c) <= SubW(y, c)
    PROVE  SubW(y, x) = SubW(y, c) - SubW(x, c)
  BY WAssumption DEF Cnt, SubW

\* The fields of the writes in flight are counter values.
LEMMA FlightField ==
    ASSUME NEW fl \in StatusWrites, NEW i \in 1..Len(fl)
    PROVE  fl[i].limit \in Cnt /\ fl[i].err \in BOOLEAN
  <1>1. fl[i] \in [limit : Cnt, err : BOOLEAN]
    BY ElementOfSeq DEF StatusWrites
  <1> QED BY <1>1

\* Counting the descriptors of a call keeps the chain.
LEMMA ChainCount ==
    ASSUME NEW h \in Cnt, NEW fl \in StatusWrites, NEW q \in Cnt,
           NEW st \in BOOLEAN, NEW l \in Cnt, NEW c \in Cnt,
           NEW n \in Nat, n <= SubW(h, c), Chain(h, fl, q, st, l, c)
    PROVE  Chain(h, fl, q, st, l, AddW(c, n))
  <1>1. ASSUME NEW x \in Cnt, SubW(h, c) <= SubW(x, c)
        PROVE  SubW(x, AddW(c, n)) = SubW(x, c) - n
    <2>1. SubW(h, c) \in Int /\ SubW(x, c) \in Int
      BY SubRange
    <2>2. n <= SubW(x, c)
      BY <1>1, <2>1
    <2> QED BY <2>2, SubAdvance
  <1>2. ASSUME NEW x \in Cnt, NEW y \in Cnt, SubW(h, c) <= SubW(x, c),
               SubW(h, c) <= SubW(y, c), SubW(x, c) <= SubW(y, c)
        PROVE  SubW(x, AddW(c, n)) <= SubW(y, AddW(c, n))
    <2>1. /\ SubW(x, AddW(c, n)) = SubW(x, c) - n
          /\ SubW(y, AddW(c, n)) = SubW(y, c) - n
      BY <1>1, <1>2
    <2>2. SubW(x, c) \in Int /\ SubW(y, c) \in Int
      BY SubRange
    <2> QED BY <2>1, <2>2, <1>2
  <1>3. SubW(h, c) <= SubW(h, c)
    BY SubRange
  <1>4. \A i \in 1..Len(fl) : fl[i].limit \in Cnt
    BY FlightField
  <1> QED BY <1>2, <1>3, <1>4 DEF Chain

\* So does a pop.
LEMMA ChainPop ==
    ASSUME NEW h \in Cnt, NEW fl \in StatusWrites, NEW q \in Cnt,
           NEW st \in BOOLEAN, NEW l \in Cnt, NEW c \in Cnt,
           SubW(l, c) + 1 < W, Chain(h, fl, q, st, l, c)
    PROVE  Chain(h, fl, q, st, AddW(l, 1), c)
  <1>1. ASSUME NEW x \in Cnt, SubW(x, c) <= SubW(l, c)
        PROVE  SubW(x, c) <= SubW(AddW(l, 1), c)
    <2>1. SubW(AddW(l, 1), c) = SubW(l, c) + 1
      BY LimitAdvance
    <2>2. SubW(x, c) \in Int /\ SubW(l, c) \in Int
      BY SubRange
    <2> QED BY <2>1, <2>2, <1>1
  <1>2. \A i \in 1..Len(fl) : fl[i].limit \in Cnt
    BY FlightField
  <1> QED BY <1>1, <1>2 DEF Chain

\* Latching the limit starts a new link at the card's end ...
LEMMA ChainLatch ==
    ASSUME NEW h \in Cnt, NEW fl \in StatusWrites, NEW q \in Cnt,
           NEW st \in BOOLEAN, NEW l \in Cnt, NEW c \in Cnt,
           Chain(h, fl, q, st, l, c)
    PROVE  Chain(h, fl, l, TRUE, l, c)
  <1>1. SubW(l, c) <= SubW(l, c)
    BY SubRange
  <1> QED BY <1>1 DEF Chain

\* ... sending it puts it behind the writes in flight ...
LEMMA ChainSend ==
    ASSUME NEW h \in Cnt, NEW fl \in StatusWrites, NEW q \in Cnt,
           NEW l \in Cnt, NEW c \in Cnt, NEW e \in BOOLEAN,
           Chain(h, fl, q, TRUE, l, c)
    PROVE  Chain(h, Append(fl, [limit |-> q, err |-> e]), q, FALSE, l, c)
  <1> DEFINE w == [limit |-> q, err |-> e]
             gl == Append(fl, w)
  <1>1. w \in [limit : Cnt, err : BOOLEAN]
    OBVIOUS
  <1>2. /\ gl \in StatusWrites /\ Len(gl) = Len(fl) + 1 /\ Len(fl) \in Nat
        /\ \A i \in 1..Len(fl) : gl[i] = fl[i]
        /\ gl[Len(fl) + 1] = w
    BY <1>1, AppendProperties DEF StatusWrites
  <1>3. w.limit = q
    OBVIOUS
  <1>4. SubW(q, c) <= SubW(q, c)
    BY SubRange
  <1> HIDE DEF gl, w
  <1>5. \A i \in 1..Len(gl) : i \in 1..Len(fl) \/ i = Len(fl) + 1
    BY <1>2
  <1>6. \A i \in 1..Len(gl) : /\ SubW(h, c) <= SubW(gl[i].limit, c)
                              /\ SubW(gl[i].limit, c) <= SubW(l, c)
    BY <1>2, <1>3, <1>5 DEF Chain
  <1>7. ASSUME NEW i \in 1..Len(gl), NEW j \in 1..Len(gl), i <= j
        PROVE  SubW(gl[i].limit, c) <= SubW(gl[j].limit, c)
    <2>1. CASE j \in 1..Len(fl)
      <3>1. i \in 1..Len(fl)
        BY <2>1, <1>2, <1>7
      <3> QED BY <3>1, <2>1, <1>2, <1>7 DEF Chain
    <2>2. CASE j = Len(fl) + 1
      BY <2>2, <1>2, <1>3, <1>4, <1>5 DEF Chain
    <2> QED BY <2>1, <2>2, <1>5
  <1>8. SubW(h, c) <= SubW(l, c)
    BY DEF Chain
  <1>9. Chain(h, gl, q, FALSE, l, c)
    BY <1>6, <1>7, <1>8 DEF Chain
  <1> QED BY <1>9 DEF gl, w

\* ... and landing it moves the host's end forward, by at most what the chain
\* spans.
LEMMA ChainLand ==
    ASSUME NEW h \in Cnt, NEW fl \in StatusWrites, NEW q \in Cnt,
           NEW st \in BOOLEAN, NEW l \in Cnt, NEW c \in Cnt,
           fl # << >>, Chain(h, fl, q, st, l, c)
    PROVE  /\ Head(fl) = fl[1] /\ Tail(fl) \in StatusWrites
           /\ fl[1].limit \in Cnt /\ fl[1].err \in BOOLEAN
           /\ SubW(h, c) <= SubW(fl[1].limit, c)
           /\ SubW(fl[1].limit, c) <= SubW(l, c)
           /\ Chain(fl[1].limit, Tail(fl), q, st, l, c)
  <1> DEFINE gl == Tail(fl)
  <1>1. /\ gl \in StatusWrites /\ Len(gl) = Len(fl) - 1 /\ Len(fl) \in Nat
        /\ \A i \in 1..Len(gl) : gl[i] = fl[i + 1]
    BY HeadTailProperties DEF StatusWrites
  <1>2. Len(fl) > 0 /\ 1 \in 1..Len(fl)
    <2>1. Len(fl) # 0
      BY EmptySeq DEF StatusWrites
    <2> QED BY <2>1, <1>1
  <1>3. Head(fl) = fl[1] /\ fl[1].limit \in Cnt /\ fl[1].err \in BOOLEAN
    BY <1>2, FlightField
  <1> HIDE DEF gl
  <1>4. \A i \in 1..Len(gl) : i + 1 \in 1..Len(fl) /\ 1 <= i + 1
    BY <1>1
  <1>5. /\ SubW(h, c) <= SubW(fl[1].limit, c)
        /\ SubW(fl[1].limit, c) <= SubW(l, c)
    BY <1>2 DEF Chain
  <1>6. \A i \in 1..Len(gl) : /\ SubW(fl[1].limit, c) <= SubW(gl[i].limit, c)
                              /\ SubW(gl[i].limit, c) <= SubW(l, c)
    BY <1>1, <1>2, <1>4 DEF Chain
  <1>7. ASSUME NEW i \in 1..Len(gl), NEW j \in 1..Len(gl), i <= j
        PROVE  SubW(gl[i].limit, c) <= SubW(gl[j].limit, c)
    <2>1. i + 1 <= j + 1
      BY <1>1, <1>7
    <2> QED BY <2>1, <1>1, <1>4 DEF Chain
  <1>8. st => /\ SubW(fl[1].limit, c) <= SubW(q, c)
              /\ SubW(q, c) <= SubW(l, c)
              /\ \A i \in 1..Len(gl) : SubW(gl[i].limit, c) <= SubW(q, c)
    BY <1>1, <1>2, <1>4 DEF Chain
  <1>9. Chain(fl[1].limit, gl, q, st, l, c)
    BY <1>5, <1>6, <1>7, <1>8 DEF Chain
  <1> QED BY <1>1, <1>3, <1>5, <1>9 DEF gl

----------------------------------------------------------------------------
\* The types the arithmetic below needs.
LEMMA Types ==
    ASSUME CreditInv
    PROVE  /\ limit \in Cnt /\ drvConsumed \in Cnt /\ hostLimit \in Cnt
           /\ limitQ \in Cnt /\ flight \in StatusWrites
           /\ chan \in Seq(Entry) /\ Len(chan) \in Nat
           /\ RamOcc \in Nat /\ FtOcc \in 0..2
           /\ num \in 0..Depth /\ posted \in 0..Depth /\ inChunk \in 0..Depth
           /\ postIdx \in 0..(NumDesc - 1)
           /\ SubW(limit, drvConsumed) \in Nat
           /\ SubW(hostLimit, drvConsumed) \in Nat
  <1>1. /\ limit \in Cnt /\ drvConsumed \in Cnt /\ hostLimit \in Cnt
        /\ limitQ \in Cnt /\ flight \in StatusWrites
        /\ num \in 0..Depth /\ posted \in 0..Depth /\ inChunk \in 0..Depth
        /\ postIdx \in 0..(NumDesc - 1)
    BY DEF CreditInv, TypeOK, DescTypeOK, Cnt, StatusWrites
  <1>2. chan \in Seq(Entry) /\ Len(chan) \in Nat
    BY DEF CreditInv, TypeOK
  <1>3. RamOcc \in Nat
    BY DepthAssumption DEF CreditInv, RingInv
  <1>4. FtOcc \in 0..2
    BY DEF CreditInv, RingInv, FtNeverOverrun, FtOcc
  <1>5. SubW(limit, drvConsumed) \in Cnt /\ SubW(hostLimit, drvConsumed) \in Cnt
    BY <1>1, SubRange
  <1> QED BY <1>1, <1>2, <1>3, <1>4, <1>5, WAssumption DEF Cnt

\* The call in progress has poked no more than the card has promised, so what
\* is in the ring or on its way fits.
LEMMA Promised ==
    ASSUME CreditInv
    PROVE  /\ Poked \in 0..Depth
           /\ Poked <= SubW(limit, drvConsumed)
           /\ RamOcc + FtOcc + Len(chan) <= Depth
           /\ pc = "post" => /\ posted + inChunk <= num
                             /\ num <= SubW(limit, drvConsumed)
  <1>1. pc = "post" => posted + inChunk <= num
    <2>1. NumDesc \in Nat
      BY NumDescAssumption, DepthAssumption
    <2> QED BY <2>1, Types, DepthAssumption DEF CreditInv, DriverInv, Chunk
  <1>2. SubW(hostLimit, drvConsumed) <= SubW(limit, drvConsumed)
    BY DEF CreditInv, ChainInv, Chain
  <1>3. pc = "post" => num <= SubW(limit, drvConsumed)
    <2>1. pc = "post" => num <= SubW(hostLimit, drvConsumed)
      BY DEF CreditInv, DriverInv
    <2> QED BY <2>1, <1>2, Types
  <1>4. Poked \in 0..Depth /\ Poked <= SubW(limit, drvConsumed)
    BY <1>1, <1>3, Types, DepthAssumption DEF Poked
  <1>5. RamOcc + FtOcc + Len(chan) <= Depth
    <2> DEFINE c == Len(chan)  s == SubW(limit, drvConsumed)
    <2>1. /\ RamOcc \in Nat /\ FtOcc \in Nat /\ c \in Nat /\ s \in Nat /\ Depth \in Nat
          /\ s + RamOcc + FtOcc + c <= Depth + Poked /\ Poked \in Nat /\ Poked <= s
      BY <1>4, Types, DepthAssumption DEF CreditInv, LimitInv
    <2> HIDE DEF c, s
    <2>2. RamOcc + FtOcc + c <= Depth
      BY <2>1
    <2> QED BY <2>2 DEF c
  <1> QED BY <1>1, <1>3, <1>4, <1>5

\* Actions that do not touch the descriptor block.
LEMMA DescFrame ==
    ASSUME CreditInv, UNCHANGED descVars
    PROVE  /\ RingInv' /\ NoOverflow' /\ DescTypeOK'
           /\ RamOcc' = RamOcc /\ FtOcc' = FtOcc
           /\ limit' = limit
  <1>1. RamOcc' = RamOcc /\ FtOcc' = FtOcc /\ limit' = limit
    BY DEF descVars, RamOcc, FtOcc
  <1>2. DescTypeOK' /\ FlagsExact' /\ SlotsValid' /\ FtNeverOverrun'
    BY <1>1 DEF CreditInv, RingInv, descVars, DescTypeOK, FlagsExact, SlotsValid,
                Dist, FtNeverOverrun
  <1> QED BY <1>1, <1>2 DEF CreditInv, RingInv, NoOverflow, descVars

\* One clock of the card, with or without an arriving descriptor and a pop.
LEMMA ClockStep ==
    ASSUME CreditInv, NEW wr \in Entry \cup {None}, NEW pop \in BOOLEAN,
           wr # None => chan # << >>,
           chan' = (IF wr # None THEN Tail(chan) ELSE chan),
           DescClock(wr, pop), PendClock,
           UNCHANGED <<drvVars, cardRest, memVars>>
    PROVE  CreditInv'
  <1>1. chan' \in Seq(Entry) /\ Len(chan') = Len(chan) - B2N(wr # None)
    <2>1. CASE wr # None
      BY <2>1, Types, HeadTailProperties DEF B2N
    <2>2. CASE wr = None
      BY <2>2, Types DEF B2N
    <2> QED BY <2>1, <2>2
  <1>2. wr # None => RamOcc + FtOcc < Depth
    <2>1. wr # None => Len(chan) > 0
      BY Types, EmptySeq
    <2> QED BY <2>1, Types, Promised, DepthAssumption
  <1>3. /\ RingInv'
        /\ RamOcc' + FtOcc' = RamOcc + FtOcc + B2N(wr # None) - B2N(pop)
        /\ oflow' = oflow
    BY <1>2, RingStep DEF CreditInv
  <1>4. pop => FtOcc > 0
    BY DEF DescClock, FtOcc
  <1>5. limit' = (IF pop THEN AddW(limit, 1) ELSE limit)
    BY DEF DescClock, CreditClock
  <1>6. pop => SubW(limit, drvConsumed) + 1 < W
    <2>1. pop => SubW(limit, drvConsumed) + 1 <= Depth + Poked
      <3> DEFINE c == Len(chan)  s == SubW(limit, drvConsumed)
      <3>1. /\ RamOcc \in Nat /\ FtOcc \in Nat /\ c \in Nat /\ s \in Nat /\ Depth \in Nat
            /\ s + RamOcc + FtOcc + c <= Depth + Poked /\ Poked \in Nat
        BY Types, Promised, DepthAssumption DEF CreditInv, LimitInv
      <3> HIDE DEF c, s
      <3>2. pop => s + 1 <= Depth + Poked
        BY <1>4, <3>1
      <3> QED BY <3>2 DEF s
    <2> QED BY <2>1, Types, Promised, DepthAssumption, WAssumption
  <1>7. SubW(limit', drvConsumed) = SubW(limit, drvConsumed) + B2N(pop)
    <2>1. CASE pop
      BY <2>1, <1>5, <1>6, LimitAdvance, Types DEF B2N
    <2>2. CASE ~pop
      BY <2>2, <1>5, Types DEF B2N
    <2> QED BY <2>1, <2>2
  <1>8. /\ drvConsumed' = drvConsumed /\ hostLimit' = hostLimit /\ pc' = pc
        /\ flight' = flight /\ limitQ' = limitQ /\ wbState' = wbState
        /\ num' = num /\ posted' = posted /\ inChunk' = inChunk
        /\ postIdx' = postIdx /\ hostErr' = hostErr /\ errQ' = errQ
        /\ bAvail' = bAvail
    BY DEF drvVars, cardRest, memVars
  <1>9. LimitInv'
    <2>1. Poked' = Poked
      BY <1>8 DEF Poked
    <2>2. RamOcc' \in Int /\ FtOcc' \in Int
      BY <1>3, DepthAssumption DEF RingInv, FtOcc
    <2>3. B2N(pop) \in Int /\ B2N(wr # None) \in Int
      BY DEF B2N
    <2>4. SubW(limit, drvConsumed) + RamOcc + FtOcc + Len(chan) <= Depth + Poked
      BY DEF CreditInv, LimitInv
    <2>5. /\ SubW(limit, drvConsumed) \in Int /\ RamOcc \in Int /\ FtOcc \in Int
          /\ Len(chan) \in Int /\ Poked \in Int /\ Depth \in Int
      BY Types, Promised, DepthAssumption
    <2>6. SubW(limit', drvConsumed) + (RamOcc' + FtOcc') + Len(chan')
            = SubW(limit, drvConsumed) + RamOcc + FtOcc + Len(chan)
      <3> DEFINE p == B2N(pop)  w == B2N(wr # None)
                 l == SubW(limit, drvConsumed)  n == Len(chan)
      <3>1. /\ SubW(limit', drvConsumed) = l + p
            /\ RamOcc' + FtOcc' = RamOcc + FtOcc + w - p
            /\ Len(chan') = n - w
            /\ p \in Int /\ w \in Int /\ l \in Int /\ n \in Int
            /\ RamOcc \in Int /\ FtOcc \in Int
        BY <1>1, <1>3, <1>7, <2>3, <2>5
      <3> HIDE DEF p, w, l, n
      <3>2. (l + p) + (RamOcc + FtOcc + w - p) + (n - w)
              = l + RamOcc + FtOcc + n
        BY <3>1
      <3>3. SubW(limit', drvConsumed) + (RamOcc' + FtOcc') + Len(chan')
              = l + RamOcc + FtOcc + n
        BY <3>1, <3>2
      <3> QED BY <3>3 DEF l, n
    <2>7. SubW(limit', drvConsumed) + RamOcc' + FtOcc' + Len(chan')
            <= Depth + Poked
      BY <1>1, <1>7, <2>2, <2>3, <2>4, <2>5, <2>6
    <2> QED BY <2>1, <2>7, <1>8 DEF LimitInv
  <1>10. ChainInv'
    <2>1. (wbState = "send") \in BOOLEAN
      OBVIOUS
    <2>2. Chain(hostLimit, flight, limitQ, wbState = "send", limit', drvConsumed)
      BY <1>5, <1>6, <2>1, ChainPop, Types DEF CreditInv, ChainInv
    <2> QED BY <2>2, <1>8 DEF ChainInv
  <1>11. DriverInv'
    BY <1>8 DEF CreditInv, DriverInv, Chunk
  <1>12. TypeOK'
    <2>1. pend' \in BOOLEAN
      BY DEF PendClock
    <2> QED BY <2>1, <1>1, <1>3, <1>8 DEF CreditInv, TypeOK, RingInv
  <1> QED BY <1>3, <1>8, <1>9, <1>10, <1>11, <1>12 DEF CreditInv, NoOverflow

\* A call begins or gives up: nothing is promised and nothing poked.
LEMMA CallStep ==
    ASSUME CreditInv, WaitTimeout \/ \E n \in 1..MaxBatch : BeginPost(n)
    PROVE  CreditInv'
  <1>1. /\ pc # "post" /\ pc' # "post" /\ pc' \in {"idle", "wait"}
        /\ num' \in 0..Depth
        /\ UNCHANGED <<descVars, posted, inChunk, postIdx, drvConsumed, wbVars,
                       memVars, chan>>
    BY MaxBatchAssumption, DepthAssumption
       DEF CreditInv, TypeOK, WaitTimeout, BeginPost
  <1>2. RingInv' /\ NoOverflow' /\ DescTypeOK' /\ RamOcc' = RamOcc /\ FtOcc' = FtOcc
        /\ limit' = limit
    BY <1>1, DescFrame
  <1>3. TypeOK'
    BY <1>1, <1>2 DEF CreditInv, TypeOK, wbVars, memVars
  <1>4. LimitInv'
    BY <1>1, <1>2 DEF CreditInv, LimitInv, Poked
  <1>5. ChainInv'
    BY <1>1, <1>2 DEF CreditInv, ChainInv, wbVars, memVars
  <1>6. DriverInv' /\ pc' # "cfg"
    BY <1>1 DEF DriverInv
  <1> QED BY <1>2, <1>3, <1>4, <1>5, <1>6 DEF CreditInv

\* A successful wait.
LEMMA WaitOkStep ==
    ASSUME CreditInv, WaitOk
    PROVE  CreditInv'
  <1>1. RingInv' /\ NoOverflow' /\ DescTypeOK' /\ RamOcc' = RamOcc /\ FtOcc' = FtOcc
        /\ limit' = limit
    BY DescFrame DEF WaitOk
  <1>2. TypeOK' /\ pc' # "cfg"
    BY <1>1, DepthAssumption DEF CreditInv, TypeOK, WaitOk, wbVars, memVars
  <1>3. Poked = 0 /\ Poked' = 0
    BY DEF WaitOk, Poked
  <1>4. LimitInv'
    BY <1>1, <1>3 DEF CreditInv, LimitInv, WaitOk
  <1>5. ChainInv'
    BY <1>1 DEF CreditInv, ChainInv, WaitOk, wbVars, memVars
  <1>6. DriverInv'
    <2>1. num <= SubW(hostLimit, drvConsumed)
      BY Types DEF WaitOk, Credits
    <2>2. Chunk' > 0 \/ num = 0
      BY Types, NumDescAssumption, DepthAssumption DEF WaitOk, Chunk
    <2> QED BY <2>1, <2>2, Types, DepthAssumption DEF DriverInv, WaitOk, memVars
  <1> QED BY <1>1, <1>2, <1>4, <1>5, <1>6 DEF CreditInv

\* A chunk is never empty while descriptors remain.
LEMMA ChunkPositive ==
    ASSUME NEW n \in Int, NEW p \in Int, NEW i \in Int, NEW m \in Int,
           p < n, i < m
    PROVE  (IF n - p > m - i THEN m - i ELSE n - p) > 0
  OBVIOUS

\* A poke: one more descriptor poked, one more on its way.
LEMMA PokeStep ==
    ASSUME CreditInv, Poke
    PROVE  CreditInv'
  <1>0. NumDesc \in Nat /\ NumDesc > 0 /\ NumDesc <= Depth
    BY NumDescAssumption, DepthAssumption
  <1>1. RingInv' /\ NoOverflow' /\ DescTypeOK' /\ RamOcc' = RamOcc /\ FtOcc' = FtOcc
        /\ limit' = limit
    BY DescFrame DEF Poke
  <1>2. inChunk < Chunk /\ posted < num /\ pc = "post"
    BY DEF CreditInv, DriverInv, Poke
  <1>3. /\ postIdx + inChunk \in Entry
        /\ Chunk \in 1..NumDesc /\ posted + Chunk <= num
        /\ postIdx + Chunk <= NumDesc
    <2>1. /\ num \in Int /\ posted \in Int /\ 0 <= posted
          /\ inChunk \in Int /\ 0 <= inChunk
          /\ postIdx \in Int /\ 0 <= postIdx /\ postIdx < NumDesc
      BY <1>0, Types, DepthAssumption
    <2>2. Chunk \in Int /\ Chunk <= num - posted /\ Chunk <= NumDesc - postIdx
      BY <1>0, <2>1 DEF Chunk
    <2>3. Entry = 0..(NumDesc - 1)
      BY NumDescAssumption
    <2> HIDE DEF Chunk
    <2> QED BY <1>0, <1>2, <2>1, <2>2, <2>3
  <1>11. /\ num \in Int /\ 0 <= num /\ num <= Depth /\ Depth \in Int
         /\ posted \in Int /\ 0 <= posted /\ inChunk \in Int /\ 0 <= inChunk
         /\ postIdx \in Int /\ 0 <= postIdx /\ postIdx < NumDesc
         /\ Chunk \in Int /\ 0 < Chunk
    BY <1>0, <1>3, Types, DepthAssumption
  <1>4. chan' \in Seq(Entry) /\ Len(chan') = Len(chan) + 1
    BY <1>3, Types, AppendProperties DEF Poke
  <1>5. /\ posted' \in 0..Depth /\ inChunk' \in 0..Depth
        /\ postIdx' \in 0..(NumDesc - 1)
        /\ posted' + inChunk' = posted + inChunk + 1
        /\ posted' <= num
    <2>1. CASE inChunk + 1 = Chunk
      <3>1. /\ inChunk' = 0 /\ posted' = posted + Chunk
            /\ postIdx' = IF postIdx + Chunk = NumDesc THEN 0 ELSE postIdx + Chunk
        BY <2>1 DEF Poke
      <3> QED BY <3>1, <2>1, <1>0, <1>3, <1>11
    <2>2. CASE inChunk + 1 # Chunk
      <3>1. inChunk' = inChunk + 1 /\ posted' = posted /\ postIdx' = postIdx
        BY <2>2 DEF Poke
      <3> QED BY <3>1, <2>2, <1>0, <1>2, <1>3, <1>11
    <2> QED BY <2>1, <2>2
  <1>6. /\ posted' = num => inChunk' = 0
        /\ posted' < num => inChunk' < Chunk'
    <2>1. CASE inChunk + 1 = Chunk
      <3> DEFINE p == posted + Chunk
                 i == IF postIdx + Chunk = NumDesc THEN 0 ELSE postIdx + Chunk
      <3>1. inChunk' = 0 /\ num' = num /\ posted' = p /\ postIdx' = i
        BY <2>1 DEF Poke
      <3>2. Chunk' = IF num - p > NumDesc - i THEN NumDesc - i ELSE num - p
        BY <3>1 DEF Chunk
      <3>3. p \in Int /\ i \in Int /\ i < NumDesc
        BY <1>0, <1>3, <1>11
      <3> HIDE DEF p, i
      <3>4. posted' < num => Chunk' > 0
        BY <3>1, <3>2, <3>3, <1>0, <1>11, ChunkPositive
      <3> QED BY <3>1, <3>4
    <2>2. CASE inChunk + 1 # Chunk
      <3>1. /\ inChunk' = inChunk + 1 /\ posted' = posted /\ postIdx' = postIdx
            /\ num' = num
        BY <2>2 DEF Poke
      <3>2. Chunk' = Chunk
        BY <3>1 DEF Chunk
      <3> QED BY <3>1, <3>2, <2>2, <1>2, <1>3, Types, <1>0
    <2> QED BY <2>1, <2>2
  <1>7. TypeOK' /\ pc' # "cfg"
    BY <1>1, <1>4, <1>5 DEF CreditInv, TypeOK, Poke, wbVars, memVars
  <1>8. DriverInv'
    BY <1>5, <1>6 DEF CreditInv, DriverInv, Poke, memVars
  <1>9. LimitInv'
    <2>1. Poked' = Poked + 1
      BY <1>2, <1>5 DEF Poked, Poke
    <2>2. SubW(limit, drvConsumed) + RamOcc + FtOcc + Len(chan) <= Depth + Poked
      BY DEF CreditInv, LimitInv
    <2>3. /\ SubW(limit, drvConsumed) \in Int /\ RamOcc \in Int /\ FtOcc \in Int
          /\ Len(chan) \in Int /\ Poked \in Int /\ Depth \in Int
      BY Types, Promised, DepthAssumption
    <2>4. SubW(limit, drvConsumed) + RamOcc + FtOcc + (Len(chan) + 1)
            <= Depth + (Poked + 1)
      BY <2>2, <2>3
    <2> QED BY <2>1, <2>4, <1>1, <1>4 DEF LimitInv, Poke
  <1>10. ChainInv'
    BY <1>1 DEF CreditInv, ChainInv, Poke, wbVars, memVars
  <1> QED BY <1>1, <1>7, <1>8, <1>9, <1>10 DEF CreditInv

\* The call's descriptors are counted, whether all of them are on their way
\* (PostDone) or only some, and perhaps one that was poked in part (PokeFail).
LEMMA CountStep ==
    ASSUME CreditInv, PostDone \/ PokeFail
    PROVE  CreditInv'
  <1>0. NumDesc \in Nat /\ NumDesc > 0 /\ NumDesc <= Depth
    BY NumDescAssumption, DepthAssumption
  <1>1. /\ pc = "post" /\ pc' = "idle" /\ drvConsumed' = AddW(drvConsumed, num)
        /\ UNCHANGED <<descVars, num, posted, inChunk, postIdx, wbVars, memVars>>
    BY DEF PostDone, PokeFail
  <1>2. RingInv' /\ NoOverflow' /\ DescTypeOK' /\ RamOcc' = RamOcc /\ FtOcc' = FtOcc
        /\ limit' = limit
    BY <1>1, DescFrame
  <1>3. /\ num <= SubW(hostLimit, drvConsumed) /\ num <= SubW(limit, drvConsumed)
        /\ num \in Nat /\ Poked = posted + inChunk /\ Poked <= num
    BY <1>1, Types, Promised, DepthAssumption DEF CreditInv, DriverInv, Poked
  <1>4. /\ drvConsumed' \in Cnt
        /\ SubW(limit, drvConsumed') = SubW(limit, drvConsumed) - num
    BY <1>1, <1>3, Types, SubAdvance
  <1>5. /\ chan' \in Seq(Entry) /\ Len(chan') \in Nat
        /\ Len(chan') - Len(chan) <= num - Poked
    <2>1. CASE chan' = chan
      BY <2>1, <1>3, Types, DepthAssumption
    <2>2. CASE PokeFail /\ chan' = Append(chan, postIdx + inChunk)
      <3>1. posted < num /\ inChunk < Chunk
        BY <1>1, <2>2 DEF PokeFail, CreditInv, DriverInv
      <3>2. postIdx + inChunk \in Entry /\ posted + inChunk + 1 <= num
        <4>1. /\ num \in Nat /\ posted \in Nat /\ inChunk \in Nat /\ postIdx \in Nat
              /\ posted < num /\ postIdx < NumDesc
          BY <3>1, <1>0, Types, DepthAssumption
        <4>2. inChunk < num - posted /\ inChunk < NumDesc - postIdx
          BY <3>1, <4>1, <1>0 DEF Chunk
        <4>3. postIdx + inChunk \in 0..(NumDesc - 1) /\ posted + inChunk + 1 <= num
          BY <4>1, <4>2, <1>0
        <4> QED BY <4>3, NumDescAssumption
      <3>3. chan' \in Seq(Entry) /\ Len(chan') = Len(chan) + 1
        BY <3>2, <2>2, Types, AppendProperties
      <3> QED BY <3>2, <3>3, <1>3, Types, DepthAssumption
    <2> QED BY <2>1, <2>2 DEF PostDone, PokeFail
  <1>6. LimitInv'
    <2>1. Poked' = 0
      BY <1>1 DEF Poked
    <2>2. SubW(limit, drvConsumed) + RamOcc + FtOcc + Len(chan) <= Depth + Poked
      BY DEF CreditInv, LimitInv
    <2>4. /\ SubW(limit, drvConsumed) \in Int /\ RamOcc \in Int /\ FtOcc \in Int
          /\ Len(chan) \in Int /\ Poked \in Int /\ Depth \in Int
      BY Types, Promised, DepthAssumption
    <2>3. (SubW(limit, drvConsumed) - num) + RamOcc + FtOcc + Len(chan') <= Depth
      <3> HIDE DEF Poked
      <3> DEFINE l == SubW(limit, drvConsumed)  n == Len(chan)  m == Len(chan')
      <3>1. /\ l + RamOcc + FtOcc + n <= Depth + Poked /\ m - n <= num - Poked
            /\ l \in Int /\ n \in Int /\ m \in Int /\ num \in Int
        BY <2>2, <2>4, <1>3, <1>5
      <3> HIDE DEF l, n, m
      <3>2. (l - num) + RamOcc + FtOcc + m <= Depth
        BY <3>1, <2>4
      <3> QED BY <3>2 DEF l, m
    <2> QED BY <2>1, <2>3, <1>2, <1>4, DepthAssumption DEF LimitInv
  <1>7. ChainInv'
    <2>1. Chain(hostLimit, flight, limitQ, wbState = "send", limit,
                AddW(drvConsumed, num))
      BY <1>3, Types, ChainCount DEF CreditInv, ChainInv
    <2> QED BY <2>1, <1>1, <1>2 DEF ChainInv, wbVars, memVars
  <1>8. TypeOK' /\ DriverInv' /\ pc' # "cfg"
    BY <1>1, <1>2, <1>4, <1>5 DEF CreditInv, TypeOK, DriverInv, Cnt, wbVars, memVars
  <1> QED BY <1>2, <1>6, <1>7, <1>8 DEF CreditInv

\* A status write is asked for, is accepted, or its response returns.
LEMMA RequestStep ==
    ASSUME CreditInv, WbTimer \/ WbStart \/ WbBresp
    PROVE  CreditInv'
  <1>1. /\ UNCHANGED <<descVars, drvVars, limitQ, errQ, memVars, chan>>
        /\ wbState' = "send" => wbState = "send"
        /\ wbState' \in {"idle", "start", "send"} /\ pend' \in BOOLEAN
    BY DEF WbTimer, WbStart, WbBresp, cardRest, CreditInv, TypeOK
  <1>2. bAvail' \in 0..BrespDepth
    <2>1. bAvail \in 0..BrespDepth /\ BrespDepth \in Nat
      BY BoundsAssumption DEF CreditInv, TypeOK
    <2> QED BY <2>1 DEF WbTimer, WbStart, WbBresp, cardRest, Outstanding
  <1>3. RingInv' /\ NoOverflow' /\ DescTypeOK' /\ RamOcc' = RamOcc /\ FtOcc' = FtOcc
        /\ limit' = limit
    BY <1>1, DescFrame
  <1>4. TypeOK' /\ pc' # "cfg"
    BY <1>1, <1>2, <1>3 DEF CreditInv, TypeOK, drvVars, memVars
  <1>5. DriverInv' /\ LimitInv'
    BY <1>1, <1>3 DEF CreditInv, DriverInv, LimitInv, Poked, Chunk, drvVars, memVars
  <1>6. ChainInv'
    BY <1>1, <1>3 DEF CreditInv, ChainInv, Chain, drvVars, memVars
  <1> QED BY <1>3, <1>4, <1>5, <1>6 DEF CreditInv

\* The limit is latched for a status write.
LEMMA LatchStep ==
    ASSUME CreditInv, WbLatch
    PROVE  CreditInv'
  <1>1. RingInv' /\ NoOverflow' /\ DescTypeOK' /\ RamOcc' = RamOcc /\ FtOcc' = FtOcc
        /\ limit' = limit
    BY DescFrame DEF WbLatch
  <1>2. TypeOK' /\ pc' # "cfg"
    BY <1>1 DEF CreditInv, TypeOK, DescTypeOK, WbLatch, drvVars, memVars
  <1>3. DriverInv' /\ LimitInv'
    BY <1>1 DEF CreditInv, DriverInv, LimitInv, Poked, Chunk, WbLatch, drvVars, memVars
  <1>4. ChainInv'
    <2>1. Chain(hostLimit, flight, limit, TRUE, limit, drvConsumed)
      BY Types, ChainLatch DEF CreditInv, ChainInv
    <2> QED BY <2>1, <1>1 DEF ChainInv, WbLatch, drvVars, memVars
  <1> QED BY <1>1, <1>2, <1>3, <1>4 DEF CreditInv

\* The status write is sent.
LEMMA SendStep ==
    ASSUME CreditInv, WbSend
    PROVE  CreditInv'
  <1>1. RingInv' /\ NoOverflow' /\ DescTypeOK' /\ RamOcc' = RamOcc /\ FtOcc' = FtOcc
        /\ limit' = limit
    BY DescFrame DEF WbSend
  <1> DEFINE w == [limit |-> limitQ, err |-> errQ]
  <1>2. w \in [limit : Cnt, err : BOOLEAN] /\ errQ \in BOOLEAN
    BY Types DEF CreditInv, TypeOK
  <1>3. flight' \in StatusWrites
    BY <1>2, Types, AppendProperties DEF StatusWrites, WbSend
  <1>4. TypeOK' /\ pc' # "cfg"
    BY <1>1, <1>3 DEF CreditInv, TypeOK, WbSend, drvVars, StatusWrites, Cnt
  <1>5. DriverInv' /\ LimitInv'
    BY <1>1 DEF CreditInv, DriverInv, LimitInv, Poked, Chunk, WbSend, drvVars
  <1>6. ChainInv'
    <2>1. Chain(hostLimit, flight, limitQ, TRUE, limit, drvConsumed)
      BY DEF CreditInv, ChainInv, WbSend
    <2>2. Chain(hostLimit, Append(flight, w), limitQ, FALSE, limit, drvConsumed)
      BY <2>1, <1>2, Types, ChainSend
    <2> QED BY <2>2, <1>1 DEF ChainInv, WbSend, drvVars
  <1> QED BY <1>1, <1>4, <1>5, <1>6 DEF CreditInv

\* The status write lands in host memory: the driver sees a later limit.
LEMMA LandStep ==
    ASSUME CreditInv, Land
    PROVE  /\ CreditInv'
           /\ SubW(hostLimit, drvConsumed) <= SubW(hostLimit', drvConsumed)
           /\ SubW(hostLimit', drvConsumed) <= SubW(limit, drvConsumed)
  <1>1. RingInv' /\ NoOverflow' /\ DescTypeOK' /\ RamOcc' = RamOcc /\ FtOcc' = FtOcc
        /\ limit' = limit
    BY DescFrame DEF Land
  <1>2. /\ Head(flight) = flight[1] /\ Tail(flight) \in StatusWrites
        /\ flight[1].limit \in Cnt /\ flight[1].err \in BOOLEAN
        /\ SubW(hostLimit, drvConsumed) <= SubW(flight[1].limit, drvConsumed)
        /\ SubW(flight[1].limit, drvConsumed) <= SubW(limit, drvConsumed)
        /\ Chain(flight[1].limit, Tail(flight), limitQ, wbState = "send", limit,
                 drvConsumed)
    <2>1. (wbState = "send") \in BOOLEAN
      OBVIOUS
    <2> QED BY <2>1, Types, ChainLand DEF CreditInv, ChainInv, Land
  <1>3. /\ hostLimit' = flight[1].limit /\ hostErr' = flight[1].err
        /\ flight' = Tail(flight)
        /\ UNCHANGED <<descVars, drvVars, wbVars, chan>>
    BY <1>2 DEF Land
  <1>4. TypeOK' /\ pc' # "cfg"
    BY <1>1, <1>2, <1>3 DEF CreditInv, TypeOK, drvVars, wbVars, StatusWrites, Cnt
  <1>5. pc = "post" => num <= SubW(hostLimit', drvConsumed)
    <2>1. SubW(hostLimit', drvConsumed) \in Int
      BY <1>2, <1>3, Types, SubRange
    <2>2. pc = "post" => num <= SubW(hostLimit, drvConsumed)
      BY DEF CreditInv, DriverInv
    <2> QED BY <2>1, <2>2, <1>2, <1>3, Types, DepthAssumption
  <1>6. DriverInv' /\ LimitInv'
    BY <1>1, <1>3, <1>5 DEF CreditInv, DriverInv, LimitInv, Poked, Chunk, drvVars
  <1>7. ChainInv'
    BY <1>1, <1>2, <1>3 DEF ChainInv, drvVars, wbVars
  <1> QED BY <1>1, <1>2, <1>3, <1>4, <1>6, <1>7 DEF CreditInv

----------------------------------------------------------------------------
\* The state sde_mgmt_init_and_cfg leaves behind satisfies the invariant.
LEMMA CreditInvInit == Init => CreditInv
  <1> SUFFICES ASSUME Init PROVE CreditInv
    OBVIOUS
  <1>1. DescInv
    BY DescInvInit DEF Init
  <1>2. RingInv /\ NoOverflow /\ DescTypeOK
    BY <1>1 DEF DescInv, RingInv
  <1>3. chan = << >> /\ flight = << >> /\ Len(chan) = 0 /\ Len(flight) = 0
    BY EmptySeq DEF Init
  <1>4. Depth \in 0..(W - 1) /\ 0 \in 0..(W - 1) /\ 0 \in 0..Depth
        /\ 0 \in 0..(NumDesc - 1) /\ BrespDepth \in 0..BrespDepth
    BY DepthAssumption, WAssumption, NumDescAssumption, BoundsAssumption
  <1>5. TypeOK
    BY <1>2, <1>3, <1>4, EmptySeq DEF Init, TypeOK
  <1>6. RamOcc = 0 /\ FtOcc = 0
    BY DEF Init, DescInit, RamOcc, FtOcc
  <1>7. SubW(limit, drvConsumed) = Depth /\ SubW(hostLimit, drvConsumed) = Depth
    BY DepthAssumption DEF SubW, Init, DescInit
  <1>8. LimitInv /\ DriverInv /\ pc # "cfg"
    BY <1>3, <1>6, <1>7, DepthAssumption DEF LimitInv, DriverInv, Poked, Init
  <1>9. ChainInv
    BY <1>3, <1>7, DepthAssumption DEF ChainInv, Chain, Init
  <1> QED BY <1>2, <1>5, <1>8, <1>9 DEF CreditInv

\* Every step of the channel preserves the invariant, unless it is a reset.
LEMMA CreditInvNext ==
    ASSUME ReCfg = FALSE, CreditInv, [Next]_vars
    PROVE  CreditInv'
  <1>1. ASSUME NEW n \in 1..MaxBatch, BeginPost(n) PROVE CreditInv'
    BY <1>1, CallStep
  <1>2. CASE WaitTimeout
    BY <1>2, CallStep
  <1>3. CASE WaitOk
    BY <1>3, WaitOkStep
  <1>4. CASE Poke
    BY <1>4, PokeStep
  <1>5. CASE PostDone \/ PokeFail
    BY <1>5, CountStep
  <1>6. CASE Reset \/ Cfg
    BY <1>6 DEF Reset, Cfg, CreditInv
  <1>7. CASE Arrive \/ ArrivePop
    <2>1. Head(chan) \in Entry /\ Head(chan) # None /\ chan # << >>
      BY <1>7, Types, HeadTailProperties, NoneAssumption DEF Arrive, ArrivePop
    <2>2. CASE Arrive
      BY <2>1, <2>2, ClockStep DEF Arrive
    <2>3. CASE ArrivePop
      BY <2>1, <2>3, ClockStep DEF ArrivePop
    <2> QED BY <1>7, <2>2, <2>3
  <1>8. CASE DmPop
    <2>1. chan' = chan /\ UNCHANGED <<drvVars, cardRest, memVars>>
      BY <1>8 DEF DmPop
    <2> QED BY <1>8, <2>1, ClockStep DEF DmPop
  <1>9. CASE HwTick
    <2>1. chan' = chan /\ UNCHANGED <<drvVars, cardRest, memVars>>
      BY <1>9 DEF HwTick
    <2> QED BY <1>9, <2>1, ClockStep DEF HwTick
  <1>10. CASE WbTimer \/ WbStart \/ WbBresp
    BY <1>10, RequestStep
  <1>11. CASE WbLatch
    BY <1>11, LatchStep
  <1>12. CASE WbSend
    BY <1>12, SendStep
  <1>13. CASE Land
    BY <1>13, LandStep
  <1>14. CASE UNCHANGED vars
    <2>1. /\ UNCHANGED <<descVars, drvVars, wbVars, memVars, chan>>
      BY <1>14 DEF vars
    <2>2. RingInv' /\ NoOverflow' /\ DescTypeOK' /\ RamOcc' = RamOcc
          /\ FtOcc' = FtOcc /\ limit' = limit
      BY <2>1, DescFrame
    <2>3. TypeOK' /\ pc' # "cfg"
      BY <2>1, <2>2 DEF CreditInv, TypeOK, drvVars, wbVars, memVars
    <2>4. DriverInv' /\ LimitInv' /\ ChainInv'
      BY <2>1, <2>2 DEF CreditInv, DriverInv, LimitInv, ChainInv, Poked, Chunk,
                        drvVars, wbVars, memVars
    <2> QED BY <2>2, <2>3, <2>4 DEF CreditInv
  <1> QED BY <1>1, <1>2, <1>3, <1>4, <1>5, <1>6, <1>7, <1>8, <1>9, <1>10, <1>11,
             <1>12, <1>13, <1>14 DEF Next, Driver, Card

\* What the invariant says in the terms of the driver and the card.
LEMMA CreditInvImplies ==
    ASSUME CreditInv
    PROVE  TypeOK /\ NoOverflow /\ WaitMeansCredit /\ HostNeverAhead
  <1>1. WaitMeansCredit
    <2> SUFFICES ASSUME pc = "post" PROVE num - (posted + inChunk) <= Room
      BY DEF WaitMeansCredit
    <2>1. /\ SubW(limit, drvConsumed) + RamOcc + FtOcc + Len(chan)
               <= Depth + (posted + inChunk)
          /\ num <= SubW(limit, drvConsumed)
      BY Promised DEF CreditInv, LimitInv, Poked
    <2>2. /\ SubW(limit, drvConsumed) \in Int /\ RamOcc \in Int /\ FtOcc \in Int
          /\ Len(chan) \in Int /\ Depth \in Int /\ num \in Int
          /\ posted \in Int /\ inChunk \in Int
      BY Types, DepthAssumption
    <2> DEFINE l == SubW(limit, drvConsumed)  n == Len(chan)
    <2> HIDE DEF l, n
    <2>3. /\ l + RamOcc + FtOcc + n <= Depth + (posted + inChunk) /\ num <= l
          /\ l \in Int /\ n \in Int
      BY <2>1, <2>2 DEF l, n
    <2>4. num - (posted + inChunk) <= Depth - RamOcc - FtOcc - n
      BY <2>2, <2>3
    <2> QED BY <2>4 DEF Room, n
  <1>2. HostNeverAhead
    BY DEF CreditInv, ChainInv, Chain, HostNeverAhead
  <1> QED BY <1>1, <1>2 DEF CreditInv

\* The invariant holds in every reachable state.
LEMMA CreditInvariant ==
    ASSUME ReCfg = FALSE
    PROVE  Spec => []CreditInv
  <1>1. Init => CreditInv
    BY CreditInvInit
  <1>2. CreditInv /\ [Next]_vars => CreditInv'
    BY CreditInvNext
  <1> QED BY <1>1, <1>2, PTL DEF Spec

\* In every configuration in which the SDE is not reset in mid-life, driver,
\* PCIe paths and card keep their shapes: no path holds more than it can, and
\* every copy of a counter stays 32 bits wide.
THEOREM CreditTypes ==
    ASSUME ReCfg = FALSE
    PROVE  Spec => []TypeOK
  <1> QED BY CreditInvImplies, CreditInvariant, PTL

\* A descriptor RAM that nothing holds back (sde_desc.sv) never overflows
\* behind the driver library, across roll-over, coalesced and queued status
\* writes, and failed pokes.
THEOREM CreditNoOverflow ==
    ASSUME ReCfg = FALSE
    PROVE  Spec => []NoOverflow
  <1> QED BY CreditInvImplies, CreditInvariant, PTL

\* sde_mgmt_wait_desc_credit never succeeds without that much room on the card.
THEOREM CreditSafe ==
    ASSUME ReCfg = FALSE
    PROVE  Spec => []WaitMeansCredit
  <1> QED BY CreditInvImplies, CreditInvariant, PTL

\* The limit that sde_wb.sv leaves in host memory, or has on its way there, is
\* never ahead of the card's.
THEOREM HostIsNeverAhead ==
    ASSUME ReCfg = FALSE
    PROVE  Spec => []HostNeverAhead
  <1> QED BY CreditInvImplies, CreditInvariant, PTL

\* The limit sde_mgmt_wait_desc_credit polls never moves backwards and never
\* by more than a ring's worth at a time, so that its unsigned difference to
\* the driver's count is meaningful.
THEOREM HostLimitMovesForward ==
    ASSUME ReCfg = FALSE
    PROVE  Spec => HostLimitForward
  <1>1. Init => CreditInv
    BY CreditInvInit
  <1>2. CreditInv /\ [Next]_vars => CreditInv'
    BY CreditInvNext
  <1>3. CreditInv /\ [Next]_vars => [SubW(hostLimit', hostLimit) <= Depth]_vars
    <2> SUFFICES ASSUME CreditInv, Next
                 PROVE  SubW(hostLimit', hostLimit) <= Depth
      OBVIOUS
    <2>1. CASE Land
      <3> DEFINE h == SubW(hostLimit, drvConsumed)
                 k == SubW(hostLimit', drvConsumed)
                 l == SubW(limit, drvConsumed)
      <3>1. h <= k /\ k <= l /\ CreditInv'
        BY <2>1, LandStep
      <3>2. hostLimit' \in Cnt
        BY <3>1, Types DEF CreditInv, TypeOK, Cnt
      <3>3. SubW(hostLimit', hostLimit) = k - h
        BY <3>1, <3>2, Types, SubBetween
      <3>4. l - h <= Depth
        <4>1. h \in Int /\ l \in Int /\ Poked \in Int /\ Depth \in Int
          BY Types, Promised, DepthAssumption
        <4>2. Poked <= h
          BY Types, Promised DEF Poked, CreditInv, DriverInv
        <4>3. l <= Depth + Poked
          <5>1. l + RamOcc + FtOcc + Len(chan) <= Depth + Poked
            BY DEF CreditInv, LimitInv
          <5> HIDE DEF l
          <5> QED BY <5>1, <4>1, Types
        <4> HIDE DEF h, l
        <4> QED BY <4>1, <4>2, <4>3
      <3>5. h \in Int /\ k \in Int /\ l \in Int /\ Depth \in Int
        BY <3>2, Types, SubRange, DepthAssumption
      <3> HIDE DEF h, k, l
      <3> QED BY <3>1, <3>3, <3>4, <3>5
    <2>2. CASE ~Land
      <3>1. hostLimit' = hostLimit
        BY <2>2 DEF Next, Driver, Card, BeginPost, WaitOk, WaitTimeout, Poke,
             PostDone, PokeFail, Reset, Cfg, Arrive, DmPop, ArrivePop, HwTick,
             WbTimer, WbStart, WbLatch, WbSend, WbBresp, memVars, CreditInv
      <3>2. SubW(hostLimit, hostLimit) = 0
        BY Types, WAssumption DEF SubW, Cnt
      <3> QED BY <3>1, <3>2, DepthAssumption
    <2> QED BY <2>1, <2>2
  <1> QED BY <1>1, <1>2, <1>3, PTL DEF Spec, HostLimitForward
=============================================================================
