--------------------------- MODULE SdeDescProofs ---------------------------
(***************************************************************************)
(* Proofs about the descriptor block, for every ring depth, counter width  *)
(* and set of descriptors.  The inductive invariant is DescInv; one clock  *)
(* (DescClock) preserves it whatever the data mover does, as long as a     *)
(* descriptor is only written when the ring and the flow-through FIFO      *)
(* together hold fewer than Depth.                                         *)
(***************************************************************************)
EXTENDS SdeDesc, Integers, SequenceTheorems, TLAPS

\* How far slot s is behind the oldest descriptor in the ring.
Dist(s) == IF Slot(rdPtr) <= s THEN s - Slot(rdPtr) ELSE s + Depth - Slot(rdPtr)

\* Every slot between the pointers holds a descriptor, and so does the RAM's
\* read port while a fetched word is on it.
SlotsValid == /\ \A s \in 0..(Depth - 1) : Dist(s) < RamOcc => ram[s] # None
              /\ ramPopQ => rdata # None

RingInv == DescTypeOK /\ RamOcc \in 0..Depth /\ FlagsExact /\ SlotsValid
                      /\ FtNeverOverrun

DescInv == RingInv /\ CreditsExact /\ NoOverflow

B2N(b) == IF b THEN 1 ELSE 0

\* The pointers differ by at most one lap, and the difference moves by one for
\* each write and each fetch.
LEMMA OccStep ==
    ASSUME DescTypeOK, RamOcc \in 0..Depth,
           NEW wr \in Entry \cup {None}, NEW fetch \in BOOLEAN,
           fetch => RamOcc > 0,
           wr # None => RamOcc < Depth \/ fetch,
           wrPtr' = (IF wr # None THEN PtrNext(wrPtr) ELSE wrPtr),
           rdPtr' = (IF fetch THEN PtrNext(rdPtr) ELSE rdPtr)
    PROVE  /\ wrPtr' \in 0..(2 * Depth - 1)
           /\ rdPtr' \in 0..(2 * Depth - 1)
           /\ RamOcc' = RamOcc + B2N(wr # None) - B2N(fetch)
           /\ RamOcc' \in 0..Depth
  BY DepthAssumption DEF DescTypeOK, RamOcc, PtrNext, B2N

\* The flow-through FIFO holds at most two words, counting the one on the RAM's
\* read port, keeps its head in ft0, and gains one for each fetch and loses one
\* for each pop.
LEMMA FtStep ==
    ASSUME DescTypeOK, SlotsValid, FtNeverOverrun,
           NEW pop \in BOOLEAN, pop => ft0 # None,
           FtClock(pop), RamPop(pop) \in BOOLEAN, ramPopQ' = RamPop(pop)
    PROVE  /\ ft0' \in Entry \cup {None} /\ ft1' \in Entry \cup {None}
           /\ FtOcc' = FtOcc + B2N(RamPop(pop)) - B2N(pop)
           /\ FtNeverOverrun'
  BY NoneAssumption
     DEF DescTypeOK, SlotsValid, FtNeverOverrun, FtOcc, FtClock, RamPop, B2N

\* The empty and full flops follow the pointers.
LEMMA FlagsStep ==
    ASSUME DescTypeOK, RamOcc \in 0..Depth, FlagsExact,
           NEW wr \in Entry \cup {None}, NEW fetch \in BOOLEAN,
           fetch => RamOcc > 0,
           wr # None => RamOcc < Depth \/ fetch,
           wrPtr' = (IF wr # None THEN PtrNext(wrPtr) ELSE wrPtr),
           rdPtr' = (IF fetch THEN PtrNext(rdPtr) ELSE rdPtr),
           FlagsClock(wr, fetch)
    PROVE  FlagsExact' /\ ramEmpty' \in BOOLEAN /\ ramFull' \in BOOLEAN
  <1>0. RamOcc \in 0..Depth
    BY DepthAssumption DEF DescTypeOK, RamOcc
  <1>1. /\ RamOcc' = RamOcc + B2N(wr # None) - B2N(fetch)
        /\ RamOcc' \in 0..Depth
        /\ wrPtr' \in 0..(2 * Depth - 1) /\ rdPtr' \in 0..(2 * Depth - 1)
    BY OccStep
  <1>2. CASE wr # None /\ ~fetch
    <2>1. ~ramEmpty' /\ RamOcc' > 0
      BY <1>0, <1>1, <1>2, DepthAssumption DEF FlagsClock, B2N
    <2>2. ramFull' <=> RamOcc' = Depth
      BY <1>1, <1>2, DepthAssumption
         DEF FlagsClock, RamOcc, PtrNext, Slot, DescTypeOK
    <2>3. ramFull' \in BOOLEAN
      BY <1>2 DEF FlagsClock
    <2> QED BY <2>1, <2>2, <2>3, <1>2 DEF FlagsExact, FlagsClock
  <1>3. CASE wr = None /\ fetch
    <2>1. ~ramFull' /\ RamOcc' < Depth
      BY <1>0, <1>1, <1>3, DepthAssumption DEF FlagsClock, B2N
    <2>0. ramEmpty' = (wrPtr = PtrNext(rdPtr)) /\ ramFull' = FALSE
      BY <1>3 DEF FlagsClock
    <2>2. (wrPtr = PtrNext(rdPtr)) <=> RamOcc' = 0
      BY <1>1, <1>3, DepthAssumption DEF RamOcc, PtrNext, DescTypeOK
    <2>3. ramEmpty' \in BOOLEAN /\ ramFull' \in BOOLEAN
      BY <2>0
    <2>4. ramEmpty' <=> RamOcc' = 0
      BY <2>0, <2>2
    <2>5. ~ramFull' /\ RamOcc' # Depth
      BY <2>1, <1>1, DepthAssumption
    <2> QED BY <2>3, <2>4, <2>5 DEF FlagsExact
  <1>4. CASE (wr # None) = fetch
    <2>1. RamOcc' = RamOcc
      BY <1>0, <1>1, <1>4, DepthAssumption DEF B2N
    <2>2. ramEmpty' = ramEmpty /\ ramFull' = ramFull
      BY <1>4 DEF FlagsClock
    <2> QED BY <2>1, <2>2 DEF FlagsExact, DescTypeOK
  <1> QED BY <1>2, <1>3, <1>4

\* A write fills the slot behind the newest descriptor, a fetch empties the
\* oldest: the slots between the pointers stay valid.
LEMMA SlotsStep ==
    ASSUME DescTypeOK, RamOcc \in 0..Depth, SlotsValid,
           NEW wr \in Entry \cup {None}, NEW fetch \in BOOLEAN,
           fetch => RamOcc > 0,
           wr # None => RamOcc < Depth,
           RamWrite(wr), RamRead(fetch)
    PROVE  /\ ram' \in [0..(Depth - 1) -> Entry \cup {None}]
           /\ rdata' \in Entry \cup {None}
           /\ SlotsValid'
  <1> DEFINE S == 0..(Depth - 1)
  <1>1. /\ Slot(wrPtr) \in S /\ Slot(rdPtr) \in S
        /\ wrPtr \in 0..(2 * Depth - 1) /\ rdPtr \in 0..(2 * Depth - 1)
        /\ RamOcc \in 0..Depth
    BY DepthAssumption DEF DescTypeOK, Slot, RamOcc
  <1>2. /\ RamOcc' = RamOcc + B2N(wr # None) - B2N(fetch)
        /\ RamOcc' \in 0..Depth
        /\ wrPtr' \in 0..(2 * Depth - 1) /\ rdPtr' \in 0..(2 * Depth - 1)
    BY OccStep DEF RamWrite, RamRead
  <1>3. ram' \in [S -> Entry \cup {None}]
    BY <1>1 DEF RamWrite, DescTypeOK
  <1>4. fetch => ram[Slot(rdPtr)] # None
    BY <1>1, DepthAssumption DEF SlotsValid, Dist
  <1>5. /\ rdata' \in Entry \cup {None}
        /\ ramPopQ' => rdata' # None
    BY <1>1, <1>4 DEF RamRead, DescTypeOK
  <1>6. ASSUME NEW s \in S, Dist(s)' < RamOcc'
        PROVE  ram'[s] # None
    <2>1. CASE wr # None /\ s = Slot(wrPtr)
      BY <2>1, <1>1 DEF RamWrite, DescTypeOK
    <2>2. CASE ~(wr # None /\ s = Slot(wrPtr))
      <3>1. ram'[s] = ram[s]
        BY <2>2, <1>1 DEF RamWrite, DescTypeOK
      <3>2. Dist(s) < RamOcc
        <4>1. CASE fetch
          BY <4>1, <2>2, <1>1, <1>2, <1>6, DepthAssumption
             DEF RamRead, RamWrite, Dist, RamOcc, Slot, PtrNext, B2N
        <4>2. CASE ~fetch
          BY <4>2, <2>2, <1>1, <1>2, <1>6, DepthAssumption
             DEF RamRead, RamWrite, Dist, RamOcc, Slot, PtrNext, B2N
        <4> QED BY <4>1, <4>2
      <3> QED BY <3>1, <3>2 DEF SlotsValid
    <2> QED BY <2>1, <2>2
  <1> QED BY <1>3, <1>5, <1>6 DEF SlotsValid

\* One clock preserves the ring part of the invariant, moves the number of
\* descriptors in the block by the write and the pop, and raises no overflow.
LEMMA RingStep ==
    ASSUME RingInv, NEW wr \in Entry \cup {None}, NEW pop \in BOOLEAN,
           wr # None => RamOcc + FtOcc < Depth,
           DescClock(wr, pop)
    PROVE  /\ RingInv'
           /\ RamOcc' + FtOcc' = RamOcc + FtOcc + B2N(wr # None) - B2N(pop)
           /\ oflow' = oflow
  <1> DEFINE fetch == RamPop(pop)
  <1>1. fetch \in BOOLEAN /\ (fetch => RamOcc > 0)
    BY DepthAssumption DEF RamPop, RingInv, FlagsExact, DescTypeOK
  <1>2. FtOcc \in 0..2 /\ RamOcc \in 0..Depth
    BY DEF RingInv, FtNeverOverrun, FtOcc
  <1>3. wr # None => RamOcc < Depth
    BY <1>2, DepthAssumption
  <1>4. /\ RamOcc' = RamOcc + B2N(wr # None) - B2N(fetch)
        /\ RamOcc' \in 0..Depth
        /\ wrPtr' \in 0..(2 * Depth - 1) /\ rdPtr' \in 0..(2 * Depth - 1)
    BY <1>1, <1>3, OccStep DEF RingInv, DescClock, RamWrite, RamRead
  <1>5. /\ ft0' \in Entry \cup {None} /\ ft1' \in Entry \cup {None}
        /\ FtOcc' = FtOcc + B2N(fetch) - B2N(pop)
        /\ FtNeverOverrun'
    BY <1>1, FtStep DEF RingInv, DescClock, RamRead
  <1>6. FlagsExact' /\ ramEmpty' \in BOOLEAN /\ ramFull' \in BOOLEAN
    BY <1>1, <1>3, FlagsStep DEF RingInv, DescClock, RamWrite, RamRead
  <1>7. /\ ram' \in [0..(Depth - 1) -> Entry \cup {None}]
        /\ rdata' \in Entry \cup {None}
        /\ SlotsValid'
    BY <1>1, <1>3, SlotsStep DEF RingInv, DescClock
  <1>8. oflow' = oflow
    <2>1. ramFull => wr = None
      BY <1>2, <1>3, DepthAssumption DEF RingInv, FlagsExact
    <2> QED BY <2>1 DEF DescClock, RamWrite, RingInv, DescTypeOK
  <1>9. consumed' \in 0..(W - 1) /\ limit' \in 0..(W - 1)
    BY WAssumption DEF RingInv, DescTypeOK, DescClock, CreditClock, AddW
  <1>10. ramPopQ' \in BOOLEAN /\ oflow' \in BOOLEAN
    BY <1>1, <1>8 DEF DescClock, RamRead, RingInv, DescTypeOK
  <1>11. RingInv'
    BY <1>4, <1>5, <1>6, <1>7, <1>9, <1>10 DEF RingInv, DescTypeOK
  <1>12. RamOcc' + FtOcc' = RamOcc + FtOcc + B2N(wr # None) - B2N(pop)
    BY <1>2, <1>4, <1>5, <1>1 DEF B2N
  <1> QED BY <1>8, <1>11, <1>12

\* The credit counters move with the descriptors in the block.
LEMMA CreditStep ==
    ASSUME RingInv, CreditsExact,
           NEW wr \in Entry \cup {None}, NEW pop \in BOOLEAN,
           wr # None => RamOcc + FtOcc < Depth,
           DescClock(wr, pop)
    PROVE  CreditsExact'
  <1>1. RamOcc' + FtOcc' = RamOcc + FtOcc + B2N(wr # None) - B2N(pop)
    BY RingStep
  <1>0. RingInv'
    BY RingStep
  <1>2. /\ RamOcc \in Nat /\ FtOcc \in Nat /\ RamOcc' \in Nat /\ FtOcc' \in Nat
        /\ pop => FtOcc > 0
    <2>1. RamOcc \in Nat
      BY DepthAssumption DEF RingInv
    <2>2. RamOcc' \in Nat
      BY <1>0, DepthAssumption DEF RingInv
    <2>3. FtOcc \in Nat /\ FtOcc' \in Nat
      BY DEF FtOcc
    <2>4. pop => FtOcc > 0
      BY DEF FtOcc, DescClock
    <2> QED BY <2>1, <2>2, <2>3, <2>4
  <1>3. consumed \in 0..(W - 1) /\ limit \in 0..(W - 1)
    BY DEF RingInv, DescTypeOK
  <1>4. SubW(limit, consumed) \in Nat
    BY <1>3, WAssumption DEF SubW
  <1>5. SubW(limit, consumed)' = SubW(limit, consumed) + B2N(pop) - B2N(wr # None)
    BY <1>2, <1>3, WAssumption, DepthAssumption
       DEF DescClock, CreditClock, CreditsExact, AddW, SubW, B2N
  <1>6. B2N(pop) \in Int /\ B2N(wr # None) \in Int
    BY DEF B2N
  <1>7. SubW(limit, consumed) + RamOcc + FtOcc = Depth
    BY DEF CreditsExact
  <1>8. SubW(limit, consumed)' + (RamOcc' + FtOcc') = Depth
    BY <1>1, <1>2, <1>4, <1>5, <1>6, <1>7, DepthAssumption
  <1>9. SubW(limit, consumed)' \in Int
    BY <1>4, <1>5, <1>6
  <1>10. SubW(limit, consumed)' + RamOcc' + FtOcc' = Depth
    BY <1>2, <1>8, <1>9
  <1> QED BY <1>10 DEF CreditsExact

\* The reset state of the block satisfies the invariant.
LEMMA DescInvInit == DescInit => DescInv
  <1> SUFFICES ASSUME DescInit PROVE DescInv
    OBVIOUS
  <1>1. RamOcc = 0 /\ FtOcc = 0
    BY DEF DescInit, RamOcc, FtOcc
  <1>2. DescTypeOK
    <2>1. ram \in [0..(Depth - 1) -> Entry \cup {None}]
      BY DEF DescInit
    <2>2. Depth \in 0..(W - 1) /\ 0 \in 0..(W - 1) /\ 0 \in 0..(2 * Depth - 1)
      BY DepthAssumption, WAssumption
    <2> QED BY <2>1, <2>2 DEF DescInit, DescTypeOK
  <1>3. FlagsExact /\ FtNeverOverrun /\ NoOverflow
    BY <1>1, DepthAssumption DEF DescInit, FlagsExact, FtNeverOverrun, NoOverflow
  <1>4. SlotsValid
    BY <1>1, DepthAssumption DEF SlotsValid, Dist, Slot, DescInit
  <1>5. CreditsExact
    BY <1>1, DepthAssumption DEF CreditsExact, SubW, DescInit
  <1> QED BY <1>1, <1>2, <1>3, <1>4, <1>5, DepthAssumption DEF DescInv, RingInv

\* A credit is room for a descriptor.
LEMMA RoomForWrite ==
    ASSUME DescInv, SubW(limit, consumed) > 0
    PROVE  RamOcc + FtOcc < Depth
  <1>1. SubW(limit, consumed) \in Nat /\ RamOcc \in Nat /\ FtOcc \in Nat
    BY DepthAssumption, WAssumption
       DEF DescInv, RingInv, DescTypeOK, SubW, RamOcc, FtOcc
  <1> QED BY <1>1, DepthAssumption DEF DescInv, CreditsExact

\* The invariant holds in every reachable state.
LEMMA DescInvariant == DescSpec => []DescInv
  <1>1. DescInit => DescInv
    BY DescInvInit
  <1>2. DescInv /\ [DescNext]_descVars => DescInv'
    <2> SUFFICES ASSUME DescInv, [DescNext]_descVars PROVE DescInv'
      OBVIOUS
    <2>1. ASSUME NEW wr \in Entry \cup {None}, NEW pop \in BOOLEAN,
                 wr # None => SubW(limit, consumed) > 0,
                 DescClock(wr, pop)
          PROVE  DescInv'
      <3>1. wr # None => RamOcc + FtOcc < Depth
        BY <2>1, RoomForWrite
      <3>2. RingInv' /\ oflow' = oflow
        BY <2>1, <3>1, RingStep DEF DescInv
      <3>3. CreditsExact'
        BY <2>1, <3>1, CreditStep DEF DescInv
      <3> QED BY <3>2, <3>3 DEF DescInv, NoOverflow
    <2>2. ASSUME NEW d \in Entry, Write(d) PROVE DescInv'
      BY <2>1, <2>2 DEF Write
    <2>3. ASSUME NEW d \in Entry, WritePop(d) PROVE DescInv'
      BY <2>1, <2>3 DEF WritePop
    <2>4. CASE Pop
      BY <2>1, <2>4 DEF Pop
    <2>5. CASE Tick
      BY <2>1, <2>5 DEF Tick
    <2>6. CASE UNCHANGED descVars
      BY <2>6 DEF descVars, DescInv, RingInv, DescTypeOK, RamOcc, FtOcc,
                  FlagsExact, SlotsValid, Dist, FtNeverOverrun, CreditsExact,
                  NoOverflow
    <2> QED BY <2>2, <2>3, <2>4, <2>5, <2>6 DEF DescNext
  <1> QED BY <1>1, <1>2, PTL DEF DescSpec

\* The pointers stay on the ring, its slots and the flops hold descriptors or
\* nothing, and the counters stay 32 bits wide (sde_desc.sv).
THEOREM DescTypes == DescSpec => []DescTypeOK
  <1>1. DescInv => DescTypeOK
    BY DEF DescInv, RingInv
  <1> QED BY <1>1, DescInvariant, PTL

\* The registered empty and full flops agree with the pointers, and a word
\* fetched from the RAM always has a flop to go to (sde_desc.sv, ft_fifo.v).
THEOREM DescBlockCorrect == DescSpec => [](FlagsExact /\ FtNeverOverrun)
  <1>1. DescInv => FlagsExact /\ FtNeverOverrun
    BY DEF DescInv, RingInv
  <1> QED BY <1>1, DescInvariant, PTL

\* For every depth and counter width, the two counters the driver reads tell
\* exactly how much room the block has (sde_desc.sv's cdt_consumed, cdt_limit).
THEOREM CreditsAreExact == DescSpec => []CreditsExact
  <1>1. DescInv => CreditsExact
    BY DEF DescInv
  <1> QED BY <1>1, DescInvariant, PTL

\* A writer that honours the credits never writes to a full RAM, which nothing
\* in sde_desc.sv would hold back.
THEOREM RamNeverOverflows == DescSpec => []NoOverflow
  <1>1. DescInv => NoOverflow
    BY DEF DescInv
  <1> QED BY <1>1, DescInvariant, PTL

----------------------------------------------------------------------------
(* The refinement of BoundedFifo.  Contents is looked at cell by cell: the *)
(* flow-through FIFO's two words, then the ring from the read pointer on.  *)
(* A pop moves every cell one place down, across the border between the    *)
(* two if the clock also fetches; a write adds the last.                   *)

First  == IF ft0 # None THEN ft0 ELSE rdata
Second == IF ft1 # None THEN ft1 ELSE rdata
RingCell == [k \in Int |-> ram[Slot(Slot(rdPtr) + k - 1)]]
Cell(k) == IF k <= FtOcc THEN IF k = 1 THEN First ELSE Second
           ELSE RingCell[k - FtOcc]

\* The words past the RAM's read port, oldest first.
LEMMA StagedCells ==
    ASSUME RingInv
    PROVE  /\ Staged \in Seq(Entry) /\ Len(Staged) = FtOcc /\ FtOcc \in 0..2
           /\ \A k \in 1..FtOcc : Staged[k] = IF k = 1 THEN First ELSE Second
  <1> DEFINE r == IF ramPopQ THEN rdata ELSE None
  <1>1. ft0 \in Entry \cup {None} /\ ft1 \in Entry \cup {None} /\ r \in Entry \cup {None}
    BY DEF RingInv, DescTypeOK
  <1>2. /\ ramPopQ => rdata # None
        /\ FtOcc <= 2 /\ (ft1 # None => ft0 # None)
    BY DEF RingInv, SlotsValid, FtNeverOverrun
  <1>3. ASSUME NEW e \in Entry \cup {None}
        PROVE  /\ Opt(e) \in Seq(Entry)
               /\ Len(Opt(e)) = IF e # None THEN 1 ELSE 0
               /\ e # None => Opt(e)[1] = e
    BY <1>3 DEF Opt
  <1> DEFINE a == Opt(ft0) \o Opt(ft1)
  <1>4. /\ a \in Seq(Entry)
        /\ Len(a) = Len(Opt(ft0)) + Len(Opt(ft1))
        /\ \A i \in 1..(Len(Opt(ft0)) + Len(Opt(ft1))) :
              a[i] = IF i <= Len(Opt(ft0)) THEN Opt(ft0)[i]
                     ELSE Opt(ft1)[i - Len(Opt(ft0))]
    BY <1>1, <1>3, ConcatProperties
  <1>5. /\ a \o Opt(r) \in Seq(Entry)
        /\ Len(a \o Opt(r)) = Len(a) + Len(Opt(r))
        /\ \A i \in 1..(Len(a) + Len(Opt(r))) :
              (a \o Opt(r))[i] = IF i <= Len(a) THEN a[i]
                                 ELSE Opt(r)[i - Len(a)]
    BY <1>1, <1>3, <1>4, ConcatProperties
  <1>6. Len(a \o Opt(r)) = FtOcc /\ FtOcc \in 0..2
    <2>1. Len(a \o Opt(r)) = Len(Opt(ft0)) + Len(Opt(ft1)) + Len(Opt(r))
      BY <1>4, <1>5
    <2>2. /\ Len(Opt(ft0)) = IF ft0 # None THEN 1 ELSE 0
          /\ Len(Opt(ft1)) = IF ft1 # None THEN 1 ELSE 0
          /\ Len(Opt(r)) = IF ramPopQ THEN 1 ELSE 0
      BY <1>1, <1>2, <1>3
    <2>3. FtOcc \in 0..2
      BY <1>2 DEF FtOcc
    <2> HIDE DEF a, r
    <2> QED BY <2>1, <2>2, <2>3 DEF FtOcc
  <1>7. ASSUME NEW k \in 1..FtOcc
        PROVE  (a \o Opt(r))[k] = IF k = 1 THEN First ELSE Second
    <2>1. k = 1 \/ k = 2
      BY <1>6
    <2>2. CASE ft0 = None
      BY <1>1, <1>2, <1>3, <1>4, <1>5, <1>6, <2>1, <2>2 DEF First, FtOcc
    <2>3. CASE ft0 # None
      <3>1. CASE k = 1
        BY <1>1, <1>3, <1>4, <1>5, <1>6, <2>3, <3>1 DEF First
      <3>2. CASE k = 2 /\ ft1 # None
        BY <1>1, <1>3, <1>4, <1>5, <1>6, <2>3, <3>2 DEF Second
      <3>3. CASE k = 2 /\ ft1 = None
        BY <1>1, <1>2, <1>3, <1>4, <1>5, <1>6, <2>3, <3>3 DEF Second, FtOcc
      <3> QED BY <2>1, <3>1, <3>2, <3>3
    <2> QED BY <2>2, <2>3
  <1> QED BY <1>5, <1>6, <1>7 DEF Staged

\* The FIFO's contents, cell by cell.
LEMMA ContentsCells ==
    ASSUME RingInv
    PROVE  /\ Contents \in Seq(Entry)
           /\ Len(Contents) = FtOcc + RamOcc
           /\ FtOcc \in 0..2 /\ RamOcc \in 0..Depth
           /\ \A k \in 1..(FtOcc + RamOcc) : Contents[k] = Cell(k)
  <1>1. RamOcc \in 0..Depth /\ RamOcc \in Nat
    BY DepthAssumption DEF RingInv
  <1>2. ASSUME NEW k \in 1..RamOcc PROVE RingCell[k] \in Entry
    <2> DEFINE x == Slot(Slot(rdPtr) + k - 1)
    <2>1. x \in 0..(Depth - 1) /\ Dist(x) < RamOcc
      BY <1>1, DepthAssumption DEF RingInv, DescTypeOK, Slot, Dist
    <2>2. ram[x] \in Entry \cup {None} /\ ram[x] # None
      BY <2>1 DEF RingInv, DescTypeOK, SlotsValid
    <2> QED BY <2>2 DEF RingCell
  <1>3. InRam = [k \in 1..RamOcc |-> RingCell[k]]
    BY <1>1, DepthAssumption DEF InRam, RingCell
  <1>4. /\ InRam \in Seq(Entry) /\ Len(InRam) = RamOcc
        /\ \A k \in 1..RamOcc : InRam[k] = RingCell[k]
    BY <1>1, <1>2, <1>3
  <1>5. /\ Staged \in Seq(Entry) /\ Len(Staged) = FtOcc /\ FtOcc \in 0..2
        /\ \A k \in 1..FtOcc : Staged[k] = IF k = 1 THEN First ELSE Second
    BY StagedCells
  <1>6. /\ Staged \o InRam \in Seq(Entry)
        /\ Len(Staged \o InRam) = FtOcc + RamOcc
        /\ \A k \in 1..(FtOcc + RamOcc) :
              (Staged \o InRam)[k] = IF k <= FtOcc THEN Staged[k]
                                     ELSE InRam[k - FtOcc]
    BY <1>4, <1>5, ConcatProperties
  <1>7. ASSUME NEW k \in 1..(FtOcc + RamOcc)
        PROVE  (Staged \o InRam)[k] = Cell(k)
    <2>1. CASE k <= FtOcc
      BY <1>1, <1>5, <1>6, <2>1 DEF Cell
    <2>2. CASE k > FtOcc
      <3>1. k - FtOcc \in 1..RamOcc /\ ~(k <= FtOcc)
        BY <1>1, <1>5, <2>2
      <3> QED BY <1>4, <1>6, <3>1 DEF Cell
    <2>3. k <= FtOcc \/ k > FtOcc
      <3>1. k \in Int /\ FtOcc \in Int
        BY <1>1, <1>5
      <3> QED BY <3>1
    <2> QED BY <2>1, <2>2, <2>3
  <1> QED BY <1>1, <1>5, <1>6, <1>7 DEF Contents

\* The same in the state after a step.
LEMMA ContentsCellsNext ==
    RingInv' => /\ Contents' \in Seq(Entry)
                /\ Len(Contents') = FtOcc' + RamOcc'
                /\ FtOcc' \in 0..2 /\ RamOcc' \in 0..Depth
                /\ \A k \in 1..(FtOcc' + RamOcc') : Contents'[k] = Cell(k)'
  <1> DEFINE C == /\ Contents \in Seq(Entry)
                  /\ Len(Contents) = FtOcc + RamOcc
                  /\ FtOcc \in 0..2 /\ RamOcc \in 0..Depth
                  /\ \A k \in 1..(FtOcc + RamOcc) : Contents[k] = Cell(k)
  <1>1. RingInv => C
    BY ContentsCells
  <1> HIDE DEF C
  <1>2. RingInv' => C'
    BY <1>1, PTL
  <1> QED BY <1>2 DEF C

\* The flow-through FIFO's part of a clock: its words move down by the pop, and
\* the one that fills the gap comes from the head of the ring.
LEMMA StagedStep ==
    ASSUME RingInv, NEW pop \in BOOLEAN, pop => ft0 # None,
           FtClock(pop), RamRead(RamPop(pop)),
           NEW p \in 0..1, p = B2N(pop), NEW k \in 1..FtOcc'
    PROVE  (IF k = 1 THEN First' ELSE Second') =
              IF k + p <= FtOcc
              THEN IF k + p = 1 THEN First ELSE Second
              ELSE RingCell[1]
  <1>1. /\ ft1 # None => ft0 # None
        /\ ramPopQ \in BOOLEAN /\ RamPop(pop) \in BOOLEAN
        /\ FtOcc = (IF ramPopQ THEN 1 ELSE 0) + (IF ft0 # None THEN 1 ELSE 0)
                     + (IF ft1 # None THEN 1 ELSE 0)
        /\ FtOcc <= 2
        /\ ramPopQ => rdata # None
    BY DEF RingInv, DescTypeOK, FtNeverOverrun, SlotsValid, RamPop, FtOcc
  <1>2. /\ RamPop(pop) => /\ ft1 = None \/ pop
                          /\ ft0 = None \/ ~ramPopQ \/ pop
        /\ ramPopQ' = RamPop(pop)
        /\ RamPop(pop) => rdata' = RingCell[1]
    <2>1. rdPtr \in 0..(2 * Depth - 1)
      BY DEF RingInv, DescTypeOK
    <2>2. Slot(Slot(rdPtr) + 1 - 1) = Slot(rdPtr)
      BY <2>1, DepthAssumption DEF Slot
    <2> QED BY <2>2 DEF RamPop, RamRead, RingCell
  <1>3. FtOcc' = FtOcc + B2N(RamPop(pop)) - B2N(pop)
    BY <1>1, FtStep DEF RingInv, RamRead
  <1>4. CASE ~pop
    BY <1>1, <1>2, <1>3, <1>4 DEF FtClock, First, Second, B2N
  <1>5. CASE pop
    <2>1. /\ B2N(pop) = 1 /\ ft0 # None
          /\ ft1' = None
          /\ ft0' = IF ramPopQ THEN (IF ft1 # None THEN ft1 ELSE rdata) ELSE ft1
      BY <1>1, <1>5 DEF FtClock, B2N
    <2>2. CASE RamPop(pop)
      BY <1>1, <1>2, <1>3, <2>1, <2>2 DEF First, Second, B2N
    <2>3. CASE ~RamPop(pop)
      BY <1>1, <1>2, <1>3, <2>1, <2>3 DEF First, Second, B2N
    <2> QED BY <2>2, <2>3
  <1> QED BY <1>4, <1>5

\* The ring's part: a fetch moves the read pointer, and a write fills the slot
\* behind the last.
LEMMA RingCellStep ==
    ASSUME RingInv, NEW wr \in Entry \cup {None}, NEW fetch \in BOOLEAN,
           fetch => RamOcc > 0, wr # None => RamOcc < Depth,
           RamWrite(wr), RamRead(fetch),
           NEW c \in 0..1, c = B2N(fetch), NEW j \in 1..RamOcc'
    PROVE  RingCell'[j] = IF j <= RamOcc - c THEN RingCell[j + c] ELSE wr
  <1> DEFINE x == Slot(Slot(rdPtr) + (j + c) - 1)
  <1>1. /\ wrPtr \in 0..(2 * Depth - 1) /\ rdPtr \in 0..(2 * Depth - 1)
        /\ RamOcc \in 0..Depth /\ ram \in [0..(Depth - 1) -> Entry \cup {None}]
    BY DEF RingInv, DescTypeOK
  <1>2. /\ RamOcc' = RamOcc + B2N(wr # None) - B2N(fetch)
        /\ RamOcc' \in 0..Depth
    BY OccStep DEF RingInv, RamWrite, RamRead
  <1>3. Slot(Slot(rdPtr') + j - 1) = x
    BY <1>1, <1>2, DepthAssumption DEF RamRead, Slot, PtrNext, B2N
  <1>4. x \in 0..(Depth - 1)
    BY <1>1, <1>2, DepthAssumption DEF Slot, B2N
  <1>5. j <= RamOcc - c /\ wr # None => x # Slot(wrPtr)
    BY <1>1, <1>2, DepthAssumption DEF Slot, RamOcc, B2N
  <1>6. j > RamOcc - c => wr # None /\ x = Slot(wrPtr)
    BY <1>1, <1>2, DepthAssumption DEF Slot, RamOcc, B2N
  <1>7. RingCell'[j] = ram'[x]
    BY <1>3 DEF RingCell, Slot
  <1>8. RingCell[j + c] = ram[x]
    BY DEF RingCell
  <1>9. ram' = IF wr # None THEN [ram EXCEPT ![Slot(wrPtr)] = wr] ELSE ram
    BY DEF RamWrite
  <1>10. j <= RamOcc - c \/ j > RamOcc - c
    BY <1>1 DEF B2N
  <1> HIDE DEF x
  <1> QED BY <1>1, <1>4, <1>5, <1>6, <1>7, <1>8, <1>9, <1>10

\* One clock moves each cell down by the pop and puts the write behind the last.
LEMMA CellStep ==
    ASSUME RingInv, NEW wr \in Entry \cup {None}, NEW pop \in BOOLEAN,
           wr # None => RamOcc + FtOcc < Depth,
           DescClock(wr, pop),
           NEW p \in 0..1, p = B2N(pop), NEW k \in 1..(FtOcc' + RamOcc')
    PROVE  Cell(k)' = IF k + p <= FtOcc + RamOcc THEN Cell(k + p) ELSE wr
  <1> DEFINE fetch == RamPop(pop)
  <1>1. fetch \in BOOLEAN /\ (fetch => RamOcc > 0)
    BY DepthAssumption DEF RamPop, RingInv, FlagsExact, DescTypeOK
  <1>2. FtOcc \in 0..2 /\ RamOcc \in 0..Depth /\ RamOcc \in Nat
    BY DepthAssumption DEF RingInv, FtNeverOverrun, FtOcc
  <1>3. RingInv'
    BY RingStep
  <1>4. FtOcc' \in 0..2 /\ RamOcc' \in 0..Depth /\ RamOcc' \in Nat
    BY <1>3, DepthAssumption DEF RingInv, FtNeverOverrun, FtOcc
  <1>5. wr # None => RamOcc < Depth
    BY <1>2, DepthAssumption
  <1>6. RamOcc' = RamOcc + B2N(wr # None) - B2N(fetch)
    BY <1>1, <1>5, OccStep DEF RingInv, DescClock, RamWrite, RamRead
  <1>7. /\ FtOcc' = FtOcc + B2N(fetch) - B2N(pop)
        /\ pop => ft0 # None
        /\ FtClock(pop) /\ RamRead(fetch) /\ RamWrite(wr)
    BY <1>1, FtStep DEF RingInv, DescClock, RamRead
  <1>8. PICK c \in 0..1 : c = B2N(fetch) /\ (fetch <=> c = 1)
    BY DEF B2N
  <1>9. PICK f \in 0..2, o \in Nat : f = FtOcc' /\ o = RamOcc'
    BY <1>4
  <1>10. /\ f = FtOcc + c - p /\ k \in 1..(f + o)
         /\ c = 1 => RamOcc > 0
    BY <1>1, <1>7, <1>8, <1>9
  <1> HIDE DEF fetch
  <1>11. CASE k <= f
    <2>1. k \in 1..FtOcc'
      BY <1>9, <1>11
    <2>2. Cell(k)' = IF k = 1 THEN First' ELSE Second'
      BY <1>9, <1>11 DEF Cell
    <2>3. Cell(k)' = IF k + p <= FtOcc
                     THEN IF k + p = 1 THEN First ELSE Second
                     ELSE RingCell[1]
      BY <1>7, <2>1, <2>2, StagedStep DEF fetch
    <2>4. k + p <= FtOcc + c /\ k + p <= FtOcc + RamOcc
      BY <1>2, <1>10, <1>11
    <2>5. CASE k + p <= FtOcc
      BY <2>3, <2>4, <2>5 DEF Cell
    <2>6. CASE ~(k + p <= FtOcc)
      <3>1. k + p - FtOcc = 1
        BY <1>2, <2>4, <2>6
      <3>2. Cell(k + p) = RingCell[1]
        <4>1. PICK m \in Int : m = k + p /\ ~(m <= FtOcc) /\ m - FtOcc = 1
          BY <1>2, <2>6, <3>1
        <4>2. Cell(m) = RingCell[m - FtOcc]
          BY <4>1 DEF Cell
        <4> QED BY <4>1, <4>2
      <3> QED BY <2>3, <2>4, <2>6, <3>2
    <2> QED BY <2>5, <2>6
  <1>12. CASE ~(k <= f)
    <2>1. PICK j \in 1..o : j = k - f
      BY <1>10, <1>12
    <2>2. Cell(k)' = RingCell'[j]
      BY <1>9, <1>12, <2>1 DEF Cell
    <2>3. RingCell'[j] = IF j <= RamOcc - c THEN RingCell[j + c] ELSE wr
      <3>1. j \in 1..RamOcc'
        BY <1>9, <2>1
      <3> QED BY <1>1, <1>5, <1>7, <1>8, <3>1, RingCellStep
    <2>4. /\ j + c = k + p - FtOcc
          /\ j <= RamOcc - c <=> k + p <= FtOcc + RamOcc
          /\ ~(k + p <= FtOcc)
      <3>1. FtOcc \in Int /\ RamOcc \in Int
        BY <1>2
      <3>2. j + c = k + p - FtOcc
        BY <1>10, <2>1, <3>1
      <3>3. j <= RamOcc - c <=> k + p <= FtOcc + RamOcc
        BY <3>1, <3>2
      <3>4. ~(k + p <= FtOcc)
        BY <3>1, <3>2
      <3> QED BY <3>2, <3>3, <3>4
    <2>5. Cell(k + p) = RingCell[j + c]
      BY <1>2, <2>4 DEF Cell
    <2> QED BY <2>2, <2>3, <2>4, <2>5
  <1> QED BY <1>11, <1>12

\* A clock is a Put, a Get, a PutGet or nothing, as its inputs say.
LEMMA FifoStep ==
    ASSUME RingInv, NEW wr \in Entry \cup {None}, NEW pop \in BOOLEAN,
           wr # None => RamOcc + FtOcc < Depth,
           DescClock(wr, pop)
    PROVE  /\ wr # None /\ ~pop => Len(Contents) < Depth /\ Contents' = Append(Contents, wr)
           /\ wr = None /\ pop  => Contents # << >> /\ Contents' = Tail(Contents)
           /\ wr # None /\ pop  => Contents # << >> /\ Contents' = Append(Tail(Contents), wr)
           /\ wr = None /\ ~pop => Contents' = Contents
  <1>1. RingInv' /\ RamOcc' + FtOcc' = RamOcc + FtOcc + B2N(wr # None) - B2N(pop)
    BY RingStep
  <1>2. /\ Contents \in Seq(Entry) /\ Len(Contents) = FtOcc + RamOcc
        /\ FtOcc \in Nat /\ RamOcc \in Nat
        /\ \A k \in 1..(FtOcc + RamOcc) : Contents[k] = Cell(k)
    BY ContentsCells, DepthAssumption
  <1>3. /\ Contents' \in Seq(Entry) /\ Len(Contents') = FtOcc' + RamOcc'
        /\ FtOcc' \in Nat /\ RamOcc' \in Nat
        /\ \A k \in 1..(FtOcc' + RamOcc') : Contents'[k] = Cell(k)'
    BY <1>1, ContentsCellsNext, DepthAssumption
  <1>4. PICK n \in Nat : n = FtOcc + RamOcc
    BY <1>2
  <1>5. PICK p \in 0..1, w \in 0..1 :
            /\ p = B2N(pop) /\ (pop <=> p = 1)
            /\ w = B2N(wr # None) /\ (wr # None <=> w = 1)
    BY DEF B2N
  <1>6. Len(Contents') = n + w - p
    BY <1>1, <1>2, <1>3, <1>4, <1>5
  <1>7. ASSUME NEW k \in 1..(n + w - p)
        PROVE  Contents'[k] = IF k + p <= n THEN Contents[k + p] ELSE wr
    <2>1. k \in 1..(FtOcc' + RamOcc')
      BY <1>3, <1>6
    <2>2. Contents'[k] = Cell(k)'
      BY <1>3, <2>1
    <2>3. Cell(k)' = IF k + p <= n THEN Cell(k + p) ELSE wr
      BY <1>4, <1>5, <2>1, CellStep
    <2>4. k + p <= n => Contents[k + p] = Cell(k + p)
      BY <1>2, <1>4
    <2> QED BY <2>2, <2>3, <2>4
  <1>8. pop => n > 0
    <2>1. pop => FtOcc > 0
      BY DEF FtOcc, DescClock
    <2> QED BY <2>1, <1>2, <1>4
  <1>9. Len(Contents) = n /\ (wr # None => n < Depth)
    BY <1>2, <1>4
  <1>10. PICK q, r : q = Contents /\ r = Contents'
    OBVIOUS
  <1>11. /\ q \in Seq(Entry) /\ Len(q) = n
         /\ r \in Seq(Entry) /\ Len(r) = n + w - p
         /\ \A k \in 1..(n + w - p) : r[k] = IF k + p <= n THEN q[k + p] ELSE wr
    BY <1>2, <1>3, <1>6, <1>7, <1>9, <1>10
  <1>12. CASE wr # None /\ ~pop
    <2>1. w = 1 /\ p = 0 /\ wr \in Entry
      BY <1>5, <1>12
    <2>2. /\ Append(q, wr) \in Seq(Entry) /\ Len(Append(q, wr)) = n + 1
          /\ \A i \in 1..n : Append(q, wr)[i] = q[i]
          /\ Append(q, wr)[n + 1] = wr
      BY <1>11, <2>1, AppendProperties
    <2>3. r = Append(q, wr)
      BY <1>11, <2>1, <2>2, SeqEqual
    <2> QED BY <1>9, <1>10, <1>12, <2>3
  <1>13. CASE wr = None /\ pop
    <2>1. w = 0 /\ p = 1 /\ q # << >>
      <3>1. Len(q) > 0
        BY <1>8, <1>11, <1>13
      <3>2. q # << >>
        BY <3>1, EmptySeq
      <3>3. w \in 0..1 /\ ~(w = 1) /\ p = 1
        <4>1. wr # None <=> w = 1
          BY <1>5
        <4> QED BY <1>5, <1>13, <4>1
      <3> QED BY <3>2, <3>3
    <2>2. /\ Tail(q) \in Seq(Entry) /\ Len(Tail(q)) = n - 1
          /\ \A i \in 1..(n - 1) : Tail(q)[i] = q[i + 1]
      BY <1>11, <2>1, HeadTailProperties
    <2>3. r = Tail(q)
      BY <1>11, <2>1, <2>2, SeqEqual
    <2> QED BY <1>10, <1>13, <2>1, <2>3
  <1>14. CASE wr # None /\ pop
    <2>1. w = 1 /\ p = 1 /\ q # << >> /\ wr \in Entry
      <3>1. Len(q) > 0
        BY <1>8, <1>11, <1>14
      <3>2. q # << >>
        BY <3>1, EmptySeq
      <3> QED BY <1>5, <1>14, <3>2
    <2>2. /\ Tail(q) \in Seq(Entry) /\ Len(Tail(q)) = n - 1
          /\ \A i \in 1..(n - 1) : Tail(q)[i] = q[i + 1]
      BY <1>11, <2>1, HeadTailProperties
    <2>3. /\ Append(Tail(q), wr) \in Seq(Entry) /\ Len(Append(Tail(q), wr)) = n
          /\ \A i \in 1..(n - 1) : Append(Tail(q), wr)[i] = Tail(q)[i]
          /\ Append(Tail(q), wr)[n] = wr
      BY <2>1, <2>2, AppendProperties
    <2>4. r = Append(Tail(q), wr)
      BY <1>11, <2>1, <2>2, <2>3, SeqEqual
    <2> QED BY <1>10, <1>14, <2>1, <2>4
  <1>15. CASE wr = None /\ ~pop
    <2>1. w = 0 /\ p = 0
      BY <1>5, <1>15
    <2>2. r = q
      BY <1>11, <2>1, SeqEqual
    <2> QED BY <1>10, <1>15, <2>2
  <1> QED BY <1>12, <1>13, <1>14, <1>15

\* sde_desc.sv with ft_fifo.v behind it is a FIFO: descriptors reach the data
\* mover once each and in the order they were written, for every depth.
THEOREM DescIsFifo == DescSpec => ImplementsFifo
  <1>1. DescInit => Fifo!Init
    <2> SUFFICES ASSUME DescInit PROVE Contents = << >>
      BY DEF Fifo!Init
    <2>1. RingInv /\ RamOcc = 0 /\ FtOcc = 0
      BY DescInvInit DEF DescInv, DescInit, RamOcc, FtOcc
    <2>2. Contents \in Seq(Entry) /\ Len(Contents) = 0
      BY <2>1, ContentsCells
    <2> QED BY <2>2, EmptySeq
  <1>2. DescInv /\ [DescNext]_descVars => [Fifo!Next]_Contents
    <2> SUFFICES ASSUME DescInv, [DescNext]_descVars
                 PROVE  Fifo!Next \/ Contents' = Contents
      OBVIOUS
    <2>1. ASSUME NEW wr \in Entry \cup {None}, NEW pop \in BOOLEAN,
                 wr # None => SubW(limit, consumed) > 0,
                 DescClock(wr, pop)
          PROVE  Fifo!Next \/ Contents' = Contents
      <3>1. wr # None => RamOcc + FtOcc < Depth
        BY <2>1, RoomForWrite
      <3>2. wr # None => wr \in Entry
        BY <2>1
      <3> QED BY <2>1, <3>1, <3>2, FifoStep
             DEF DescInv, Fifo!Next, Fifo!Put, Fifo!Get, Fifo!PutGet
    <2>2. ASSUME NEW d \in Entry, Write(d) PROVE Fifo!Next \/ Contents' = Contents
      BY <2>1, <2>2 DEF Write
    <2>3. ASSUME NEW d \in Entry, WritePop(d) PROVE Fifo!Next \/ Contents' = Contents
      BY <2>1, <2>3 DEF WritePop
    <2>4. CASE Pop
      BY <2>1, <2>4 DEF Pop
    <2>5. CASE Tick
      BY <2>1, <2>5 DEF Tick
    <2>6. CASE UNCHANGED descVars
      BY <2>6 DEF descVars, Contents, Staged, InRam, RamOcc
    <2> QED BY <2>2, <2>3, <2>4, <2>5, <2>6 DEF DescNext
  <1> QED BY <1>1, <1>2, DescInvariant, PTL DEF DescSpec, ImplementsFifo, Fifo!Spec
=============================================================================
