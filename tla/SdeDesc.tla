------------------------------ MODULE SdeDesc ------------------------------
(***************************************************************************)
(* The descriptor block of one SDE channel (sde_desc.sv): a descriptor RAM *)
(* used as a ring, the flow-through FIFO behind it (ft_fifo.v) that hides  *)
(* the RAM's one clock of read latency, and the two credit counters.  One  *)
(* step is one clock edge.  Its inputs are the descriptor the PCIS slave   *)
(* hands over in that clock, if any (ps_desc_wr_req_q), and whether the    *)
(* data mover pops one (dm_desc_pop).                                      *)
(*                                                                         *)
(* The 32-bit counters roll over at W.  A descriptor is an opaque Entry;   *)
(* the reg/comp/sav layout conversions of its fields are left out, and so  *)
(* is the CSR access path to the RAM, which the driver never uses.         *)
(***************************************************************************)
EXTENDS Naturals, Sequences

CONSTANTS Depth,      \* DESC_RAM_DEPTH, the driver's SDE_NUM_DESC
          W,          \* the counters count modulo W (2^32 in the code)
          Entry,      \* the descriptors
          None        \* no descriptor (a clear valid bit)

ASSUME DepthAssumption == Depth \in Nat \ {0}
ASSUME WAssumption     == W \in Nat /\ 2 * Depth < W
ASSUME NoneAssumption  == None \notin Entry

VARIABLES ram,        \* DESC_RAM
          wrPtr,      \* {desc_ram_wr_ptr_msb, desc_ram_wr_ptr}
          rdPtr,      \* {desc_ram_rd_ptr_msb, desc_ram_rd_ptr}
          ramEmpty,   \* desc_ram_empty, a flop
          ramFull,    \* desc_ram_full, a flop
          oflow,      \* desc_ram_oflow as held by the CSR block (cfg_desc_oflow)
          ramPopQ,    \* ram_pop_q: desc_ram_rdata is valid in this clock
          rdata,      \* desc_ram_rdata, the RAM's registered read port
          ft0, ft1,   \* the flow-through FIFO's two flops, ft0 the head
          consumed,   \* cdt_consumed
          limit       \* cdt_limit

descVars == <<ram, wrPtr, rdPtr, ramEmpty, ramFull, oflow, ramPopQ, rdata,
              ft0, ft1, consumed, limit>>

----------------------------------------------------------------------------
(* Counters modulo W, pointers with a wrap bit modulo 2 * Depth.           *)

AddW(a, b) == IF a + b < W THEN a + b ELSE a + b - W
SubW(a, b) == IF b <= a THEN a - b ELSE a + W - b

PtrNext(p) == IF p = 2 * Depth - 1 THEN 0 ELSE p + 1
Slot(p)    == IF p < Depth THEN p ELSE p - Depth

\* The number of descriptors in the RAM, from the two pointers.
RamOcc == IF rdPtr <= wrPtr THEN wrPtr - rdPtr ELSE wrPtr + 2 * Depth - rdPtr

----------------------------------------------------------------------------
DescInit ==
    /\ wrPtr = 0 /\ rdPtr = 0
    /\ ramEmpty = TRUE /\ ramFull = FALSE /\ oflow = FALSE
    /\ ramPopQ = FALSE /\ ft0 = None /\ ft1 = None
    /\ consumed = 0 /\ limit = Depth
    /\ ram = [s \in 0..(Depth - 1) |-> None]
    /\ rdata = None

\* ft_fifo's ram_pop: fetch the next descriptor from the RAM when a flop is
\* free for it, counting the one already on its way out of the RAM.
RamPop_OnDemand(pop) == ~ramEmpty /\ pop
RamPop(pop) == /\ ~ramEmpty
               /\ ft1 = None \/ pop
               /\ ft0 = None \/ ~ramPopQ \/ pop

\* The flow-through FIFO's flops: the word read from the RAM a clock ago goes
\* to the first free one, and a pop shifts the second into the first.
FtClock_Overtake(pop) ==
    LET nxt0 == IF ramPopQ THEN rdata ELSE ft0
        nxt1 == IF ramPopQ /\ ft0 # None THEN ft0 ELSE ft1
    IN  /\ ft0' = IF pop THEN nxt1 ELSE nxt0
        /\ ft1' = IF pop THEN None ELSE nxt1
FtClock(pop) ==
    LET nxt0 == IF ramPopQ /\ ft0 = None THEN rdata ELSE ft0
        nxt1 == IF ramPopQ /\ ft0 # None THEN rdata ELSE ft1
    IN  /\ ft0' = IF pop THEN nxt1 ELSE nxt0
        /\ ft1' = IF pop THEN None ELSE nxt1

\* The RAM's write port and write pointer.  A write to a full RAM is not held
\* back: it overwrites the oldest descriptor and only raises an error flag.
RamWrite(wr) ==
    /\ ram'   = IF wr # None THEN [ram EXCEPT ![Slot(wrPtr)] = wr] ELSE ram
    /\ wrPtr' = IF wr # None THEN PtrNext(wrPtr) ELSE wrPtr
    /\ oflow' = (oflow \/ (ramFull /\ wr # None))

\* The RAM's read port (a read of the slot written in the same clock returns
\* the word that was there before) and read pointer.
RamRead(fetch) ==
    /\ rdata'   = IF fetch THEN ram[Slot(rdPtr)] ELSE rdata
    /\ rdPtr'   = IF fetch THEN PtrNext(rdPtr) ELSE rdPtr
    /\ ramPopQ' = fetch

\* The registered empty and full flags change only when exactly one of write
\* and fetch happens.
FlagsClock(wr, fetch) ==
    /\ ramEmpty' = IF wr # None /\ ~fetch THEN FALSE
                   ELSE IF wr = None /\ fetch THEN wrPtr = PtrNext(rdPtr)
                   ELSE ramEmpty
    /\ ramFull'  = IF wr # None /\ ~fetch
                     THEN /\ (PtrNext(wrPtr) >= Depth) # (rdPtr >= Depth)
                          /\ Slot(PtrNext(wrPtr)) = Slot(rdPtr)
                   ELSE IF wr = None /\ fetch THEN FALSE
                   ELSE ramFull

\* Credit counters: a write consumes one, a pop by the data mover gives one
\* back (before the descriptor's data has moved).
CreditClock_ReturnOnFetch(wr, pop) ==
    /\ consumed' = IF wr # None THEN AddW(consumed, 1) ELSE consumed
    /\ limit'    = IF RamPop(pop) THEN AddW(limit, 1) ELSE limit
CreditClock_PopWins(wr, pop) ==
    /\ consumed' = IF wr # None /\ ~pop THEN AddW(consumed, 1) ELSE consumed
    /\ limit'    = IF pop THEN AddW(limit, 1) ELSE limit
CreditClock(wr, pop) ==
    /\ consumed' = IF wr # None THEN AddW(consumed, 1) ELSE consumed
    /\ limit'    = IF pop THEN AddW(limit, 1) ELSE limit

\* One clock.  The data mover pops only a valid head (dm_desc_pop requires
\* desc_dm_desc_valid).
DescClock(wr, pop) ==
    /\ pop => ft0 # None
    /\ RamWrite(wr)
    /\ RamRead(RamPop(pop))
    /\ FlagsClock(wr, RamPop(pop))
    /\ FtClock(pop)
    /\ CreditClock(wr, pop)

----------------------------------------------------------------------------
(* The block on its own, behind a writer that honours its two counters and *)
(* a data mover that pops whenever it likes.                               *)

Write(d)     == SubW(limit, consumed) > 0 /\ DescClock(d, FALSE)
Pop          == ft0 # None /\ DescClock(None, TRUE)
WritePop(d)  == SubW(limit, consumed) > 0 /\ ft0 # None /\ DescClock(d, TRUE)
Tick         == DescClock(None, FALSE)

DescNext == \/ \E d \in Entry : Write(d) \/ WritePop(d)
            \/ Pop
            \/ Tick

DescSpec == DescInit /\ [][DescNext]_descVars

\* The clock never stops.
DescFairSpec == DescSpec /\ WF_descVars(DescNext)

----------------------------------------------------------------------------
(* Type invariant of the descriptor block. *)
DescTypeOK ==
    /\ ram \in [0..(Depth - 1) -> Entry \cup {None}]
    /\ wrPtr \in 0..(2 * Depth - 1) /\ rdPtr \in 0..(2 * Depth - 1)
    /\ ramEmpty \in BOOLEAN /\ ramFull \in BOOLEAN /\ oflow \in BOOLEAN
    /\ ramPopQ \in BOOLEAN /\ rdata \in Entry \cup {None}
    /\ ft0 \in Entry \cup {None} /\ ft1 \in Entry \cup {None}
    /\ consumed \in 0..(W - 1) /\ limit \in 0..(W - 1)

\* Descriptors past the RAM's read port: one being read, two in the flops.
FtOcc == (IF ramPopQ THEN 1 ELSE 0) + (IF ft0 # None THEN 1 ELSE 0)
                                    + (IF ft1 # None THEN 1 ELSE 0)

\* The flow-through FIFO never fetches a word it has no flop for: a word that
\* arrives from the RAM with both flops taken would overwrite the second.
\* (ft_fifo.v: ram_pop must count the word in flight.)
FtNeverOverrun == FtOcc <= 2 /\ (ft1 # None => ft0 # None)

\* The empty and full flops, each updated from the pointers of the clock
\* before, always agree with the pointers of this one.  The write path, the
\* fetch and the status register all act on the flops.
FlagsExact == (ramEmpty <=> RamOcc = 0) /\ (ramFull <=> RamOcc = Depth)

\* Credits and occupancy add up to the RAM's depth across counter roll-over:
\* limit - consumed is exactly the room that the descriptors in the RAM and
\* in the flow-through FIFO leave.
CreditsExact == SubW(limit, consumed) + RamOcc + FtOcc = Depth

\* A writer that honours the credits never overflows the RAM.
NoOverflow == ~oflow

\* A descriptor in the RAM reaches the data mover however rarely it pops:
\* the head becomes valid although nobody pops or writes.
HeadBecomesValid == (RamOcc > 0) ~> (ft0 # None)

----------------------------------------------------------------------------
(* The block implements a FIFO of Depth descriptors: those in the flops,   *)
(* the one on the RAM's read port, and those in the RAM from the read to   *)
(* the write pointer.                                                      *)

Opt(e) == IF e = None THEN << >> ELSE <<e>>

Staged == Opt(ft0) \o Opt(ft1) \o Opt(IF ramPopQ THEN rdata ELSE None)

InRam == [k \in 1..(IF RamOcc <= Depth THEN RamOcc ELSE Depth) |->
             ram[Slot(Slot(rdPtr) + k - 1)]]

Contents == Staged \o InRam

Fifo == INSTANCE BoundedFifo WITH q <- Contents, Capacity <- Depth

\* The detailed block implements the abstract FIFO.
ImplementsFifo == Fifo!Spec
=============================================================================
