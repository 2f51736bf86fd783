----------------------------- MODULE SdeCredit -----------------------------
(***************************************************************************)
(* Descriptor credits of one SDE channel, end to end.  The driver          *)
(* (sde_mgmt.c, sde_dma_buffer.c, sde_hw_ctrl.c) waits until the credit    *)
(* limit it finds in host memory is far enough ahead of its own count of   *)
(* posted descriptors, then pokes the descriptors through BAR4.  The       *)
(* descriptor block (SdeDesc) buffers them for the data mover, which       *)
(* raises the limit with every pop, and the write-back block (sde_wb.sv)   *)
(* copies the limit to host memory now and then.                           *)
(*                                                                         *)
(* Pokes are posted writes: they arrive later, in order.  Status writes of *)
(* the card are posted too.  A descriptor's dwords travel as one unit (the *)
(* accumulator sde_ps_acc.sv hands over whole descriptors).                *)
(***************************************************************************)
EXTENDS SdeDesc

CONSTANTS NumDesc,       \* dma_buffer->num_desc, at most SDE_NUM_DESC
          MaxBatch,      \* bound: the most descriptors one call asks for
          WcCnt,         \* cfg_wc_cnt_minus1 + 1: pops per coalesced write
          ReqCntMod,     \* desc_cdt_req_wc_cnt counts modulo this (2^7)
          BrespDepth,    \* WB_BRESP_TRK_FIFO_DEPTH
          MaxFlight,     \* bound: status writes the PCIe path buffers
          MaxChan,       \* bound: pokes the PCIe path buffers
          PokeFails,     \* whether fpga_pci_poke may fail
          ReCfg          \* whether the program resets the SDE in mid-life

ASSUME NumDescAssumption  == NumDesc \in 1..Depth /\ Entry = 0..(NumDesc - 1)
ASSUME MaxBatchAssumption == MaxBatch \in 1..Depth
ASSUME WcCntAssumption    == WcCnt \in 1..Depth
ASSUME ReqCntAssumption   == ReqCntMod \in Nat \ {0}
ASSUME BoundsAssumption   == /\ BrespDepth \in Nat \ {0}
                             /\ MaxFlight \in Nat \ {0}
                             /\ MaxChan \in Nat \ {0}
ASSUME FlagsAssumption    == PokeFails \in BOOLEAN /\ ReCfg \in BOOLEAN

VARIABLES
    \* driver
    pc,            \* "idle" | "wait" | "post" | "cfg": where the caller is
    num,           \* *num_desc of the call in progress
    posted,        \* posted_desc: descriptors of finished chunks
    inChunk,       \* desc_idx: descriptors poked of the current chunk
    postIdx,       \* curr_desc_index_to_post
    drvConsumed,   \* c2h_desc_consumed / h2c_desc_consumed
    \* host memory and the PCIe paths
    hostLimit,     \* status->desc_limit
    hostErr,       \* status->status, descriptor error bit
    chan,          \* descriptors poked and not yet arrived
    flight,        \* status writes sent and not yet landed
    \* write-back block
    limitQ,        \* desc_wb_limit_q
    errQ,          \* status_dw_q
    pend,          \* status_req_pend
    wbState,       \* "idle" | "start" (start_new_req) | "send" (wr_active)
    bAvail         \* bresp_prealloc_avail_cnt

drvVars  == <<pc, num, posted, inChunk, postIdx, drvConsumed>>
wbVars   == <<limitQ, errQ, pend, wbState, bAvail>>
memVars  == <<hostLimit, hostErr, flight>>
vars     == <<descVars, drvVars, wbVars, memVars, chan>>

----------------------------------------------------------------------------
(* After sde_mgmt_init_and_cfg: memset of the driver state, reset of the   *)
(* card and of the status words, clearing of the card's counters (which    *)
(* sets the limit to the RAM depth, but its write-back copy to 0).         *)

Init ==
    /\ DescInit
    /\ pc = "idle" /\ num = 0 /\ posted = 0 /\ inChunk = 0
    /\ postIdx = 0 /\ drvConsumed = 0
    /\ hostLimit = Depth /\ hostErr = FALSE
    /\ chan = << >> /\ flight = << >>
    /\ limitQ = 0 /\ errQ = FALSE /\ pend = FALSE
    /\ wbState = "idle" /\ bAvail = BrespDepth

----------------------------------------------------------------------------
(* The driver.                                                             *)

\* The credits the driver believes it has: 32-bit unsigned subtraction.
Credits_Signed == IF drvConsumed <= hostLimit THEN hostLimit - drvConsumed ELSE 0
Credits == SubW(hostLimit, drvConsumed)

\* sde_mgmt_write / sde_mgmt_start_read enter sde_mgmt_wait_desc_credit.
BeginPost(n) ==
    /\ pc = "idle"
    /\ pc' = "wait" /\ num' = n
    /\ UNCHANGED <<descVars, posted, inChunk, postIdx, drvConsumed, wbVars,
                   memVars, chan>>

\* A poll that finds enough credits ends the wait.  (A poll that does not is
\* a stuttering step.)
WaitOk_OffByOne ==
    /\ pc = "wait" /\ Credits + 1 >= num
    /\ pc' = "post" /\ posted' = 0 /\ inChunk' = 0
    /\ UNCHANGED <<descVars, num, postIdx, drvConsumed, wbVars, memVars, chan>>
WaitOk ==
    /\ pc = "wait" /\ Credits >= num
    /\ pc' = "post" /\ posted' = 0 /\ inChunk' = 0
    /\ UNCHANGED <<descVars, num, postIdx, drvConsumed, wbVars, memVars, chan>>

\* DESC_WAIT_MAX_ITERS polls without success: SDE_DESC_LIMIT_TIMEOUT.
WaitTimeout ==
    /\ pc = "wait" /\ Credits < num
    /\ pc' = "idle"
    /\ UNCHANGED <<descVars, num, posted, inChunk, postIdx, drvConsumed,
                   wbVars, memVars, chan>>

\* sde_dma_post_desc posts up to the end of the descriptor ring at a time.
Chunk == IF num - posted > NumDesc - postIdx THEN NumDesc - postIdx
                                             ELSE num - posted

\* One descriptor of the chunk is poked; the ring index and the count move on
\* only when the whole chunk is out.
Poke ==
    /\ pc = "post" /\ posted < num
    /\ Len(chan) < MaxChan
    /\ chan' = Append(chan, postIdx + inChunk)
    /\ IF inChunk + 1 = Chunk
         THEN /\ inChunk' = 0
              /\ posted' = posted + Chunk
              /\ postIdx' = IF postIdx + Chunk = NumDesc THEN 0
                                                         ELSE postIdx + Chunk
         ELSE inChunk' = inChunk + 1 /\ UNCHANGED <<posted, postIdx>>
    /\ UNCHANGED <<descVars, pc, num, drvConsumed, wbVars, memVars>>

\* sde_mgmt_post_desc counts the descriptors after posting them.
PostDone ==
    /\ pc = "post" /\ posted = num
    /\ drvConsumed' = AddW(drvConsumed, num)
    /\ pc' = "idle"
    /\ UNCHANGED <<descVars, num, posted, inChunk, postIdx, wbVars, memVars,
                   chan>>

\* A poke fails: the call returns its error, the chunk's index update is
\* skipped, and all requested descriptors are counted as consumed.  Dwords of
\* the failed descriptor that are already out stay in the card's accumulator
\* and are completed by whatever is poked next: one more descriptor arrives,
\* or none.
PokeFail_CountChunks ==
    /\ PokeFails
    /\ pc = "post" /\ posted < num
    /\ \/ UNCHANGED chan
       \/ Len(chan) < MaxChan /\ chan' = Append(chan, postIdx + inChunk)
    /\ drvConsumed' = AddW(drvConsumed, posted)
    /\ pc' = "idle"
    /\ UNCHANGED <<descVars, num, posted, inChunk, postIdx, wbVars, memVars>>
PokeFail ==
    /\ PokeFails
    /\ pc = "post" /\ posted < num
    /\ \/ UNCHANGED chan
       \/ Len(chan) < MaxChan /\ chan' = Append(chan, postIdx + inChunk)
    /\ drvConsumed' = AddW(drvConsumed, num)
    /\ pc' = "idle"
    /\ UNCHANGED <<descVars, num, posted, inChunk, postIdx, wbVars, memVars>>

\* sde_mgmt_reset: reset the card, then rewrite the status words.  The
\* driver's count of consumed descriptors is not touched.  The reset bit is
\* read back, so what was on the PCIe paths has arrived by then: descriptors
\* are gone with the ring, and status writes are overwritten.
Reset ==
    /\ ReCfg
    /\ pc = "idle"
    /\ pc' = "cfg" /\ chan' = << >> /\ flight' = << >>
    /\ wrPtr' = 0 /\ rdPtr' = 0
    /\ ramEmpty' = TRUE /\ ramFull' = FALSE /\ oflow' = FALSE
    /\ ramPopQ' = FALSE /\ ft0' = None /\ ft1' = None
    /\ consumed' = 0 /\ limit' = Depth
    /\ limitQ' = Depth /\ errQ' = FALSE /\ pend' = FALSE
    /\ wbState' = "idle" /\ bAvail' = BrespDepth
    /\ hostLimit' = Depth /\ hostErr' = FALSE
    /\ UNCHANGED <<ram, rdata, num, posted, inChunk, postIdx, drvConsumed>>

\* sde_mgmt_cfg: sde_hw_cfg_c2h / _h2c clear the card's counters, and
\* sde_dma_init_desc_buffer restarts the descriptor ring.
Cfg ==
    /\ pc = "cfg"
    /\ pc' = "idle"
    /\ consumed' = 0 /\ limit' = Depth /\ limitQ' = 0
    /\ postIdx' = 0
    /\ UNCHANGED <<ram, wrPtr, rdPtr, ramEmpty, ramFull, oflow, ramPopQ,
                   rdata, ft0, ft1, num, posted, inChunk, drvConsumed, errQ,
                   pend, wbState, bAvail, memVars, chan>>

----------------------------------------------------------------------------
(* The card's clock: a poke arrives, the data mover pops, both or neither. *)

\* Pops since the limit was last latched for a status write.
LimitDiff == SubW(limit, limitQ)

\* desc_cdt_req_wc_cnt keeps its low seven bits.
ReqCnt == LimitDiff % ReqCntMod

\* status_req_pend, set in every clock in which enough pops have piled up
\* (desc_cdt_req_pend, once the write-backs are enabled again) or an error bit
\* has changed since it was last sent (status_dw_req_pend).
PendClock == pend' = (pend \/ (pc # "cfg" /\ ReqCnt >= WcCnt) \/ errQ # oflow)

cardRest == <<limitQ, errQ, wbState, bAvail>>

Arrive    == /\ chan # << >>
             /\ chan' = Tail(chan)
             /\ DescClock(Head(chan), FALSE)
             /\ PendClock
             /\ UNCHANGED <<drvVars, cardRest, memVars>>

DmPop     == /\ ft0 # None
             /\ DescClock(None, TRUE)
             /\ PendClock
             /\ UNCHANGED <<drvVars, cardRest, memVars, chan>>

ArrivePop == /\ chan # << >> /\ ft0 # None
             /\ chan' = Tail(chan)
             /\ DescClock(Head(chan), TRUE)
             /\ PendClock
             /\ UNCHANGED <<drvVars, cardRest, memVars>>

HwTick    == /\ DescClock(None, FALSE)
             /\ PendClock
             /\ UNCHANGED <<drvVars, cardRest, memVars, chan>>

----------------------------------------------------------------------------
(* The write-back block.                                                   *)

\* Fewer pops than a coalesced write takes, and the coalescing timer
\* (desc_cdt_req_wc_to_cnt) has run out.
WbTimer ==
    /\ pc # "cfg"
    /\ ~pend /\ ReqCnt > 0
    /\ pend' = TRUE
    /\ UNCHANGED <<descVars, drvVars, cardRest, memVars, chan>>

\* accept_new_wb_req: one request at a time, and room for its response.
WbStart ==
    /\ wbState = "idle" /\ pend /\ bAvail > 0
    /\ wbState' = "start" /\ bAvail' = bAvail - 1
    /\ UNCHANGED <<descVars, drvVars, limitQ, errQ, pend, memVars, chan>>

\* wr_active_re: what is sent is latched.
WbLatch_NextLimit ==
    /\ wbState = "start"
    /\ wbState' = "send"
    /\ limitQ' = AddW(limit, 1) /\ errQ' = oflow
    /\ UNCHANGED <<descVars, drvVars, pend, bAvail, memVars, chan>>
WbLatch_NoStatus ==
    /\ wbState = "start"
    /\ wbState' = "send"
    /\ limitQ' = limit
    /\ UNCHANGED <<descVars, drvVars, errQ, pend, bAvail, memVars, chan>>
WbLatch ==
    /\ wbState = "start"
    /\ wbState' = "send"
    /\ limitQ' = limit /\ errQ' = oflow
    /\ UNCHANGED <<descVars, drvVars, pend, bAvail, memVars, chan>>

\* wr_done: the data is accepted on PCIM and the request is no longer pending.
\* Pops made since the latch leave limit # limitQ and are requested again.
WbSend_LatchLate ==
    /\ wbState = "send" /\ Len(flight) < MaxFlight
    /\ wbState' = "idle" /\ pend' = FALSE /\ limitQ' = limit
    /\ flight' = Append(flight, [limit |-> limitQ, err |-> errQ])
    /\ UNCHANGED <<descVars, drvVars, errQ, bAvail, hostLimit, hostErr, chan>>
WbSend ==
    /\ wbState = "send" /\ Len(flight) < MaxFlight
    /\ wbState' = "idle" /\ pend' = FALSE
    /\ flight' = Append(flight, [limit |-> limitQ, err |-> errQ])
    /\ UNCHANGED <<descVars, drvVars, limitQ, errQ, bAvail, hostLimit, hostErr, chan>>

\* The status write lands in host memory.
Land ==
    /\ flight # << >>
    /\ flight' = Tail(flight)
    /\ hostLimit' = Head(flight).limit /\ hostErr' = Head(flight).err
    /\ UNCHANGED <<descVars, drvVars, wbVars, chan>>

\* A write response returns and frees its place in the tracking FIFO.
Outstanding == BrespDepth - bAvail - (IF wbState = "idle" THEN 0 ELSE 1)

WbBresp ==
    /\ Outstanding > 0
    /\ bAvail' = bAvail + 1
    /\ UNCHANGED <<descVars, drvVars, limitQ, errQ, pend, wbState, memVars, chan>>

----------------------------------------------------------------------------
Driver == \/ \E n \in 1..MaxBatch : BeginPost(n)
          \/ WaitOk \/ WaitTimeout \/ Poke \/ PostDone \/ PokeFail
          \/ Reset \/ Cfg

Card == \/ Arrive \/ DmPop \/ ArrivePop \/ HwTick
        \/ WbTimer \/ WbStart \/ WbLatch \/ WbSend \/ Land \/ WbBresp

Next == Driver \/ Card

Spec == Init /\ [][Next]_vars

\* The card's clock runs and the PCIe paths deliver; the CL keeps its streams
\* moving, so the data mover gets back to popping; the driver's thread runs.
\* Neither a new call, a timeout, a failure nor a reset need ever happen.
Fairness ==
    /\ WF_vars(WaitOk) /\ WF_vars(Poke) /\ WF_vars(PostDone)
    /\ WF_vars(Arrive \/ ArrivePop) /\ WF_vars(DmPop \/ ArrivePop)
    /\ WF_vars(HwTick)
    /\ WF_vars(WbStart) /\ WF_vars(WbLatch) /\ WF_vars(WbSend)
    /\ WF_vars(Land) /\ WF_vars(WbBresp)

\* The coalescing timer runs, too.
FairSpec == Spec /\ Fairness /\ WF_vars(WbTimer)

----------------------------------------------------------------------------
(* Type invariant of the channel. *)
TypeOK ==
    /\ DescTypeOK
    /\ pc \in {"idle", "wait", "post", "cfg"}
    /\ num \in 0..Depth /\ posted \in 0..Depth /\ inChunk \in 0..Depth
    /\ postIdx \in 0..(NumDesc - 1)
    /\ drvConsumed \in 0..(W - 1)
    /\ hostLimit \in 0..(W - 1) /\ hostErr \in BOOLEAN
    /\ chan \in Seq(Entry)
    /\ flight \in Seq([limit : 0..(W - 1), err : BOOLEAN])
    /\ limitQ \in 0..(W - 1) /\ errQ \in BOOLEAN /\ pend \in BOOLEAN
    /\ wbState \in {"idle", "start", "send"}
    /\ bAvail \in 0..BrespDepth

\* Room for descriptors that nobody has been promised: the RAM's depth less
\* what is in it, in the flow-through FIFO or on its way.
Room == Depth - RamOcc - FtOcc - Len(chan)

\* When sde_mgmt_wait_desc_credit has returned success, the card has room for
\* every descriptor of the call that is still to be poked.
WaitMeansCredit == pc = "post" => num - (posted + inChunk) <= Room

\* The limit in host memory, and those on their way there, are never ahead of
\* the card's: the driver may know of too few credits, never of too many.
HostNeverAhead ==
    /\ SubW(hostLimit, drvConsumed) <= SubW(limit, drvConsumed)
    /\ \A i \in 1..Len(flight) :
          SubW(flight[i].limit, drvConsumed) <= SubW(limit, drvConsumed)

\* The limit the driver polls only moves forward, by at most a ring's worth a
\* write, although it rolls over and status writes queue up.
HostLimitForward == [][SubW(hostLimit', hostLimit) <= Depth]_vars

\* A reset leaves the library's counts wrong (WaitMeansCredit fails then), so
\* what is promised of credits is promised until one.
NeverReset == [](pc # "cfg")

\* Pops the host has not heard of are heard of: the limit in host memory does
\* not stay behind the card's for ever, not even when too few pops follow to
\* fill a coalesced write, and none is lost that comes between latch and send.
LimitReachesHost ==
    NeverReset => []<>(hostLimit = limit) \/ []<><<TRUE>>_hostLimit

\* A call waiting for credits gets them (or gives up): its descriptors are
\* posted even if it asks for the whole ring.
WaiterServed == NeverReset => ((pc = "wait") ~> (pc # "wait"))

\* An overflow of the descriptor RAM reaches the status word that
\* sde_mgmt_check_status reads, unless the card is reset first: the request
\* for the status write is not lost to the ones made for pops.
ErrorReported == oflow ~> (hostErr \/ pc = "cfg")
=============================================================================
