------------------------------- MODULE SdeStream -------------------------------
(***************************************************************************)
(* Packets through the Streaming Data Engine, as the driver library moves  *)
(* them (sde_mgmt.c, sde_dma_buffer.c, with the metadata ring of           *)
(* sde_wb.sv): from the card's traffic generator to the host, or from the  *)
(* host through the card's loopback and back.                              *)
(*                                                                         *)
(* The library keeps four indices that have to agree without ever being    *)
(* compared: of the descriptor to post next and the buffer to fill next,   *)
(* host to card; the same, card to host; and the metadata entry to read    *)
(* next.  The caller keeps at most Window packets posted and not yet read, *)
(* as the examples do, and resets the engine only when there are none.     *)
(* Credits are in SdeCredit; here a status write brings all there are.     *)
(***************************************************************************)
EXTENDS Naturals, Sequences

CONSTANTS NumDesc,   \* SDE_NUM_DESC, C2H_NUM_MD_IN_RING
          Layouts,   \* <<layout, num_buffers>> that sde_mgmt_init can be given
          MaxBatch,  \* packets in one call: DESC_COALESCE_CNT
          LoopCap,   \* packets the card's loopback holds
          Ids        \* packets are numbered modulo Ids

ASSUME StreamAssumption ==
    /\ NumDesc \in Nat \ {0} /\ MaxBatch \in 1..NumDesc /\ LoopCap \in Nat \ {0}
    /\ Layouts \subseteq {"single", "multi", "user"} \X (1..NumDesc)
    /\ \A l \in Layouts : /\ l[1] = "single" => l[2] = 1
                          /\ l[1] = "multi" => l[2] = NumDesc
    /\ Ids \in Nat /\ Ids > 2 * NumDesc

Dirs == {"c2h", "h2c"}

VARIABLES
    \* the slot's struct sde_mgmt
    loopback,   \* direction: loopback, or card to host
    layout,     \* the layout and num_buffers
    postIdx,    \* [Dirs]: curr_desc_index_to_post
    bufIdx,     \* [Dirs]: current_buffer_index
    mdIdx,      \* md_read_index
    cred,       \* [Dirs]: desc_limit - desc_consumed
    \* host memory
    buf,        \* [Dirs]: the packet in each buffer
    ring,       \* metadata: valid bit, and the packet's number in the user bits
    \* the card
    descs,      \* [Dirs]: descriptors it has, as buffer numbers
    fetch,      \* [Dirs]: descriptors its data movers have taken
    pops,       \* [Dirs]: descriptors taken, not yet in a status write
    loop,       \* packets in the loopback
    gen,        \* the traffic generator's next packet
    mdQ,        \* metadata on its way
    mdWr,       \* the write-back block's ring pointer
    \* the caller
    pc, left,   \* where the call is, packets to go
    prepared,   \* packets in host-to-card buffers, not yet posted
    sent,       \* packets posted host to card, not yet read back
    asked,      \* packets asked for by start_read, not yet read
    nextW,      \* the next packet to write
    nextR,      \* the next packet to read
    seen        \* the packet last read: what it should be, its data, user bits

libVars  == <<loopback, layout, postIdx, bufIdx, mdIdx, cred>>
cardVars == <<descs, fetch, pops, loop, gen, mdQ, mdWr>>
callVars == <<prepared, sent, asked, nextW, nextR>>
vars == <<libVars, buf, ring, cardVars, callVars, pc, left, seen>>

NumBuf == layout[2]

\* sde_dma_buffer_init, sde_dma_buffer_set_dma_buffers: num_desc.
RingSize == IF layout[1] = "user" THEN NumBuf ELSE NumDesc

\* The packets that fit in the buffers and in the metadata ring.
Window == NumBuf

NoPacket == Ids
Empty == [valid |-> FALSE, user |-> NoPacket]
Both(x) == [d \in Dirs |-> x]

\* sde_mgmt_init, _reset and _cfg for one direction and layout.
Init ==
    /\ loopback \in BOOLEAN /\ layout \in Layouts
    /\ postIdx = Both(0) /\ bufIdx = Both(0) /\ mdIdx = 0
    /\ cred = Both(NumDesc)
    /\ buf = Both([i \in 0..(NumBuf - 1) |-> NoPacket])
    /\ ring = [i \in 0..(NumDesc - 1) |-> Empty]
    /\ descs = Both(<< >>) /\ fetch = Both(<< >>) /\ pops = Both(0)
    /\ loop = << >> /\ gen = 0 /\ mdQ = << >> /\ mdWr = 0
    /\ pc = "idle" /\ left = 0
    /\ prepared = 0 /\ sent = 0 /\ asked = 0 /\ nextW = 0 /\ nextR = 0
    /\ seen = [due |-> 0, data |-> 0, user |-> 0]

Goto(p, n) == pc' = p /\ left' = n

----------------------------------------------------------------------------
(* Posting: sde_mgmt_start_read and sde_mgmt_write.                        *)

\* sde_dma_init_desc_buffer: descriptor i points to buffer i modulo the number
\* of buffers.
DescBuf(i) == i % NumBuf

\* sde_mgmt_wait_desc_credit has found its credits.
StartRead(n) ==
    /\ pc = "idle" /\ asked + n <= Window /\ cred["c2h"] >= n
    /\ Goto("c2h", n) /\ asked' = asked + n
    /\ cred' = [cred EXCEPT !["c2h"] = @ - n]
    /\ UNCHANGED <<loopback, layout, postIdx, bufIdx, mdIdx, buf, ring,
                   cardVars, prepared, sent, nextW, nextR, seen>>

Write ==
    /\ pc = "idle" /\ prepared > 0 /\ cred["h2c"] >= prepared
    /\ Goto("h2c", prepared) /\ prepared' = 0 /\ sent' = sent + prepared
    /\ cred' = [cred EXCEPT !["h2c"] = @ - prepared]
    /\ UNCHANGED <<loopback, layout, postIdx, bufIdx, mdIdx, buf, ring,
                   cardVars, asked, nextW, nextR, seen>>

\* sde_dma_post_desc: a run of descriptors up to the end of the ring, then on
\* from its beginning.
PostIdxNext(i, n) == (i + n) % RingSize

PostChunk ==
    /\ pc \in Dirs /\ left > 0
    /\ LET room == RingSize - postIdx[pc]
           n == IF left > room THEN room ELSE left
       IN  /\ descs' = [descs EXCEPT ![pc] =
                  @ \o [k \in 1..n |-> DescBuf(postIdx[pc] + k - 1)]]
           /\ postIdx' = [postIdx EXCEPT ![pc] = PostIdxNext(@, n)]
           /\ Goto(IF left = n THEN "idle" ELSE pc, left - n)
    /\ UNCHANGED <<loopback, layout, bufIdx, mdIdx, cred, buf, ring, fetch,
                   pops, loop, gen, mdQ, mdWr, callVars, seen>>

----------------------------------------------------------------------------
(* sde_mgmt_prepare_write: each packet into the next buffer.               *)

Prepare(n) ==
    /\ pc = "idle" /\ loopback /\ prepared = 0 /\ sent + n <= Window
    /\ Goto("fill", n)
    /\ UNCHANGED <<libVars, buf, ring, cardVars, callVars, seen>>

\* sde_dma_read_data, sde_dma_write_data: the buffer after this one.
BufIdxNext_NoWrap(i) == IF i + 1 < NumBuf THEN i + 1 ELSE i
BufIdxNext(i) == (i + 1) % NumBuf

WriteData ==
    /\ pc = "fill"
    /\ buf' = [buf EXCEPT !["h2c"][bufIdx["h2c"]] = nextW]
    /\ bufIdx' = [bufIdx EXCEPT !["h2c"] = BufIdxNext(@)]
    /\ nextW' = (nextW + 1) % Ids /\ prepared' = prepared + 1
    /\ Goto(IF left = 1 THEN "idle" ELSE "fill", left - 1)
    /\ UNCHANGED <<loopback, layout, postIdx, mdIdx, cred, ring, cardVars,
                   sent, asked, nextR, seen>>

----------------------------------------------------------------------------
(* sde_mgmt_read_data.                                                     *)

ReadData(n) ==
    /\ pc = "idle" /\ n <= asked /\ (loopback => n <= sent)
    /\ Goto("md", n)
    /\ UNCHANGED <<libVars, buf, ring, cardVars, callVars, seen>>

\* sde_mgmt_read_md: the entry is polled until it is valid, then given back,
\* then its user bits are read, then the index moves on.
PollMd ==
    /\ pc = "md" /\ ring[mdIdx].valid
    /\ Goto("user", left)
    /\ ring' = [ring EXCEPT ![mdIdx].valid = FALSE]
    /\ UNCHANGED <<libVars, buf, cardVars, callVars, seen>>

MdIdxNext_ByBuffers(i) == (i + 1) % RingSize
MdIdxNext(i) == (i + 1) % NumDesc

ReadUser ==
    /\ pc = "user"
    /\ seen' = [due |-> nextR, data |-> NoPacket, user |-> ring[mdIdx].user]
    /\ mdIdx' = MdIdxNext(mdIdx)
    /\ Goto("copy", left)
    /\ UNCHANGED <<loopback, layout, postIdx, bufIdx, cred, buf, ring,
                   cardVars, callVars>>

\* sde_dma_read_data: out of the next buffer.
CopyData ==
    /\ pc = "copy"
    /\ seen' = [seen EXCEPT !.data = buf["c2h"][bufIdx["c2h"]]]
    /\ bufIdx' = [bufIdx EXCEPT !["c2h"] = BufIdxNext(@)]
    /\ nextR' = (nextR + 1) % Ids /\ asked' = asked - 1
    /\ sent' = IF loopback THEN sent - 1 ELSE sent
    /\ Goto(IF left = 1 THEN "idle" ELSE "md", left - 1)
    /\ UNCHANGED <<loopback, layout, postIdx, mdIdx, cred, buf, ring, cardVars,
                   prepared, nextW>>

\* DESC_WAIT_MAX_ITERS polls: SDE_METADATA_VALID_TIMEOUT.  The examples
\* give up then.
MdTimeout ==
    /\ pc = "md" /\ ~ring[mdIdx].valid
    /\ Goto("failed", left)
    /\ UNCHANGED <<libVars, buf, ring, cardVars, callVars, seen>>

----------------------------------------------------------------------------
(* The card.  A packet fills one buffer and takes one descriptor.          *)

\* A data mover takes the next descriptor, which gives its credit back.
Pop(d) ==
    /\ descs[d] # << >>
    /\ fetch' = [fetch EXCEPT ![d] = Append(@, Head(descs[d]))]
    /\ descs' = [descs EXCEPT ![d] = Tail(@)]
    /\ pops' = [pops EXCEPT ![d] = @ + 1]
    /\ UNCHANGED <<libVars, buf, ring, loop, gen, mdQ, mdWr, callVars, pc, left,
                   seen>>

\* The host's buffer is read now, into the loopback.
H2cMove ==
    /\ fetch["h2c"] # << >> /\ Len(loop) < LoopCap
    /\ loop' = Append(loop, buf["h2c"][Head(fetch["h2c"])])
    /\ fetch' = [fetch EXCEPT !["h2c"] = Tail(@)]
    /\ UNCHANGED <<libVars, buf, ring, descs, pops, gen, mdQ, mdWr, callVars, pc,
                   left, seen>>

\* A packet is written to the host's buffer; its metadata follows.
C2hMove ==
    /\ fetch["c2h"] # << >> /\ (loopback => loop # << >>)
    /\ LET pkt == IF loopback THEN Head(loop) ELSE gen
       IN  /\ buf' = [buf EXCEPT !["c2h"][Head(fetch["c2h"])] = pkt]
           /\ mdQ' = Append(mdQ, pkt)
    /\ IF loopback THEN loop' = Tail(loop) /\ gen' = gen
                   ELSE gen' = (gen + 1) % Ids /\ loop' = loop
    /\ fetch' = [fetch EXCEPT !["c2h"] = Tail(@)]
    /\ UNCHANGED <<libVars, ring, descs, pops, mdWr, callVars, pc, left, seen>>

\* sde_wb.sv: the ring is written without a look at the read pointer, which
\* the library never moves.
MdWrite ==
    /\ mdQ # << >>
    /\ ring' = [ring EXCEPT ![mdWr] = [valid |-> TRUE, user |-> Head(mdQ)]]
    /\ mdWr' = (mdWr + 1) % NumDesc
    /\ mdQ' = Tail(mdQ)
    /\ UNCHANGED <<libVars, buf, descs, fetch, pops, loop, gen, callVars, pc,
                   left, seen>>

StatusWrite(d) ==
    /\ pops[d] > 0
    /\ cred' = [cred EXCEPT ![d] = @ + pops[d]]
    /\ pops' = [pops EXCEPT ![d] = 0]
    /\ UNCHANGED <<loopback, layout, postIdx, bufIdx, mdIdx, buf, ring, descs,
                   fetch, loop, gen, mdQ, mdWr, callVars, pc, left, seen>>

Card == H2cMove \/ C2hMove \/ MdWrite \/ \E d \in Dirs : Pop(d) \/ StatusWrite(d)

Start == \/ Write
         \/ \E n \in 1..MaxBatch : StartRead(n) \/ Prepare(n) \/ ReadData(n)

\* A call under way.
Library == PostChunk \/ WriteData \/ PollMd \/ ReadUser \/ CopyData

\* The caller gave up: nothing more is called.
Done == pc = "failed" /\ UNCHANGED vars

Next == Start \/ Library \/ MdTimeout \/ Card \/ Done

Spec == Init /\ [][Next]_vars

\* The card works on, and so does a call: it loops without sleeping.  Nothing
\* obliges the caller to make a call, or a poll to run out.
FairSpec ==
    /\ Spec /\ WF_vars(Library)
    /\ WF_vars(H2cMove) /\ WF_vars(C2hMove) /\ WF_vars(MdWrite)
    /\ \A d \in Dirs : WF_vars(Pop(d))

----------------------------------------------------------------------------
(* What the stream promises.                                               *)

BufIds == 0..(NumBuf - 1)

Packets == 0..(Ids - 1)

\* The indices stay inside the descriptor ring, the buffers and the metadata
\* ring, and every descriptor is a credit, on the card, or on its way back.
TypeOK ==
    /\ loopback \in BOOLEAN /\ layout \in Layouts
    /\ postIdx \in [Dirs -> 0..(RingSize - 1)] /\ bufIdx \in [Dirs -> BufIds]
    /\ mdIdx \in 0..(NumDesc - 1) /\ mdWr \in 0..(NumDesc - 1)
    /\ cred \in [Dirs -> 0..NumDesc]
    /\ buf \in [Dirs -> [BufIds -> Packets \cup {NoPacket}]]
    /\ ring \in [0..(NumDesc - 1) ->
                    [valid : BOOLEAN, user : Packets \cup {NoPacket}]]
    /\ \A d \in Dirs : Len(descs[d]) + pops[d] + cred[d]
                        + (IF pc = d THEN left ELSE 0) = NumDesc
    /\ pc \in Dirs \cup {"idle", "fill", "md", "user", "copy", "failed"}
    /\ left \in 0..MaxBatch

\* Each packet read is the next one sent: its metadata is that packet's, and
\* so is what the buffer held when it was copied (sde_mgmt_read_data).
InOrder ==
    /\ seen.user = seen.due
    /\ pc # "copy" => seen.data = seen.due

\* The metadata ring has no flow control: the card never writes an entry
\* that holds a packet not yet polled, or the one whose user bits the host
\* is about to read (sde_mgmt_read_md gives the entry back first).
RingNotOverrun ==
    [][\A i \in DOMAIN ring : ring'[i] # ring[i] /\ ring'[i].valid
            => ~ring[i].valid /\ ~(pc = "user" /\ i = mdIdx)]_vars

\* A buffer the card has still to read is not filled again
\* (sde_mgmt_prepare_write asks nobody).
InFlightIntact ==
    [][\A i \in BufIds : buf'["h2c"][i] # buf["h2c"][i]
            => \A k \in DOMAIN (descs["h2c"] \o fetch["h2c"]) :
                    (descs["h2c"] \o fetch["h2c"])[k] # i]_vars

\* A read of packets that were asked for comes to an end.
ReadCompletes == pc = "md" ~> pc \in {"idle", "failed"}

=============================================================================
