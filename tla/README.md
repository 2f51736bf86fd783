# TLA+ models of the AWS FPGA development kit

This directory holds TLA+ models of the parts of the F2 development kit that
carry protocol logic of their own: the Streaming Data Engine (SDE) of
`hdk/cl/examples/cl_sde`, hardware and driver library together, and the user
space of `sdk/userspace`: the FPGA management library with its mailbox, the PCI
library, the clock generator library and the command-line tools.
`PROJECT.json` lists the components, the TLC runs, which definition stands for
which source lines, the hazards the properties are aimed at, and the theorems.

    tlc -workers 2 -config SdeCreditSafe.cfg MCSdeCredit
    tlapm SdeCreditProofs.tla

## Inventory

### Streaming Data Engine

The SDE moves packets between host memory and AXI streams of the custom logic,
one card-to-host (C2H) and one host-to-card (H2C) channel. Both channels have
the same descriptor path:

1. The driver library (`sde_lib/`) keeps a ring of DMA descriptors
   (`sde_dma_buffer.c`) and, per channel, the number of descriptors it has
   posted (`c2h_desc_consumed`, `h2c_desc_consumed` in `sde_mgmt.c`). A call
   (`sde_mgmt_write`, `sde_mgmt_start_read`) polls a status word in host memory
   until its credit limit is far enough ahead of that count, then pokes the
   descriptors dword by dword through BAR4 (`sde_hw_ctrl.c`).
2. The PCIS slave (`sde_ps.sv`) and an accumulator (`sde_ps_acc.sv`) gather the
   dwords and hand whole descriptors to the descriptor block (`sde_desc.sv`):
   a RAM used as a ring, a flow-through FIFO behind it (`ft_fifo.v`), a counter
   of descriptors consumed and the credit limit. A full RAM does not push back.
3. The data mover (`sde_c2h_data.sv`, `sde_h2c_data.sv`) pops descriptors, which
   raises the limit, and moves the data through `sde_*_buf.sv` and `sde_*_axis.sv`.
4. The write-back block (`sde_wb.sv`) copies the limit, error bits, completion
   counts and (C2H) per-packet metadata to host memory. Status writes are
   coalesced by a counter and a timer, go out through the PCIM arbiter
   (`sde_pm.sv`), and are tracked until their response.
5. The host reads a packet by its metadata entry, then copies it out of the
   buffer the descriptor pointed to; it fills buffers for the other direction.
   A slot's memory, handles and addresses live from `sde_mgmt_init` to
   `sde_mgmt_close` (`sde_mem.c`, `fpga_dma_mem.c`).

Host and card run concurrently and share only posted writes in both directions,
so every count one side reads of the other is old. What makes the channel
correct: the driver never posts into a full ring although nothing else holds it
back; credits are neither lost nor invented, also when two events fall into one
clock, counters roll over, status writes queue up or a poke fails; every credit
given back is heard of in the end; each packet is read once, in order, with its
own metadata, although descriptors, buffers and metadata are indexed apart; and
a slot gives back what it took, whatever failed while it was set up.

| Part | State | Operations |
| --- | --- | --- |
| driver library | posted count, ring, buffer and metadata indices, position in a call | wait, post, reset, configure, check status, read metadata and data, prepare write |
| slot | mapped memory, buffer arrays, BAR handles, flags | init, set buffers, reset, configure, post, close |
| descriptor block | RAM, pointers, flags, FIFO flops, two counters | one clock: write and/or pop |
| write-back block | latched values, pending bits, coalescing counts and timers, response slots | request, start, latch, send, response; metadata ring |
| data movers, buffers, stream ends | FSMs, FIFOs | pop, request, data, completion |
| accumulator | dwords so far | gather, hand over |

### User space

`fpga_mgmt.c` describes, loads and clears the image of a slot. Every command is
one message to the shell through a mailbox (`fpga_mgmt_cmd.c`,
`fpga_hal_mbox.c`): write buffer and TX event, read buffer and RX event.
Attaching clears both events; a write waits for its TX event and a read for the
RX event, each for at most `timeout` polls. An answer that belongs to another
command is dropped, `AFI_MAX_RETRIES` times. A description that times out or is
malformed is sent again, and the synchronous load and clear poll descriptions
until the image is there. The hard part is time: every wait may end before the
shell answers, and the late answer meets a later command. What makes it correct:
an answer is used only for the command it belongs to, success means success,
and each call returns even if the shell does not.

`fpga_pci.c` keeps a table of attached BARs for the threads of a process, with
a mutex that covers part of attach and detach. `fpga_pci_sysfs.c` finds a
slot's functions in sysfs and removes and rescans the application PF after a
load; sysfs belongs to all processes of the host. A handle has to stand for one
BAR as long as it is held, no mapping may be left behind, and a PF that a dead
process removed has to be found again.

`fpga_clkgen*.c` programs four MMCMs, register by register, while the custom
logic is in reset. Any access may fail, lock may come late or never, and what a
process believes of an image's clocks is as old as its last look.

`fpga_local_cmd*.c` parse a command line, attach, carry out one command and
exit; several run at a time, on slots of their own, and may be killed.

### The rest of the repository

The DMA library, the virtual Ethernet and MSI-X applications, the HDK's common
FIFOs and synchronizers, the verification environment, the other example
designs, and the build scripts and documents: pure I/O, wiring around vendor
IP, third-party code or scripts. See "Not modelled".

## Modules

| Module | Models | Uses |
| --- | --- | --- |
| `BoundedFifo` | what a FIFO promises (abstract) | |
| `SdeDesc` | descriptor block, one step per clock | refines `BoundedFifo` |
| `SdeCredit` | driver, PCIe paths, descriptor block, write-back block of one channel | extends `SdeDesc` |
| `SdeStream` | packets in both directions: library indices, buffers, metadata ring, data movers | |
| `SdeSlot` | what a slot owns and what the card knows of it, init to close | |
| `FpgaMgmt` | management library, mailbox and (external) shell of one slot | `Descent` |
| `BarHandles` | what a BAR handle promises (abstract) | |
| `FpgaPci` | table of attached BARs, accesses, virtual LED and DIP calls, by thread | refines `BarHandles` |
| `ClkGen` | clock generator library and its MMCMs | `Descent` |
| `AppPf` | application PFs in sysfs: look-up, recovery, remove, rescan, failing accesses, slow drivers | |
| `FpgaTool` | command-line tools as processes | extends `AppPf`, `Descent` |
| `Descent` | the order of ranks that bounded loops run down | |
| `MC*` | what TLC is run on | extend the above |
| `*Proofs` | the theorems | extend the above |

Operators with a suffix after an underscore (`WaitOk_OffByOne`) are deliberate
mutations of the operator below them; each shows that some property is not
vacuous (`mutants` in `PROJECT.json`), and none is part of a specification.

### SdeDesc

Variables carry the names of the flops they stand for. `DescClock(wr, pop)` is
one clock edge with its two inputs: RAM ports and pointers (`RamWrite`,
`RamRead`), registered flags (`FlagsClock`), flow-through FIFO (`RamPop`,
`FtClock`) and credits (`CreditClock`) are the `always` blocks of the source,
all reading the old state. On its own the block is driven by a writer that
honours the credits and a data mover that pops at will. The 32-bit counters
roll over at `W`; pointers keep their wrap bit (modulo `2 * Depth`). A
descriptor is an opaque value, the CSR access path to the RAM, which the
library never uses, is left out. `oflow` is the sticky copy in the CSR block,
which the status word shows.

### SdeCredit

The driver's calls are split where the card can interleave: `BeginPost`,
`WaitOk` or `WaitTimeout`, one `Poke` a descriptor, `PostDone`. The ring index
moves by whole chunks and the posted count only at the end of the call, as in
`sde_dma_post_desc` and `sde_mgmt_post_desc`. `PokeFail` is any failing poke:
the call ends and counts all its descriptors. The dwords of the descriptor that
failed may be completed by later ones, so that one more descriptor arrives or
none; their content is not modelled. `Reset` and `Cfg` are `sde_mgmt_reset` and
`sde_mgmt_cfg`. Pokes (`chan`) and status writes (`flight`) arrive later and in
order; `MaxChan` and `MaxFlight` bound what is on its way.

`PendClock` is the request logic of the write-back block, run with every clock
of the card; `WbTimer` the coalescing timer running out, at any time it can run.
`WbStart`, `WbLatch` and `WbSend` are the phases of a status write in which more
pops may happen, `WbBresp` its response. The waits a data mover has between two
pops are left out: `DmPop` may happen in any clock in which a head is valid.

### SdeStream

The same library seen by packet instead of by credit: both directions, one
descriptor and one buffer a packet, credits as a number that a status write
raises. `postIdx`, `bufIdx` and `mdIdx` are the indices of
`sde_dma_buffer.c` and `sde_mgmt.c`, each with its own wrap (descriptors of the
ring, buffers of the layout, metadata entries); `PostChunk`, `WriteData`,
`PollMd`, `ReadUser` and `CopyData` are the loop bodies of the calls, so that the
card moves between any two of them. `sde_mgmt_read_md` clears the valid bit
(`PollMd`) before it reads the user bits (`ReadUser`), as the code does. The card
(`Pop`, `H2cMove`, `C2hMove` for the two data movers, `MdWrite` and `StatusWrite`
for the write-back block) takes descriptors in order, reads or writes the buffer
they point to, hands the metadata over only after the data, and writes the metadata
ring without looking at the read pointer. The movers are reduced to packets of
one descriptor and may have taken several descriptors before the first moves. The caller is that of the example programs: either C2H
from a traffic generator or a loopback, at most `Window` packets under way. What
`RingNotOverrun` and `InFlightIntact` show depends on that window: the library
checks nothing by itself.

### SdeSlot

One step per allocation and attach of `sde_mgmt_init`, each of which may fail;
`field` is the slot's record, `live` what the process really holds, `lost` what
no record knows any more, `told` the addresses the card has. `MemFail` keeps the
address `map_page` publishes before it unmaps the page again; `BarStep` is one of
the three attaches of `sde_hw_init`, which goes on after a failure and ors the
results. An attach has three outcomes: a handle, a failure, or, when the PCI
library's table is full, 0 with handle -1 (`TableFull` in `FpgaPci`), so that an
initialised slot may lack a BAR. `LacksOnlyBars` says that it lacks nothing else,
and that `Reset`, which needs BAR0, and `Cfg`, which needs BAR4, then fail at their
first access. `InitCall` wipes the record without a look. `Close` frees what the layout says, leaves the arrays'
addresses and `initialized` in the record and does not stop the engine. The
application may map memory at any time it is not in a call, and gets the
addresses that are free: that is how a stale one would hurt. The caller resets
before it configures and closes an initialised slot once.

### FpgaMgmt

One action per access pattern of the mailbox HAL: `Attach`, `WriteClear`,
`Write`, `Ack`, `Read`, `ReadTimeout`, and one per outcome of the code around
it: resend, next stage, judgement of a description. `pc` and `stage` say where
the caller's thread is; `ret` is the value on its way up. A poll loop that has
not run out is a stuttering step, one that has is a `...Timeout` or the second
disjunct of `Ack`; whether the shell is faster is left open. `Attach` is one step
although the code peeks the events and then pokes them away: an answer cannot be
put on top of one that has not been read, and a TX event that comes in between
and is cleared is the same as one that came before.

The shell is not in the repository. Its actions are what the library relies on:
it takes one command at a time and sets the TX event, copies the id into its
answer, puts no answer on top of an unread one, refuses a load or clear while
another is going on, and finishes it in its own time, perhaps asking for an RL
reload. It may be as slow as it likes, refuse, and send messages that make no
sense. A message is one unit; each carries, besides its id, the ordinal `inst`
of the command it belongs to, which only the properties read.

One process at a time uses a slot (the tools' README rules out others). With
`Restarts` it may end anywhere and be started again. Left out: the prefetch
flag (in `FpgaTool`), message lengths, `fpga_mgmt_close`, and the PCI rescan
after a load (in `FpgaTool`).

### FpgaPci and BarHandles

A thread attaches (`Attach`: all up to `mmap`, then `AllocScan` and `AllocMark`
under `bars_mutex`, then `SetBase` and `SetSize` without it), looks an entry up
and uses the address it got (`Lookup`, `Deref`, two steps), and detaches
(`Unmap`, then `FreeClear` under the mutex). `led` threads are inside a virtual
LED or DIP call of `fpga_mgmt.c`, which does all of that and returns at once if
its access fails. Addresses are the kernel's: any free range, also one just
unmapped by another thread. The bounds check of an access is a 64-bit sum
(modulo `Wrap`). `BarHandles` says what `fpga_pci.h` promises; the refinement
maps a handle's owner to the resource its mapping shows. `TableFull` goes on with
handle -1 as the code does: `munmap`'s 0 overwrites the error, so that
`fpga_pci_attach` returns 0 with a handle that every later call refuses.

### ClkGen

One action per register access that matters, in the order of
`aws_clkgen_set_recipe`, `_set_dynamic`, `_get_dynamic` and the reset calls:
`AssertReset`, per MMCM `WriteShared`, `WriteDiv` for each divider, `WaitLocked`,
`LoadCfg`, `WaitLocked`, and `PollLock` and `Release` at the end. Each has a
failing disjunct. `regs` is what is written, `act` what the clocks run at since
the last load. The recipe and frequency tables are the code's; `TableSound`
checks the second against what a user may ask for. `tab` is the process's table
of MMCMs, of which `any_clocks_available` is never taken back; `LoadImage`
changes the clocks there are under it. `PollLock` that runs out of time returns
success, as the code does, without releasing the resets: `RunsOnLocked` and
`SetMeansSet` are what remains true then.

Which clocks an image has (`ClocksRead`) and which MMCMs are locked (`Lock`) are
read from registers of `hdk/common/lib/aws_clk_regs.sv`, which follow the image's
parameters and the lock outputs. The MMCMs behind them are vendor IP: a load
drops lock until the MMCM locks, and nothing else changes what the clocks run at.

### AppPf and FpgaTool

`AppPf` makes a step of each access to sysfs in `fpga_pci_get_slot_spec`,
`fpga_pci_get_all_slot_specs` and `fpga_pci_rescan_slot_app_pfs`, with the retries
and rescans of `fpga_pci_check_app_pf_sysfs`. The kernel shows the ids it read
when it found the device. Every access may fail (`IoError`): a failing write to the
remove file leaves the PF there, a failing write to the rescan file leaves it
removed. A call that fails because the device was missing (`failed`) is told apart
from one whose access failed (`ioerror`). A driver may be at its remove function
when the write to the remove file returns; the comment at
`fpga_pci_sysfs.c:922-927` says that the rescan may then not expose the new ids. The
cards of `SlowCards` have such drivers: they keep the old device until `Gone`.

`FpgaTool` adds the tools: `CommandLines` is what the
parsers can leave after any sequence of at most `MaxArgs` options (`Turned`
turns their loops that often), unreadable numbers included (the parsers ignore
the result of `string_to_uint`, so that `-S` keeps the slot of an earlier option
and `-r` uses an uninitialised variable), and the commands are sequences of
library calls. The mailbox traffic of a load is `FpgaMgmt`'s; here a command
takes, settles later, or fails. A status poll that fails ends a synchronous load
or clear with the `status_q` of an earlier description: `Fails` when that is an
error, `Unseen` when it is 0, after which the tool prints the ids as if the image
were there and exits 0 (the finding of `mgmt_sync`). `seen` records that the library
did see the load end. `ShowsTheImage` therefore promises the image's ids to those
loads only, and to every load with exit code 0 that what it printed is what sysfs
shows. `OwnSlotFound` is about tools that end because a device was missing
(`ret = "missing"`). Both leave out the cards of `SlowCards`.

## Runs

Passing runs, with the reason for their bounds:

| Run | Shows | Bounds |
| --- | --- | --- |
| `desc_block` | credits of the descriptor block are exact and it does not overflow (`CreditsExact`, `NoOverflow`), it implements a FIFO (`ImplementsFifo`) and shows its head unasked (`HeadBecomesValid`) | 4 slots: more than the FIFO's three places, so RAM and flops fill and wrap separately; counters modulo 16, so they roll over at every alignment to the ring; two descriptor values tell order apart |
| `credit_safe` | the driver's wait means room (`WaitMeansCredit`), the limit in host memory is never ahead (`HostNeverAhead`) and only moves forward (`HostLimitForward`), no overflow, with pokes that fail any number of times | 3 slots, calls for 1 to 3, counters modulo 8 (not a multiple of the depth), two writes under way each way |
| `credit_live` | pops reach the host (`LimitReachesHost`), a waiter is served (`WaiterServed`), both while the SDE is not reset; an overflow, which only a reset can cause, reaches the status word (`ErrorReported`) | 2 slots, calls for the whole ring, coalescing by 2; counters modulo 6, so that a count left by a reset admits more than RAM and FIFO hold; no failing pokes, because a failed call's credits are counted and never come back, so that a later call for the whole ring waits in vain |
| `sde_stream` | packets are read in order with their own metadata (`InOrder`), the metadata ring is not overrun (`RingNotOverrun`), no buffer in flight is filled (`InFlightIntact`), a read ends (`ReadCompletes`) | rings of 3, layouts with 1, 2 and 3 buffers so that the three wraps differ, calls for 2, packets numbered modulo 7 |
| `sde_life` | an initialised slot lacks at most BARs that a full table kept from it, and then neither resets nor configures without them (`LacksOnlyBars`), a closed one has given all back (`CloseFrees`), the application's memory stays (`AppIntact`), a configured card knows only present memory (`CardKnowsOurs`) | two lives of the slot, every direction and layout, two buffers, two regions of the application; 24 resources are all that two lives and the application can take |
| `mgmt_slow` | own answers only (`OwnAnswer`), no old status (`SeenIsTrue`), reload only when asked (`ReloadWhenAsked`) | two images, 5 commands, one resend, one extra poll, failing accesses |
| `mgmt_live` | each step of a call brings its end nearer (`CallRunsDown`), and it returns (`CallReturns`) | 4 commands, failures and restarts |
| `pci_bars` | nothing is left behind (`NoLeak`), handles do what they promise (`HandlesIsolate`) | 3 threads for 2 table entries, so that the table fills; 3 address ranges; BARs of two sizes |
| `clkgen` | logic out of reset has locked clocks (`RunsOnLocked`), none above its limit (`NeverOverclocked`), success means set (`SetMeansSet`), every frequency gets a sound row (`TableSound`), calls run down and return (`CallRunsDown`, `CallReturns`) | two calls, so that the second meets the table, the registers and the locks the first has left; two images with different clocks and one without the block; two polls a wait; all four MMCMs |
| `tools` | a synchronous load that ends with 0 has printed what sysfs shows, and the image's ids if it saw the load end (`ShowsTheImage`), a PF removed by a dead or failed tool is found again (`OwnSlotFound`), only the slot named last is touched (`OnlyNamedSlots`), tools run down and end (`ToolRunsDown`, `ToolEnds`) | two processes, one that loads a card and one that describes the other card and an empty slot, the latter with a slow driver, every command line of up to three options, the fewest in which a load can have its slot, its image and one option more; one image, so that a load or clear either changes the ids or leaves them; one rescan, after which a look-up gives up; every access may fail |

In the code `AFI_MAX_RETRIES` is 1, as in the runs; a description is sent again
up to 31 times and a synchronous call polls at least `FPGA_MGMT_SYNC_TIMEOUT`
times; in the runs each loop repeats once, which is enough for a late answer to
meet each kind of command after it. Waits that are thousands of polls in the code
take two steps: what differs between them is only what else happens meanwhile,
which may be anything between any two steps.

Deadlock is checked for the SDE channel, `sde_stream`, `pci_bars` and `tools`.
The other runs do not: a program may make no more calls, and the bounds `MaxCmd`,
`MaxCalls` and `MaxInits` end every behaviour.

Runs that are expected to fail, each a disagreement between code and text
(`findings` in `PROJECT.json`):

- `credit_reset`: `sde_mgmt_reset` does not reset the driver's count of consumed
  descriptors, so that later waits succeed without credits.
- `mgmt_sync`: a synchronous load or clear whose polling failed returns the
  `status_q` of an earlier description, which is 0.

`mgmt_slow` states what remains of the promise `mgmt_sync` refutes: a call that
did see the status it waited for (`stage = "post"`) tells the truth. Three more
observations are in the models without a run of their own: an `AFI_CMD_ERROR`
answer is accepted whatever its id (`Validate`); ids of all processes start
alike, `rand()` being unseeded, which is why `OwnAnswer` is checked and proved for
one process (`Restarts = FALSE`) and only `CallReturns` across restarts; and
`aws_clkgen_reset` returns 0 when the MMCMs do not lock in time (`PollLock`).

### Fairness

- `DescFairSpec`: the clock runs.
- `SdeCredit!FairSpec`: the driver's thread runs on within a call; the PCIe
  paths deliver; the card's clock runs; the write-back block and its timer are
  clocked logic; the data mover gets back to popping, because the streams of
  the custom logic keep moving (if it stalls them for ever, a timeout is all
  the driver can give). No new call, timeout, failure or reset is required. The
  timer matters: the library configures 15 ticks of 0x40000 clocks, about 16 ms,
  while `DESC_WAIT_MAX_ITERS` polls take milliseconds, so that `WaiterServed` is a
  promise to a driver that polls on, and `WaitTimeout` may always come first.
- `SdeStream!FairSpec`: a call runs on, the data movers and the write-back block
  work; status writes, new calls and timeouts are not required.
- `FpgaMgmt!FairSpec`, `ClkGen!FairSpec`, `FpgaTool!FairSpec`: a thread or tool
  that is in a call runs on. Nothing is asked of the shell, the MMCMs, slow drivers
  or other processes: all the loops are bounded.

## Proofs

Every invariant and every action property that a passing run checks is also a
theorem, and so are both refinements; the type invariants of `SdeDesc`,
`SdeCredit` and `SdeStream`, which the others rest on, are theorems only. What is
left to TLC is liveness (at the end of this section). All theorems hold for every
value of the constants that the named assumptions of the modules allow; TLC
evaluates those on every run. What a theorem asks beyond them is in its statement:

| Asked | Where | Why |
| --- | --- | --- |
| `ReCfg = FALSE` | `SdeCreditProofs` | the SDE is not reset in mid-life; after a reset `WaitMeansCredit` is false (`credit_reset`) |
| `Restarts = FALSE` | `FpgaMgmtProofs` but for `CallsRunDown` | one process: ids of two processes start alike, and an answer to the dead one's command is taken for one's own |
| `NoWrap` | `HandlesAreIsolated` | `fpga_pci_bar_get_mem_at_offset` adds offset and size without looking for a carry, so an offset close to 2^64 passes the bounds check; accesses whose sum is below 2^64 are those the programs make |
| `DefaultFits`, `DefaultSafe` | `ClkGenProofs` | what the MMCMs were built with fits their registers, and is within the limits; the build recipes are rows of the tables, for which both are proved (`RecipeRow`) |
| `MaxRetries > 0` | `OwnPfIsFound` | `FPGA_CHECK_APP_PF_MAX_RETRIES` is 3 |

In each module the inductive invariant is defined at the top, a lemma proves it
of the initial states and lemmas prove it of the steps, one case per action.

**`SdeDescProofs`** (`DescTypes`, `DescBlockCorrect`, `CreditsAreExact`,
`RamNeverOverflows`). Invariant `DescInv`: types, exact flags (`FlagsExact`), at
most two words past the RAM's read port (`FtNeverOverrun`), valid descriptors in
every slot between the pointers (`SlotsValid`, without which a fetched word might
be none), and exact credits. `RingStep` shows that one clock moves the occupancy
by its write and its pop and needs only that a write finds room; `CreditStep` that
the counters move along. **`DescIsFifo`** is the refinement of `BoundedFifo`:
`Contents` is looked at cell by cell (`Cell`), first the words past the read port,
then the ring from the read pointer on; a pop shifts all cells by one, a fetch
moves the border between the two parts and no cell.

**`SdeCreditProofs`** (`CreditTypes`, `CreditNoOverflow`, `CreditSafe`,
`HostIsNeverAhead`, `HostLimitMovesForward`). Occupancy and credit are linked only
through a chain of old copies, so the invariant `CreditInv` orders them, measured
as distances ahead of the driver's own count, so that roll-over disappears: the
limit in host memory, then the status writes in flight in order, then the latched
limit, then the card's (`ChainInv`). `LimitInv` says that the card's limit leaves
room for all that is in the ring or on its way, and `DriverInv` that a posting
driver has the credits it waited for. `SubAdvance`, `LimitAdvance` and
`SubBetween` carry the modular arithmetic. Failing pokes are included: they only
make `LimitInv` an inequality.

**`SdeStreamProofs`** (`StreamTypes`, `PacketsInOrder`, `RingIsNotOverrun`,
`InFlightStaysIntact`). Neither the library nor the card compares its indices with
the other's, so the invariant `StreamInv` follows the packets instead: from the
reader's place on, so many are in the metadata ring (`Held`), so many on their way
there, so many in the loopback, and the descriptors go on where the packets end.
`Chain` says that a queue names successive places of a ring, `Holds` that a buffer
array holds successive packets; `PosProps` is the arithmetic of places. The types
of the indices follow from the counts between them adding up to the rings.

**`SdeSlotProofs`** (`OpenSlotLacksOnlyBars`, `CloseFreesAll`,
`CardIsToldTheTruth`, `ApplicationKeepsItsMemory`). Invariant `SlotInv`: what `sde_mgmt_init` still has
to fill is empty and the rest filled but for the attaches that gave no handle
(`InitInv`); while a
slot is being initialised or open no address in it is stale or shared
(`WholeInv`); what the library has live is what its record knows and what earlier
initialisations lost (`AccountInv`, the reason why a close frees everything but
those). That the application keeps its memory needs `WholeInv`: a stale address
could be the application's by now.

**`FpgaMgmtProofs`** (`MgmtTypes`, `MgmtSafe`, `SeenStatusIsTrue`,
`ReloadOnlyWhenAsked`, `CallsRunDown`). Ids are handed out in step with the commands' ordinals and
copied unchanged (`IdInv`), error answers and no others carry refusals
(`CauseInv`), so a success means that the answer read has the id, hence the
ordinal, of the command (`ReturnInv`); `PresenceInv` says where there is a message
at all. The synchronous calls need `ImageInv` on top: messages of older commands
are told apart by their ordinals (`OrderInv`); when the answer to the load or
clear is there the shell has begun with it and nothing else is under way that
would change the image (`CmdInv`); the descriptions after it leave the image on
its way to what was asked for, so a final status that an answer reports, however
late, is still the status (`PollInv`, `PostInv`), and a request for an RL reload
still stands (`ReloadInv`). Ids are natural numbers in the model: a roll-over of
the 32-bit id within the lifetime of a stale answer is left out.

**`FpgaPciProofs`** (`TableShape`, `NothingLeaks`, `HandlesAreIsolated`). The mutex
covers only part of attach and detach; what keeps threads apart is ownership. An
entry is one thread's from the scan that finds it to the clear (`EntryInv`), a
mapping one thread's from its `mmap` to its `munmap` (`MapInv`), and after the
`munmap` the entry keeps an address that is somebody else's by then but no longer
anybody's handle. The refinement of `BarHandles` then maps each step to a step on
the owner or to a stutter.

**`ClkGenProofs`** (`ClkTypes`, `LogicRunsOnLocked`, `SetCallsSet`,
`ClocksKeepLimits`, `AllGroupsSound`, `TablesAreSound`, `CallsRunDown`). Invariant `ClkInv`: the
process's table is the card's and the logic is in reset while MMCMs are programmed
(`CardInv`), what has been written so far is the target's (`WriteInv`), what a call
that said all is well asked for is what runs (`AskedInv`). The limits rest on a
lemma about the tables: every row of them fits the registers and keeps its group's
limits (`RecipeTableSound`, `RecipeRow`, `FreqConfigSound`), and the rows rise
(`RowsRise`), so that a higher frequency never gets a slower row.

**`FpgaToolProofs`** (`NamedSlotsOnly`, `OwnPfIsFound`, `LoadShowsItsImage`,
`ToolsRunDown`). The
parsers come first: an option leaves a form that is good only with a slot that was
named (`TurnSound`), hence so do any number of them (`TurnedSound`; the induction
over the number of options is one over a set of numbers, `NatAll`). Invariant
`ToolInv` then says of each process where its tool is (`PhaseOk`), what a look-up
of its own slot knows of the device (`WalkOk`) and what a load knows of ids and
image (`LoadOk`), for cards whose driver lets go in time. Others can only be gentle
with its cards: bring back a device that is missing, with the ids of the image, and
end a load (`Gentle`, `GentleKeeps`); a slow driver at last letting go touches only
a card of `SlowCards` (`GoneKeeps`), and a failing access ends the call and moves
nothing (`IoErrorKeeps`); that a process works only on its own slots is `fpga_mgmt.h`'s
demand on the users of the library (`ToolAssumption`).

**Bounded loops** (`CallsRunDown` of `FpgaMgmtProofs` and of `ClkGenProofs`,
`ToolsRunDown`). What can be proved of "every call returns" is its safety half: a
rank, a tuple of natural numbers in lexicographic order (`Below` in `Descent`),
that each step of a call lowers until the last one, so that no call has an infinite
run of steps, whatever shell, hardware and other processes do and for any bounds of
the loops. The components of the ranks are the code's loops, the outer ones first:

| Rank | Components |
| --- | --- |
| `FpgaMgmt` | stages of a synchronous call, status polls, whether a command may still be sent, resends, place in the exchange with the shell, answers that may still be dropped |
| `ClkGen` | part of the call, MMCMs left, place in the programming of one, dividers left, lock polls left |
| `FpgaTool` | the tool's place, the check after a rescan, cards left to list, place in the look-up, retries, looking or asking for a rescan |

They need little of the invariants, only that counters keep to their limits
(`LoopInv`, `CountInv`, and `AgainInv` beside `ToolInv`), hence no assumption on
restarts or on how the MMCMs were built. A component must not be put off by what
somebody else does: a PF that vanishes again and again costs a retry each time,
because `tries` starts anew only where the look-up has got further.

Only model-checked: liveness (`HeadBecomesValid`, `LimitReachesHost`,
`WaiterServed`, `ErrorReported`, `ReadCompletes`, `CallReturns` of both modules,
`ToolEnds`), because the proof system has no rules for fairness with `ENABLED`; of
the last three, what is left to TLC is that a call or a tool is never stuck. The
two properties that runs refute (`credit_reset`, `mgmt_sync`) are not theorems for
that reason.

## Plan

Done: all modules of the table above, and theorems for all their safety properties,
refinements and bounded loops.

Worth proving next: what happens after a restart of a process, as an invariant of
its own beside `OwnAnswer` (which answers can still be under way, and that a second
attach discards them); that the credits of `SdeCredit` refine a single abstract
counter of free slots.

Worth modelling next: the descriptor accumulator and the pokes of single
dwords, with what a failure in mid-descriptor does to framing (`sde_ps_acc.sv`);
packets over several descriptors in the data movers.

## Not modelled

- CSR decoding, AXI handshakes, `sde_*_buf.sv`, `sde_*_axis.sv`, `sde_pm.sv`: no
  decisions of their own that reach the properties; the data movers' bursts and
  alignment: arithmetic on data.
- Completed-descriptor and packet counters of the write-back block: the library
  does not read them.
- Parsing of sysfs files, sorting of slots, what the tools print, the protocol of
  the virtual JTAG server: text in and out.
- The DMA library: opening and reading driver files.
- The shell's side of every interface, the MMCMs and other vendor IP: not in the
  repository; modelled as far as the libraries rely on them.
- Virtual Ethernet, MSI-X applications and drivers' patches (third-party code), the
  verification environment, the other example designs, build scripts, documents.
