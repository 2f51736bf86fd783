-------------------------------- MODULE FpgaPci --------------------------------
(***************************************************************************)
(* The PCI library's table of attached BARs (fpga_pci.c), shared by the    *)
(* threads of a process.  Attaching maps the BAR's resource file, then     *)
(* takes a table entry under bars_mutex, then fills it in without the      *)
(* mutex; detaching unmaps, then clears the entry under the mutex.  An     *)
(* access looks the entry up, without the mutex, and uses the address.     *)
(*                                                                         *)
(* A thread is a user of the library: it attaches, accesses, and detaches  *)
(* by itself, or calls one of fpga_mgmt.c's virtual LED and DIP functions, *)
(* which do all three.  It uses a handle only between its own attach and   *)
(* detach.  The kernel hands out any free address range.                   *)
(***************************************************************************)
EXTENDS Integers, FiniteSets

CONSTANTS Threads,
          Res,        \* BARs of PFs of slots: the resource files
          Size,       \* [Res -> Nat]: map->resource_size
          Burstable,  \* SUBSET Res: map->resource_burstable
          Addr,       \* address ranges the kernel can give
          BarsMax,    \* FPGA_PCI_BARS_MAX
          Accesses,   \* <<offset, size>> of the accesses made
          LedAccess,  \* FPGA_VIRTUAL_LED_REG_OFFSET / _DIP_, and 4 bytes
          Wrap,       \* 2^64
          None

ASSUME PciAssumption ==
    /\ BarsMax \in Nat \ {0} /\ Wrap \in Nat \ {0}
    /\ Size \in [Res -> 1..(Wrap - 1)] /\ Burstable \subseteq Res
    /\ Accesses \cup {LedAccess} \subseteq (0..(Wrap - 1)) \X (1..(Wrap - 1))
    /\ None \notin Threads /\ None \notin Res /\ None \notin Addr

Handles == 0..(BarsMax - 1)

VARIABLES
    bars,    \* bars[]: allocated, mem_base (None: NULL), mem_size
    mutex,   \* holder of bars_mutex
    vm,      \* the process's mappings: what an address range shows
    th,      \* a thread: where it is, whether in a vLED or vDIP call, the BAR
             \* attached, mem_base or the address accessed, the handle
    seen     \* history: the last access, the handle and the BAR it reached

vars == <<bars, mutex, vm, th, seen>>

Free == [allocated |-> FALSE, base |-> None, size |-> 0]
Idle == [pc |-> "idle", led |-> FALSE, res |-> None, addr |-> None, h |-> -1]

Init ==
    /\ bars = [i \in Handles |-> Free] /\ mutex = None
    /\ vm = [a \in Addr |-> None]
    /\ th = [t \in Threads |-> Idle] /\ seen = None

At(t, p) == th[t].pc = p
Goto(t, p) == th' = [th EXCEPT ![t].pc = p]
Return(t) == th' = [th EXCEPT ![t] = Idle]

----------------------------------------------------------------------------
(* fpga_pci_attach.                                                        *)

\* Up to the mapping: the slot's description, the identity of the device,
\* the resource file, mmap; any of them may fail (then nothing changes), and
\* BURST_CAPABLE is refused for a BAR that is not.
Attach(t) ==
    /\ At(t, "idle")
    /\ \E r \in Res, led, burst \in BOOLEAN, a \in Addr :
        /\ led => ~burst /\ LedAccess[1] + LedAccess[2] <= Size[r]
        /\ burst => r \in Burstable
        /\ vm[a] = None /\ vm' = [vm EXCEPT ![a] = r]
        /\ th' = [th EXCEPT ![t] = [pc |-> "alloc", led |-> led, res |-> r,
                                    addr |-> a, h |-> -1]]
    /\ UNCHANGED <<bars, mutex, seen>>

\* Taking bars_mutex, in fpga_pci_bar_alloc and fpga_pci_bar_free.
LockBars_Unlocked(t, from, to) ==
    /\ At(t, from) /\ Goto(t, to)
    /\ UNCHANGED <<bars, mutex, vm, seen>>
LockBars(t, from, to) ==
    /\ At(t, from) /\ Goto(t, to)
    /\ mutex = None /\ mutex' = t
    /\ UNCHANGED <<bars, vm, seen>>

\* fpga_pci_bar_alloc: finding an entry, marking it.
AllocScan(t) ==
    /\ At(t, "scan")
    /\ \/ \E i \in Handles :
            /\ ~bars[i].allocated /\ \A j \in 0..(i - 1) : bars[j].allocated
            /\ th' = [th EXCEPT ![t].h = i, ![t].pc = "mark"]
            /\ mutex' = mutex
       \/ /\ \A i \in Handles : bars[i].allocated
          /\ mutex' = None /\ Goto(t, "full")
    /\ UNCHANGED <<bars, vm, seen>>

AllocMark(t) ==
    /\ At(t, "mark") /\ Goto(t, "base") /\ mutex' = None
    /\ bars' = [bars EXCEPT ![th[t].h].allocated = TRUE]
    /\ UNCHANGED <<vm, seen>>

\* err_unmap: munmap's 0 overwrites ret, so the caller goes on with handle -1.
TableFull_NoUnmap(t) ==
    /\ At(t, "full")
    /\ th' = [th EXCEPT ![t] = [@ EXCEPT !.pc = "have",
                                               !.res = None, !.addr = None]]
    /\ UNCHANGED <<bars, mutex, vm, seen>>
TableFull(t) ==
    /\ At(t, "full")
    /\ vm' = [vm EXCEPT ![th[t].addr] = None]
    /\ th' = [th EXCEPT ![t] = [@ EXCEPT !.pc = "have",
                                               !.res = None, !.addr = None]]
    /\ UNCHANGED <<bars, mutex, seen>>

\* fpga_pci_bar_set_mem_base_size, in two stores without the mutex; then
\* attach returns the handle.
SetBase(t) ==
    /\ At(t, "base") /\ Goto(t, "size")
    /\ bars' = [bars EXCEPT ![th[t].h].base = th[t].addr]
    /\ UNCHANGED <<mutex, vm, seen>>

SetSize(t) ==
    /\ At(t, "size")
    /\ bars' = [bars EXCEPT ![th[t].h].size = Size[th[t].res]]
    /\ th' = [th EXCEPT ![t] = [@ EXCEPT !.pc = "have",
                                               !.res = None, !.addr = None]]
    /\ seen' = None /\ UNCHANGED <<mutex, vm>>

----------------------------------------------------------------------------
(* The accesses: fpga_pci_peek, fpga_pci_poke and their 8 and 64 bit forms,*)
(* fpga_pci_write_burst, fpga_pci_memset, fpga_pci_get_address.            *)

\* fpga_pci_bar_get_mem_at_offset: offset + xaction_size is a 64 bit sum.
InBar(entry, a) == /\ entry.allocated /\ entry.base # None
                   /\ (a[1] + a[2]) % Wrap <= entry.size

Access(led) == IF led THEN {LedAccess} ELSE Accesses

\* A vLED or vDIP call whose access is refused returns at once; a user of the
\* library goes on.
Lookup(t) ==
    /\ At(t, "have")
    /\ LET e == IF th[t].h \in Handles THEN bars[th[t].h] ELSE Free IN
       \/ \E a \in Access(th[t].led) :
            /\ InBar(e, a)
            /\ th' = [th EXCEPT ![t].pc = "deref", ![t].addr =
                         IF a[1] + a[2] <= e.size THEN e.base ELSE None]
       \/ /\ th[t].led /\ ~InBar(e, LedAccess)
          /\ Return(t)
    /\ UNCHANGED <<bars, mutex, vm, seen>>

Shows(a) == IF a = None THEN None ELSE vm[a]

Deref(t) ==
    /\ At(t, "deref")
    /\ seen' = [by |-> th[t].h, res |-> Shows(th[t].addr)]
    /\ th' = [th EXCEPT ![t].addr = None,
                        ![t].pc = IF th[t].led THEN "close" ELSE "have"]
    /\ UNCHANGED <<bars, mutex, vm>>

----------------------------------------------------------------------------
(* fpga_pci_detach: munmap first, then fpga_pci_bar_free.                  *)

\* munmap(NULL, 0) fails, and so does a handle that is none.
Unmap(t) ==
    /\ At(t, IF th[t].led THEN "close" ELSE "have")
    /\ IF th[t].h \in Handles /\ bars[th[t].h].base # None
       THEN /\ vm' = [vm EXCEPT ![bars[th[t].h].base] = None]
            /\ Goto(t, "free") /\ seen' = None
       ELSE Return(t) /\ UNCHANGED <<vm, seen>>
    /\ UNCHANGED <<bars, mutex>>

FreeClear_MarkOnly(t) ==
    /\ At(t, "clear") /\ Return(t) /\ mutex' = None
    /\ bars' = [bars EXCEPT ![th[t].h].allocated = FALSE]
    /\ UNCHANGED <<vm, seen>>
FreeClear(t) ==
    /\ At(t, "clear") /\ Return(t) /\ mutex' = None
    /\ bars' = [bars EXCEPT ![th[t].h] = Free]
    /\ UNCHANGED <<vm, seen>>

Step(t) == \/ Attach(t) \/ LockBars(t, "alloc", "scan") \/ TableFull(t)
           \/ SetBase(t) \/ SetSize(t) \/ Lookup(t) \/ Deref(t) \/ Unmap(t)
           \/ LockBars(t, "free", "clear") \/ AllocScan(t)
           \/ AllocMark(t) \/ FreeClear(t)

Next == \E t \in Threads : Step(t)

Spec == Init /\ [][Next]_vars

----------------------------------------------------------------------------
(* Properties.                                                             *)

\* The table's shape: an entry that is not allocated is all zeroes, so that
\* the next attach of it cannot show an older BAR's address.
TypeOK ==
    /\ bars \in [Handles -> [allocated : BOOLEAN, base : Addr \cup {None},
                             size : 0..(Wrap - 1)]]
    /\ \A i \in Handles : ~bars[i].allocated => bars[i] = Free
    /\ mutex \in Threads \cup {None} /\ vm \in [Addr -> Res \cup {None}]
    /\ th \in [Threads ->
                  [pc : {"idle", "alloc", "scan", "mark", "full", "base", "size",
                         "have", "deref", "close", "free", "clear"},
                   led : BOOLEAN, res : Res \cup {None},
                   addr : Addr \cup {None}, h : Handles \cup {-1}]]

Holds(t) == th[t].pc \in {"have", "deref", "close"} /\ th[t].h \in Handles

\* Every mapping belongs to a thread that is attaching it or holds its handle,
\* and every entry to one that is not idle: no path of an attach, a detach or
\* a vLED or vDIP call, full table included, leaves one behind.
NoLeak ==
    /\ \A a \in Addr : vm[a] # None =>
        \E t \in Threads :
            \/ /\ th[t].pc \in {"alloc", "scan", "mark", "full", "base", "size"}
               /\ th[t].addr = a
            \/ Holds(t) /\ bars[th[t].h].base = a
    /\ \A i \in Handles : bars[i].allocated =>
        \E t \in Threads : ~At(t, "idle") /\ th[t].h = i

\* The table implements the promise of BarHandles: while threads attach and
\* detach around it, a handle's accesses reach the BAR it was given for.
BH == INSTANCE BarHandles WITH
        owner <- [i \in Handles |->
                    IF \E t \in Threads : Holds(t) /\ th[t].h = i
                    THEN Shows(bars[i].base) ELSE None]
HandlesIsolate == BH!Spec

===============================================================================
