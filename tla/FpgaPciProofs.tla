--------------------------- MODULE FpgaPciProofs ---------------------------
(***************************************************************************)
(* Proofs about the table of attached BARs, for any number of threads,     *)
(* BARs, address ranges and table entries: no path leaves a mapping or an  *)
(* entry behind, and the table implements BarHandles.                      *)
(*                                                                         *)
(* The argument: bars_mutex covers only part of attach and detach, so that *)
(* what keeps the threads apart is ownership.  An entry belongs to the     *)
(* thread that found it until that thread clears it (EntryInv), a mapping  *)
(* to the thread that made it until that thread undoes it (MapInv); an     *)
(* entry keeps a stale address after the unmapping, which somebody else    *)
(* may own by then, but it is no longer anybody's handle.                  *)
(***************************************************************************)
EXTENDS FpgaPci, TLAPS

\* The accesses do not wrap around 2^64: the sum in the bounds check of
\* fpga_pci_bar_get_mem_at_offset is what it seems to be.
NoWrap == \A a \in Accesses \cup {LedAccess} : a[1] + a[2] < Wrap

AttachPcs == {"alloc", "scan", "mark", "full", "base", "size"}
EntryPcs == {"mark", "base", "size", "free", "clear"}

\* The mapping a thread has to answer for.
MapOf(t) == IF th[t].pc \in AttachPcs THEN th[t].addr
            ELSE IF Holds(t) THEN bars[th[t].h].base ELSE None

\* Who is in the critical section, and who has an entry at all.
PcInv ==
    \A t \in Threads :
        /\ th[t].pc \in {"scan", "mark", "clear"} => mutex = t
        /\ th[t].pc \in EntryPcs \cup {"deref", "close"} => th[t].h \in Handles
        /\ th[t].pc \in {"idle", "alloc", "scan", "full"} => th[t].h = -1
        /\ th[t].pc = "close" => th[t].led

\* An entry is one thread's, and as far filled in as that thread has come.
EntryInv ==
    \A t \in Threads : th[t].h \in Handles =>
        /\ \A u \in Threads : u # t => th[u].h # th[t].h
        /\ bars[th[t].h].allocated <=> th[t].pc # "mark"
        /\ th[t].pc = "base" => bars[th[t].h].base = None
        /\ th[t].pc = "size" => bars[th[t].h].base = th[t].addr
        /\ Holds(t) => bars[th[t].h].base # None
        /\ Holds(t) /\ th[t].led =>
               LedAccess[1] + LedAccess[2] <= bars[th[t].h].size

\* A mapping is one thread's, and shows what that thread attached.
MapInv ==
    \A t \in Threads :
        /\ MapOf(t) # None =>
               /\ vm[MapOf(t)] # None
               /\ \A u \in Threads : u # t => MapOf(u) # MapOf(t)
        /\ th[t].pc \in AttachPcs =>
               /\ th[t].addr # None /\ th[t].res # None
               /\ vm[th[t].addr] = th[t].res
               /\ th[t].led => LedAccess[1] + LedAccess[2] <= Size[th[t].res]
        /\ NoWrap /\ th[t].pc = "deref" => th[t].addr = bars[th[t].h].base

Entry == [allocated : BOOLEAN, base : Addr \cup {None}, size : 0..(Wrap - 1)]
Thread == [pc : AttachPcs \cup {"idle", "have", "deref", "close", "free", "clear"},
           led : BOOLEAN, res : Res \cup {None}, addr : Addr \cup {None},
           h : Handles \cup {-1}]

PciInv == TypeOK /\ PcInv /\ EntryInv /\ MapInv /\ NoLeak

----------------------------------------------------------------------------
\* A process that has attached nothing satisfies the invariant.
LEMMA PciInvInit == Init => PciInv
<1> SUFFICES ASSUME Init PROVE PciInv
  OBVIOUS
<1> USE DEF Init, Free, Idle
<1>1. TypeOK
  BY PciAssumption DEF TypeOK
<1>2. PcInv
  BY DEF PcInv, EntryPcs
<1>3. EntryInv
  BY DEF EntryInv, Handles
<1>4. MapInv
  BY PciAssumption DEF MapInv, MapOf, Holds, AttachPcs, Handles
<1>5. NoLeak
  BY DEF NoLeak
<1> QED
  BY <1>1, <1>2, <1>3, <1>4, <1>5 DEF PciInv

\* The sum in the bounds check is the sum, for an access that does not wrap.
LEMMA NoWrapMod ==
  ASSUME NoWrap, NEW a \in Accesses \cup {LedAccess}
  PROVE  (a[1] + a[2]) % Wrap = a[1] + a[2]
<1>1. a[1] + a[2] < Wrap /\ a[1] \in Nat /\ a[2] \in Nat /\ Wrap \in Nat
  BY PciAssumption DEF NoWrap
<1> DEFINE n == a[1] + a[2]
<1>2. n \in Nat /\ n < Wrap
  BY <1>1
<1> HIDE DEF n
<1>3. n % Wrap = n
  BY <1>1, <1>2, SMT
<1> QED
  BY <1>3 DEF n

\* A virtual LED or DIP call never finds its register outside a BAR that it
\* attached, so that its early return, which does not detach, is never taken
\* with a handle.
LEMMA LedInBar ==
  ASSUME PciInv, NEW t \in Threads, Holds(t), th[t].led
  PROVE  InBar(bars[th[t].h], LedAccess)
<1> DEFINE n == LedAccess[1] + LedAccess[2]
<1>1. th[t].h \in Handles /\ th[t].pc # "mark"
  BY DEF Holds
<1>2. /\ bars[th[t].h].allocated /\ bars[th[t].h].base # None
      /\ n <= bars[th[t].h].size
  BY <1>1 DEF PciInv, EntryInv
<1>3. n \in Nat /\ n < Wrap /\ Wrap \in Nat
  BY <1>1, <1>2, PciAssumption DEF PciInv, TypeOK
<1>4. n % Wrap = n
  <2> HIDE DEF n
  <2> QED BY <1>3
<1> QED
  BY <1>2, <1>4 DEF InBar

\* Every step of a thread keeps it, one case per action.
LEMMA PciInvStep ==
  ASSUME PciInv, NEW t \in Threads, Step(t)
  PROVE  PciInv'
<1> USE DEF PciInv, At, Goto, Return, Idle, Free
<1>0. Handles \subseteq Nat /\ -1 \notin Handles
  BY PciAssumption DEF Handles
<1>00. /\ bars \in [Handles -> Entry] /\ th \in [Threads -> Thread]
      /\ mutex \in Threads \cup {None} /\ vm \in [Addr -> Res \cup {None}]
  BY DEF TypeOK, Entry, Thread, AttachPcs
<1>T. ASSUME NEW r \in Thread, th' = [th EXCEPT ![t] = r]
      PROVE  th' \in [Threads -> Thread]
  BY <1>T, <1>00
<1>B. ASSUME NEW i \in Handles, NEW e \in Entry, bars' = [bars EXCEPT ![i] = e],
             ~e.allocated => e = Free
      PROVE  /\ bars' \in [Handles -> Entry]
             /\ \A j \in Handles : ~bars'[j].allocated => bars'[j] = Free
  BY <1>B, <1>00 DEF TypeOK
<1>R. th[t] \in Thread
  BY <1>00
<1>1. CASE Attach(t)
  <2>1. TypeOK'
    <3>1. bars' \in [Handles -> Entry]
      BY <1>1, <1>0, <1>00, PciAssumption DEF EntryInv, MapInv, PcInv, EntryPcs, Entry, Attach
    <3>2. \A i \in Handles : ~bars'[i].allocated => bars'[i] = Free
      BY <1>1, <1>0, <1>00, PciAssumption DEF EntryInv, PcInv, EntryPcs, TypeOK, Attach
    <3>3. th' \in [Threads -> Thread]
      BY <1>1, <1>0, <1>00, PciAssumption DEF EntryInv, MapInv, PcInv, EntryPcs, Thread, AttachPcs, Attach
    <3>4. mutex' \in Threads \cup {None} /\ vm' \in [Addr -> Res \cup {None}]
      BY <1>1, <1>0, <1>00, PciAssumption DEF Thread, Entry, Attach
    <3> QED
      BY <3>1, <3>2, <3>3, <3>4 DEF TypeOK, Entry, Thread, AttachPcs
  <2>2. PcInv'
    BY <1>1, <1>0, PciAssumption DEF PcInv, EntryPcs, TypeOK, Attach
  <2>3. EntryInv'
    BY <1>1, <1>0, PciAssumption DEF EntryInv, PcInv, EntryPcs, MapInv, MapOf, AttachPcs, Holds, TypeOK, Attach
  <2>4. MapInv'
    BY <1>1, <1>0, PciAssumption DEF EntryInv, PcInv, EntryPcs, MapInv, MapOf, AttachPcs, Holds, TypeOK, Attach
  <2>5. NoLeak'
    BY <1>1, <1>0, PciAssumption DEF NoLeak, EntryInv, PcInv, EntryPcs, MapInv, MapOf, AttachPcs, Holds, TypeOK, Attach
  <2> QED
    BY <2>1, <2>2, <2>3, <2>4, <2>5
<1>2. CASE LockBars(t, "alloc", "scan")
  <2>1. TypeOK'
    <3>1. bars' \in [Handles -> Entry]
      BY <1>2, <1>0, <1>00, PciAssumption DEF EntryInv, MapInv, PcInv, EntryPcs, Entry, LockBars
    <3>2. \A i \in Handles : ~bars'[i].allocated => bars'[i] = Free
      BY <1>2, <1>0, <1>00, PciAssumption DEF EntryInv, PcInv, EntryPcs, TypeOK, LockBars
    <3>3. th' \in [Threads -> Thread]
      BY <1>2, <1>0, <1>00, PciAssumption DEF EntryInv, MapInv, PcInv, EntryPcs, Thread, AttachPcs, LockBars
    <3>4. mutex' \in Threads \cup {None} /\ vm' \in [Addr -> Res \cup {None}]
      BY <1>2, <1>0, <1>00, PciAssumption DEF Thread, Entry, LockBars
    <3> QED
      BY <3>1, <3>2, <3>3, <3>4 DEF TypeOK, Entry, Thread, AttachPcs
  <2>2. PcInv'
    BY <1>2, <1>0, PciAssumption DEF PcInv, EntryPcs, TypeOK, LockBars
  <2>3. EntryInv'
    BY <1>2, <1>0, PciAssumption DEF EntryInv, PcInv, EntryPcs, MapInv, MapOf, AttachPcs, Holds, TypeOK, LockBars
  <2>4. MapInv'
    BY <1>2, <1>0, PciAssumption DEF EntryInv, PcInv, EntryPcs, MapInv, MapOf, AttachPcs, Holds, TypeOK, LockBars
  <2>5. NoLeak'
    BY <1>2, <1>0, PciAssumption DEF NoLeak, EntryInv, PcInv, EntryPcs, MapInv, MapOf, AttachPcs, Holds, TypeOK, LockBars
  <2> QED
    BY <2>1, <2>2, <2>3, <2>4, <2>5
<1>3. CASE AllocScan(t)
  <2>1. UNCHANGED <<bars, vm, seen>> /\ At(t, "scan")
    BY <1>3 DEF AllocScan
  <2>2. ASSUME NEW i \in Handles, ~bars[i].allocated, mutex' = mutex,
               th' = [th EXCEPT ![t].h = i, ![t].pc = "mark"]
        PROVE  PciInv'
    <3> DEFINE r == [th[t] EXCEPT !.h = i, !.pc = "mark"]
    <3>1. r \in Thread
      BY <1>R DEF Thread, AttachPcs
    <3>2. th' = [th EXCEPT ![t] = r] /\ th'[t] = r
      BY <2>2, <1>00, <1>R DEF Thread
    <3>3. th' \in [Threads -> Thread]
      BY <3>1, <3>2, <1>T
    <3>4. TypeOK'
      BY <2>1, <2>2, <3>3 DEF TypeOK, Thread, AttachPcs
    <3>5. /\ th'[t].pc = "mark" /\ th'[t].h = i /\ th'[t].addr = th[t].addr
          /\ th'[t].res = th[t].res /\ (th'[t].led <=> th[t].led)
      <4>1. th'[t].pc = "mark" /\ th'[t].h = i
        BY <3>2, <1>R DEF Thread
      <4>2. th'[t].addr = th[t].addr /\ th'[t].res = th[t].res
        BY <3>2, <1>R DEF Thread
      <4>3. th'[t].led <=> th[t].led
        BY <3>2, <1>R DEF Thread
      <4> QED
        BY <4>1, <4>2, <4>3
    <3>6. \A u \in Threads : u # t => th'[u] = th[u]
      BY <3>2, <1>00
    <3>7. PcInv'
      BY <2>1, <2>2, <3>5, <3>6 DEF PcInv, EntryPcs
    <3>8. \A u \in Threads : u # t => th[u].h # i
      BY <2>1, <2>2 DEF EntryInv, PcInv
    <3>9. EntryInv'
      <4> SUFFICES ASSUME NEW v \in Threads, th'[v].h \in Handles
                   PROVE  /\ \A u \in Threads : u # v => th'[u].h # th'[v].h
                          /\ bars[th'[v].h].allocated <=> th'[v].pc # "mark"
                          /\ th'[v].pc = "base" => bars[th'[v].h].base = None
                          /\ th'[v].pc = "size" => bars[th'[v].h].base = th'[v].addr
                          /\ Holds(v)' => bars[th'[v].h].base # None
                          /\ Holds(v)' /\ th'[v].led =>
                                LedAccess[1] + LedAccess[2] <= bars[th'[v].h].size
        BY <2>1 DEF EntryInv
      <4>1. CASE v = t
        BY <2>2, <3>5, <3>6, <3>8, <4>1 DEF Holds
      <4>2. CASE v # t
        BY <3>5, <3>6, <3>8, <4>2 DEF Holds, EntryInv
      <4> QED
        BY <4>1, <4>2
    <3>10. \A u \in Threads : MapOf(u)' = MapOf(u)
      BY <2>1, <3>5, <3>6 DEF MapOf, AttachPcs, Holds
    <3>11. MapInv'
      <4> SUFFICES ASSUME NEW v \in Threads
                   PROVE  /\ MapOf(v) # None =>
                                /\ vm[MapOf(v)] # None
                                /\ \A u \in Threads : u # v => MapOf(u) # MapOf(v)
                          /\ th'[v].pc \in AttachPcs =>
                                /\ th'[v].addr # None /\ th'[v].res # None
                                /\ vm[th'[v].addr] = th'[v].res
                                /\ th'[v].led => LedAccess[1] + LedAccess[2] <= Size[th'[v].res]
                          /\ NoWrap /\ th'[v].pc = "deref" => th'[v].addr = bars[th'[v].h].base
        BY <2>1, <3>10 DEF MapInv
      <4>1. CASE v = t
        BY <2>1, <3>5, <4>1 DEF MapInv, AttachPcs
      <4>2. CASE v # t
        BY <3>6, <4>2 DEF MapInv
      <4> QED
        BY <4>1, <4>2
    <3>12. NoLeak'
      <4>1. ASSUME NEW a \in Addr, vm[a] # None
            PROVE  \E u \in Threads :
                      \/ th'[u].pc \in AttachPcs /\ th'[u].addr = a
                      \/ Holds(u)' /\ bars[th'[u].h].base = a
        <5>1. PICK u \in Threads :
                 \/ th[u].pc \in AttachPcs /\ th[u].addr = a
                 \/ Holds(u) /\ bars[th[u].h].base = a
          BY <4>1 DEF NoLeak, AttachPcs
        <5>2. CASE u = t
          BY <5>1, <5>2, <2>1, <3>5 DEF Holds, AttachPcs
        <5>3. CASE u # t
          BY <5>1, <5>3, <3>6 DEF Holds
        <5> QED
          BY <5>2, <5>3
      <4>2. ASSUME NEW j \in Handles, bars[j].allocated
            PROVE  \E u \in Threads : th'[u].pc # "idle" /\ th'[u].h = j
        BY <4>2, <2>1, <3>6, <1>0 DEF NoLeak, PcInv
      <4> QED
        BY <4>1, <4>2, <2>1 DEF NoLeak, AttachPcs
    <3> QED
      BY <3>4, <3>7, <3>9, <3>11, <3>12
  <2>3. ASSUME mutex' = None, th' = [th EXCEPT ![t].pc = "full"]
        PROVE  PciInv'
    <3>1. TypeOK'
      BY <2>1, <2>3, <1>00, <1>R DEF TypeOK, Thread, AttachPcs
    <3>2. PcInv'
      BY <2>1, <2>3, <1>00, <1>0 DEF PcInv, EntryPcs, Thread
    <3>3. EntryInv' /\ MapInv' /\ NoLeak'
      BY <2>1, <2>3, <1>00, <1>0 DEF NoLeak, EntryInv, PcInv, EntryPcs, MapInv, MapOf, AttachPcs, Holds, Thread
    <3> QED
      BY <3>1, <3>2, <3>3
  <2> QED
    BY <1>3, <2>2, <2>3 DEF AllocScan
<1>4. CASE AllocMark(t)
  <2>1. TypeOK'
    <3>1. /\ bars' \in [Handles -> Entry]
          /\ \A i \in Handles : ~bars'[i].allocated => bars'[i] = Free
      <4>1. th[t].h \in Handles /\ bars[th[t].h] \in Entry
        BY <1>4, <1>00 DEF PcInv, EntryPcs, AllocMark
      <4>2. [bars[th[t].h] EXCEPT !.allocated = TRUE] \in Entry
        BY <1>4, <1>R, <4>1, PciAssumption DEF Entry, Thread, MapInv, AttachPcs, AllocMark
      <4>3. ~([bars[th[t].h] EXCEPT !.allocated = TRUE]).allocated => [bars[th[t].h] EXCEPT !.allocated = TRUE] = Free
        BY <1>4, <4>1 DEF Entry, EntryInv, AllocMark
      <4>4. bars' = [bars EXCEPT ![th[t].h] = [bars[th[t].h] EXCEPT !.allocated = TRUE]]
        BY <1>4, <4>1, <1>00 DEF Entry, AllocMark
      <4> QED BY <4>1, <4>2, <4>3, <4>4, <1>B
    <3>2. th' \in [Threads -> Thread]
      BY <1>4, <1>0, <1>00 DEF Thread, AttachPcs, AllocMark
    <3>3. mutex' \in Threads \cup {None} /\ vm' \in [Addr -> Res \cup {None}]
      BY <1>4, <1>00 DEF AllocMark
    <3> QED
      BY <3>1, <3>2, <3>3 DEF TypeOK, Entry, Thread, AttachPcs
  <2>2. PcInv'
    BY <1>4, <1>0, PciAssumption DEF PcInv, EntryPcs, TypeOK, AllocMark
  <2>3. EntryInv'
    BY <1>4, <1>0, PciAssumption DEF EntryInv, PcInv, EntryPcs, MapInv, MapOf, AttachPcs, Holds, TypeOK, AllocMark
  <2>4. MapInv'
    BY <1>4, <1>0, PciAssumption DEF EntryInv, PcInv, EntryPcs, MapInv, MapOf, AttachPcs, Holds, TypeOK, AllocMark
  <2>5. NoLeak'
    BY <1>4, <1>0, PciAssumption DEF NoLeak, EntryInv, PcInv, EntryPcs, MapInv, MapOf, AttachPcs, Holds, TypeOK, AllocMark
  <2> QED
    BY <2>1, <2>2, <2>3, <2>4, <2>5
<1>5. CASE TableFull(t)
  <2>1. TypeOK'
    <3>1. /\ bars' \in [Handles -> Entry]
          /\ \A i \in Handles : ~bars'[i].allocated => bars'[i] = Free
      BY <1>5, <1>00 DEF TypeOK, TableFull
    <3>2. th' \in [Threads -> Thread]
      <4>1. [th[t] EXCEPT !.pc = "have", !.res = None, !.addr = None] \in Thread
        BY <1>5, <1>0, <1>R DEF Thread, AttachPcs, TableFull
      <4>2. th' = [th EXCEPT ![t] = [th[t] EXCEPT !.pc = "have", !.res = None, !.addr = None]]
        BY <1>5, <1>00, <1>R DEF Thread, TableFull
      <4> QED BY <4>1, <4>2, <1>T
    <3>3. mutex' \in Threads \cup {None} /\ vm' \in [Addr -> Res \cup {None}]
      BY <1>5, <1>00 DEF TableFull
    <3> QED
      BY <3>1, <3>2, <3>3 DEF TypeOK, Entry, Thread, AttachPcs
  <2>2. PcInv'
    BY <1>5, <1>0, PciAssumption DEF PcInv, EntryPcs, TypeOK, TableFull
  <2>3. EntryInv'
    BY <1>5, <1>0, PciAssumption DEF EntryInv, PcInv, EntryPcs, MapInv, MapOf, AttachPcs, Holds, TypeOK, TableFull
  <2>4. MapInv'
    BY <1>5, <1>0, PciAssumption DEF EntryInv, PcInv, EntryPcs, MapInv, MapOf, AttachPcs, Holds, TypeOK, TableFull
  <2>5. NoLeak'
    BY <1>5, <1>0, PciAssumption DEF NoLeak, EntryInv, PcInv, EntryPcs, MapInv, MapOf, AttachPcs, Holds, TypeOK, TableFull
  <2> QED
    BY <2>1, <2>2, <2>3, <2>4, <2>5
<1>6. CASE SetBase(t)
  <2>1. TypeOK'
    <3>1. /\ bars' \in [Handles -> Entry]
          /\ \A i \in Handles : ~bars'[i].allocated => bars'[i] = Free
      <4>1. th[t].h \in Handles /\ bars[th[t].h] \in Entry
        BY <1>6, <1>00 DEF PcInv, EntryPcs, SetBase
      <4>2. [bars[th[t].h] EXCEPT !.base = th[t].addr] \in Entry
        BY <1>6, <1>R, <4>1, PciAssumption DEF Entry, Thread, MapInv, AttachPcs, SetBase
      <4>3. ~([bars[th[t].h] EXCEPT !.base = th[t].addr]).allocated => [bars[th[t].h] EXCEPT !.base = th[t].addr] = Free
        BY <1>6, <4>1 DEF Entry, EntryInv, SetBase
      <4>4. bars' = [bars EXCEPT ![th[t].h] = [bars[th[t].h] EXCEPT !.base = th[t].addr]]
        BY <1>6, <4>1, <1>00 DEF Entry, SetBase
      <4> QED BY <4>1, <4>2, <4>3, <4>4, <1>B
    <3>2. th' \in [Threads -> Thread]
      BY <1>6, <1>0, <1>00 DEF Thread, AttachPcs, SetBase
    <3>3. mutex' \in Threads \cup {None} /\ vm' \in [Addr -> Res \cup {None}]
      BY <1>6, <1>00 DEF SetBase
    <3> QED
      BY <3>1, <3>2, <3>3 DEF TypeOK, Entry, Thread, AttachPcs
  <2>2. PcInv'
    BY <1>6, <1>0, PciAssumption DEF PcInv, EntryPcs, TypeOK, SetBase
  <2>3. EntryInv'
    BY <1>6, <1>0, PciAssumption DEF EntryInv, PcInv, EntryPcs, MapInv, MapOf, AttachPcs, Holds, TypeOK, SetBase
  <2>4. MapInv'
    BY <1>6, <1>0, PciAssumption DEF EntryInv, PcInv, EntryPcs, MapInv, MapOf, AttachPcs, Holds, TypeOK, SetBase
  <2>5. NoLeak'
    <3>1. /\ \A u \in Threads : u # t => th'[u] = th[u]
          /\ th'[t].pc = "size" /\ th'[t].addr = th[t].addr /\ th'[t].h = th[t].h
          /\ vm' = vm /\ th[t].pc = "base" /\ th[t].h \in Handles
      BY <1>6, <1>00 DEF SetBase, PcInv, EntryPcs
    <3>2. /\ \A i \in Handles : bars'[i].allocated <=> bars[i].allocated
          /\ \A i \in Handles : i # th[t].h => bars'[i] = bars[i]
      BY <1>6, <1>00 DEF SetBase, Entry
    <3>3. ASSUME NEW a \in Addr, vm[a] # None
          PROVE  \E u \in Threads :
                    \/ th'[u].pc \in AttachPcs /\ th'[u].addr = a
                    \/ Holds(u)' /\ bars'[th'[u].h].base = a
      <4>1. PICK u \in Threads :
                 \/ th[u].pc \in AttachPcs /\ th[u].addr = a
                 \/ Holds(u) /\ bars[th[u].h].base = a
        BY <3>3 DEF NoLeak, AttachPcs
      <4>2. CASE u = t
        BY <4>1, <4>2, <3>1 DEF Holds, AttachPcs
      <4>3. CASE u # t
        BY <4>1, <4>3, <3>1, <3>2 DEF Holds, EntryInv
      <4> QED
        BY <4>2, <4>3
    <3>4. ASSUME NEW i \in Handles, bars'[i].allocated
          PROVE  \E u \in Threads : th'[u].pc # "idle" /\ th'[u].h = i
      BY <3>1, <3>2, <3>4 DEF NoLeak
    <3> QED
      BY <3>1, <3>3, <3>4 DEF NoLeak, AttachPcs
  <2> QED
    BY <2>1, <2>2, <2>3, <2>4, <2>5
<1>7. CASE SetSize(t)
  <2>1. TypeOK'
    <3>1. /\ bars' \in [Handles -> Entry]
          /\ \A i \in Handles : ~bars'[i].allocated => bars'[i] = Free
      <4>1. th[t].h \in Handles /\ bars[th[t].h] \in Entry
        BY <1>7, <1>00 DEF PcInv, EntryPcs, SetSize
      <4>2. [bars[th[t].h] EXCEPT !.size = Size[th[t].res]] \in Entry
        BY <1>7, <1>R, <4>1, PciAssumption DEF Entry, Thread, MapInv, AttachPcs, SetSize
      <4>3. ~([bars[th[t].h] EXCEPT !.size = Size[th[t].res]]).allocated => [bars[th[t].h] EXCEPT !.size = Size[th[t].res]] = Free
        BY <1>7, <4>1 DEF Entry, EntryInv, SetSize
      <4>4. bars' = [bars EXCEPT ![th[t].h] = [bars[th[t].h] EXCEPT !.size = Size[th[t].res]]]
        BY <1>7, <4>1, <1>00 DEF Entry, SetSize
      <4> QED BY <4>1, <4>2, <4>3, <4>4, <1>B
    <3>2. th' \in [Threads -> Thread]
      <4>1. [th[t] EXCEPT !.pc = "have", !.res = None, !.addr = None] \in Thread
        BY <1>7, <1>0, <1>R DEF Thread, AttachPcs, SetSize
      <4>2. th' = [th EXCEPT ![t] = [th[t] EXCEPT !.pc = "have", !.res = None, !.addr = None]]
        BY <1>7, <1>00, <1>R DEF Thread, SetSize
      <4> QED BY <4>1, <4>2, <1>T
    <3>3. mutex' \in Threads \cup {None} /\ vm' \in [Addr -> Res \cup {None}]
      BY <1>7, <1>00 DEF SetSize
    <3> QED
      BY <3>1, <3>2, <3>3 DEF TypeOK, Entry, Thread, AttachPcs
  <2>2. PcInv'
    BY <1>7, <1>0, PciAssumption DEF PcInv, EntryPcs, TypeOK, SetSize
  <2>3. EntryInv'
    BY <1>7, <1>0, PciAssumption DEF EntryInv, PcInv, EntryPcs, MapInv, MapOf, AttachPcs, Holds, TypeOK, SetSize
  <2>4. MapInv'
    BY <1>7, <1>0, PciAssumption DEF EntryInv, PcInv, EntryPcs, MapInv, MapOf, AttachPcs, Holds, TypeOK, SetSize
  <2>5. NoLeak'
    BY <1>7, <1>0, PciAssumption DEF NoLeak, EntryInv, PcInv, EntryPcs, MapInv, MapOf, AttachPcs, Holds, TypeOK, SetSize
  <2> QED
    BY <2>1, <2>2, <2>3, <2>4, <2>5
<1>8. CASE Lookup(t)
  <2>1. UNCHANGED <<bars, mutex, vm, seen>> /\ At(t, "have")
    BY <1>8 DEF Lookup
  <2>2. ASSUME NEW a \in Access(th[t].led), th[t].h \in Handles,
               InBar(bars[th[t].h], a),
               th' = [th EXCEPT ![t].pc = "deref", ![t].addr =
                        IF a[1] + a[2] <= bars[th[t].h].size
                        THEN bars[th[t].h].base ELSE None]
        PROVE  PciInv'
    <3> DEFINE ad == IF a[1] + a[2] <= bars[th[t].h].size
                     THEN bars[th[t].h].base ELSE None
    <3>1. NoWrap => ad = bars[th[t].h].base
      BY <2>2, NoWrapMod DEF Access, InBar
    <3>2. bars[th[t].h].base \in Addr /\ Holds(t)
      BY <2>1, <2>2, <1>00 DEF InBar, Holds, Entry
    <3>a. ad \in Addr \cup {None}
      BY <3>2
    <3> DEFINE r == [th[t] EXCEPT !.pc = "deref", !.addr = ad]
    <3>3. r \in Thread
      <4> HIDE DEF ad
      <4> QED BY <3>a, <1>R DEF Thread
    <3>4. th' = [th EXCEPT ![t] = r] /\ th'[t] = r
      <4>1. th' = [th EXCEPT ![t].pc = "deref", ![t].addr = ad]
        BY <2>2
      <4> HIDE DEF ad
      <4>2. th' = [th EXCEPT ![t] = r]
        BY <4>1, <1>00
      <4> HIDE DEF r
      <4> QED BY <4>2, <1>00
    <3>5. TypeOK'
      BY <2>1, <3>3, <3>4, <1>T DEF TypeOK, Thread, AttachPcs
    <3>6. /\ th'[t].pc = "deref" /\ th'[t].h = th[t].h
          /\ th'[t].led <=> th[t].led
          /\ th'[t].addr = ad
      <4> HIDE DEF ad
      <4>1. DOMAIN th[t] = {"pc", "led", "res", "addr", "h"}
        BY <1>R DEF Thread
      <4>2. r.pc = "deref" /\ r.addr = ad /\ r.h = th[t].h /\ r.led = th[t].led
        BY <4>1
      <4> HIDE DEF r
      <4> QED
        BY <3>4, <4>2
    <3>7. \A u \in Threads : u # t => th'[u] = th[u]
      BY <3>4, <1>00
    <3>8. PcInv'
      BY <2>1, <2>2, <3>6, <3>7 DEF PcInv, EntryPcs
    <3>9. /\ \A u \in Threads : MapOf(u)' = MapOf(u) /\ (Holds(u)' <=> Holds(u))
          /\ \A u \in Threads : th'[u].h = th[u].h /\ (th'[u].led <=> th[u].led)
      BY <2>1, <3>6, <3>7 DEF MapOf, AttachPcs, Holds
    <3>10. EntryInv' /\ MapInv'
      <4>1. EntryInv'
        <5> SUFFICES ASSUME NEW v \in Threads, th[v].h \in Handles
                     PROVE  /\ bars[th[v].h].allocated <=> th'[v].pc # "mark"
                            /\ th'[v].pc = "base" => bars[th[v].h].base = None
                            /\ th'[v].pc = "size" => bars[th[v].h].base = th'[v].addr
          BY <2>1, <3>9 DEF EntryInv
        <5>1. CASE v = t
          BY <2>1, <2>2, <3>6, <5>1 DEF EntryInv
        <5>2. CASE v # t
          BY <3>7, <5>2 DEF EntryInv
        <5> QED
          BY <5>1, <5>2
      <4>2. MapInv'
        <5> SUFFICES ASSUME NEW v \in Threads
                     PROVE  /\ th'[v].pc \in AttachPcs =>
                                  /\ th'[v].addr # None /\ th'[v].res # None
                                  /\ vm[th'[v].addr] = th'[v].res
                                  /\ th'[v].led => LedAccess[1] + LedAccess[2] <= Size[th'[v].res]
                            /\ NoWrap /\ th'[v].pc = "deref" => th'[v].addr = bars[th'[v].h].base
          BY <2>1, <3>9 DEF MapInv
        <5>1. CASE v = t
          BY <3>1, <3>6, <5>1 DEF AttachPcs
        <5>2. CASE v # t
          BY <3>7, <5>2 DEF MapInv
        <5> QED
          BY <5>1, <5>2
      <4> QED
        BY <4>1, <4>2
    <3>11. NoLeak'
      <4>1. ASSUME NEW x \in Addr, vm[x] # None
            PROVE  \E u \in Threads :
                      \/ th'[u].pc \in AttachPcs /\ th'[u].addr = x
                      \/ Holds(u)' /\ bars[th'[u].h].base = x
        <5>1. PICK u \in Threads :
                 \/ th[u].pc \in AttachPcs /\ th[u].addr = x
                 \/ Holds(u) /\ bars[th[u].h].base = x
          BY <4>1 DEF NoLeak, AttachPcs
        <5>2. CASE u = t
          BY <5>1, <5>2, <2>1, <3>9 DEF AttachPcs
        <5>3. CASE u # t
          BY <5>1, <5>3, <3>7, <3>9
        <5> QED
          BY <5>2, <5>3
      <4>2. ASSUME NEW j \in Handles, bars[j].allocated
            PROVE  \E u \in Threads : th'[u].pc # "idle" /\ th'[u].h = j
        BY <4>2, <3>6, <3>7 DEF NoLeak
      <4> QED
        BY <4>1, <4>2, <2>1 DEF NoLeak, AttachPcs
    <3> QED
      BY <3>5, <3>8, <3>9, <3>10, <3>11
  <2>3. ASSUME th[t].h \notin Handles, th' = [th EXCEPT ![t] = Idle]
        PROVE  PciInv'
    <3>1. TypeOK'
      BY <2>1, <2>3, <1>00, <1>0 DEF TypeOK, Thread, AttachPcs
    <3>2. th'[t] = Idle /\ \A u \in Threads : u # t => th'[u] = th[u]
      BY <2>3, <1>00
    <3>3. PcInv' /\ EntryInv' /\ MapInv' /\ NoLeak'
      BY <2>1, <2>3, <3>2, <1>0 DEF NoLeak, EntryInv, PcInv, EntryPcs, MapInv, MapOf, AttachPcs, Holds
    <3> QED
      BY <3>1, <3>3
  <2>4. th[t].h \in Handles /\ th[t].led => InBar(bars[th[t].h], LedAccess)
    BY <2>1, LedInBar DEF Holds
  <2>5. ~InBar(Free, LedAccess) /\ \A a : ~InBar(Free, a)
    BY DEF InBar
  <2> QED
    BY <1>8, <2>2, <2>3, <2>4, <2>5 DEF Lookup
<1>9. CASE Deref(t)
  <2>1. TypeOK'
    <3>1. bars' \in [Handles -> Entry]
      BY <1>9, <1>0, <1>00, PciAssumption DEF EntryInv, MapInv, PcInv, EntryPcs, Entry, Deref
    <3>2. \A i \in Handles : ~bars'[i].allocated => bars'[i] = Free
      BY <1>9, <1>0, <1>00, PciAssumption DEF EntryInv, PcInv, EntryPcs, TypeOK, Deref
    <3>3. th' \in [Threads -> Thread]
      BY <1>9, <1>0, <1>00, PciAssumption DEF EntryInv, MapInv, PcInv, EntryPcs, Thread, AttachPcs, Deref
    <3>4. mutex' \in Threads \cup {None} /\ vm' \in [Addr -> Res \cup {None}]
      BY <1>9, <1>0, <1>00, PciAssumption DEF Thread, Entry, Deref
    <3> QED
      BY <3>1, <3>2, <3>3, <3>4 DEF TypeOK, Entry, Thread, AttachPcs
  <2>2. PcInv'
    BY <1>9, <1>0, PciAssumption DEF PcInv, EntryPcs, TypeOK, Deref
  <2>3. EntryInv'
    BY <1>9, <1>0, PciAssumption DEF EntryInv, PcInv, EntryPcs, MapInv, MapOf, AttachPcs, Holds, TypeOK, Deref
  <2>4. MapInv'
    BY <1>9, <1>0, PciAssumption DEF EntryInv, PcInv, EntryPcs, MapInv, MapOf, AttachPcs, Holds, TypeOK, Deref
  <2>5. NoLeak'
    BY <1>9, <1>0, PciAssumption DEF NoLeak, EntryInv, PcInv, EntryPcs, MapInv, MapOf, AttachPcs, Holds, TypeOK, Deref
  <2> QED
    BY <2>1, <2>2, <2>3, <2>4, <2>5
<1>10. CASE Unmap(t)
  <2>0. UNCHANGED <<bars, mutex>>
    BY <1>10 DEF Unmap
  <2>1. CASE th[t].h \in Handles
    <3>1. Holds(t) /\ At(t, IF th[t].led THEN "close" ELSE "have")
      BY <1>10, <2>1 DEF Unmap, Holds
    <3> DEFINE b == bars[th[t].h].base
    <3>2. b # None /\ b \in Addr
      BY <2>1, <3>1, <1>00 DEF EntryInv, Entry
    <3>3. vm' = [vm EXCEPT ![b] = None] /\ Goto(t, "free")
      BY <1>10, <2>1, <3>2 DEF Unmap
    <3>4. TypeOK'
      <4>1. [th[t] EXCEPT !.pc = "free"] \in Thread
        BY <1>R DEF Thread
      <4>2. th' = [th EXCEPT ![t] = [th[t] EXCEPT !.pc = "free"]]
        BY <3>3, <1>00
      <4>3. th' \in [Threads -> Thread]
        BY <4>1, <4>2, <1>T
      <4>4. vm' \in [Addr -> Res \cup {None}]
        BY <3>3, <1>00
      <4> QED BY <2>0, <4>3, <4>4, <1>00 DEF TypeOK, Thread, AttachPcs
    <3>5. th'[t].pc = "free" /\ th'[t].h = th[t].h
      BY <3>3, <1>00 DEF Thread
    <3>6. \A u \in Threads : u # t => th'[u] = th[u]
      BY <3>3, <1>00
    <3>7. PcInv'
      BY <2>0, <2>1, <3>5, <3>6 DEF PcInv, EntryPcs
    <3>8. EntryInv'
      BY <2>0, <2>1, <3>1, <3>5, <3>6 DEF EntryInv, Holds
    <3>9. MapOf(t) = b /\ \A u \in Threads : u # t => MapOf(u) # b
      BY <3>1, <3>2 DEF MapInv, MapOf, Holds, AttachPcs
    <3>10. MapInv'
      BY <2>0, <3>3, <3>5, <3>6, <3>9, <1>00 DEF MapInv, MapOf, AttachPcs, Holds
    <3>11. NoLeak'
      BY <2>0, <2>1, <3>2, <3>3, <3>5, <3>6, <3>1, <1>00 DEF NoLeak, Holds
    <3> QED
      BY <3>4, <3>7, <3>8, <3>10, <3>11
  <2>2. CASE th[t].h \notin Handles
    <3>0. th' = [th EXCEPT ![t] = Idle] /\ vm' = vm
      BY <1>10, <2>2 DEF Unmap
    <3>1. TypeOK'
      BY <2>0, <3>0, <1>00, <1>0 DEF TypeOK, Thread, AttachPcs
    <3>2. th'[t] = Idle /\ \A u \in Threads : u # t => th'[u] = th[u]
      BY <3>0, <1>00
    <3>4. At(t, "close") \/ At(t, "have")
      BY <1>10 DEF Unmap
    <3>3. PcInv' /\ EntryInv' /\ MapInv' /\ NoLeak'
      BY <2>0, <2>2, <3>0, <3>2, <3>4, <1>0 DEF NoLeak, EntryInv, PcInv, EntryPcs, MapInv, MapOf, AttachPcs, Holds
    <3> QED
      BY <3>1, <3>3
  <2> QED
    BY <2>1, <2>2
<1>11. CASE LockBars(t, "free", "clear")
  <2>1. TypeOK'
    <3>1. bars' \in [Handles -> Entry]
      BY <1>11, <1>0, <1>00, PciAssumption DEF EntryInv, MapInv, PcInv, EntryPcs, Entry, LockBars
    <3>2. \A i \in Handles : ~bars'[i].allocated => bars'[i] = Free
      BY <1>11, <1>0, <1>00, PciAssumption DEF EntryInv, PcInv, EntryPcs, TypeOK, LockBars
    <3>3. th' \in [Threads -> Thread]
      BY <1>11, <1>0, <1>00, PciAssumption DEF EntryInv, MapInv, PcInv, EntryPcs, Thread, AttachPcs, LockBars
    <3>4. mutex' \in Threads \cup {None} /\ vm' \in [Addr -> Res \cup {None}]
      BY <1>11, <1>0, <1>00, PciAssumption DEF Thread, Entry, LockBars
    <3> QED
      BY <3>1, <3>2, <3>3, <3>4 DEF TypeOK, Entry, Thread, AttachPcs
  <2>2. PcInv'
    BY <1>11, <1>0, PciAssumption DEF PcInv, EntryPcs, TypeOK, LockBars
  <2>3. EntryInv'
    BY <1>11, <1>0, PciAssumption DEF EntryInv, PcInv, EntryPcs, MapInv, MapOf, AttachPcs, Holds, TypeOK, LockBars
  <2>4. MapInv'
    BY <1>11, <1>0, PciAssumption DEF EntryInv, PcInv, EntryPcs, MapInv, MapOf, AttachPcs, Holds, TypeOK, LockBars
  <2>5. NoLeak'
    BY <1>11, <1>0, PciAssumption DEF NoLeak, EntryInv, PcInv, EntryPcs, MapInv, MapOf, AttachPcs, Holds, TypeOK, LockBars
  <2> QED
    BY <2>1, <2>2, <2>3, <2>4, <2>5
<1>12. CASE FreeClear(t)
  <2>1. TypeOK'
    <3>1. bars' \in [Handles -> Entry]
      BY <1>12, <1>0, <1>00, PciAssumption DEF EntryInv, MapInv, PcInv, EntryPcs, Entry, FreeClear
    <3>2. \A i \in Handles : ~bars'[i].allocated => bars'[i] = Free
      BY <1>12, <1>0, <1>00, PciAssumption DEF EntryInv, PcInv, EntryPcs, TypeOK, FreeClear
    <3>3. th' \in [Threads -> Thread]
      BY <1>12, <1>0, <1>00, PciAssumption DEF EntryInv, MapInv, PcInv, EntryPcs, Thread, AttachPcs, FreeClear
    <3>4. mutex' \in Threads \cup {None} /\ vm' \in [Addr -> Res \cup {None}]
      BY <1>12, <1>0, <1>00, PciAssumption DEF Thread, Entry, FreeClear
    <3> QED
      BY <3>1, <3>2, <3>3, <3>4 DEF TypeOK, Entry, Thread, AttachPcs
  <2>2. PcInv'
    BY <1>12, <1>0, PciAssumption DEF PcInv, EntryPcs, TypeOK, FreeClear
  <2>3. EntryInv'
    BY <1>12, <1>0, PciAssumption DEF EntryInv, PcInv, EntryPcs, MapInv, MapOf, AttachPcs, Holds, TypeOK, FreeClear
  <2>4. MapInv'
    BY <1>12, <1>0, PciAssumption DEF EntryInv, PcInv, EntryPcs, MapInv, MapOf, AttachPcs, Holds, TypeOK, FreeClear
  <2>5. NoLeak'
    BY <1>12, <1>0, PciAssumption DEF NoLeak, EntryInv, PcInv, EntryPcs, MapInv, MapOf, AttachPcs, Holds, TypeOK, FreeClear
  <2> QED
    BY <2>1, <2>2, <2>3, <2>4, <2>5
<1> QED
  BY <1>1, <1>2, <1>3, <1>4, <1>5, <1>6, <1>7, <1>8, <1>9, <1>10, <1>11, <1>12 DEF Step

\* The invariant holds in every reachable state.
LEMMA PciInvariant == Spec => []PciInv
<1>1. Init => PciInv
  BY PciInvInit
<1>2. PciInv /\ [Next]_vars => PciInv'
  <2> SUFFICES ASSUME PciInv, [Next]_vars PROVE PciInv'
    OBVIOUS
  <2>1. ASSUME NEW t \in Threads, Step(t) PROVE PciInv'
    BY <2>1, PciInvStep
  <2>2. CASE UNCHANGED vars
    BY <2>2 DEF vars, PciInv, TypeOK, PcInv, EntryInv, MapInv, NoLeak, MapOf, Holds, At
  <2> QED
    BY <2>1, <2>2 DEF Next
<1> QED
  BY <1>1, <1>2, PTL DEF Spec

\* The table keeps its shape whatever the threads do at once: an entry marked
\* free is all zeroes (fpga_pci_bar_free clears all of it), so that the next
\* fpga_pci_attach of it starts from nothing.
THEOREM TableShape == Spec => []TypeOK
<1>1. PciInv => TypeOK
  BY DEF PciInv
<1> QED
  BY <1>1, PciInvariant, PTL

\* No path of fpga_pci_attach, fpga_pci_detach or of the virtual LED and DIP
\* functions, the full table's err_unmap included, leaves a mapping or a table
\* entry without a thread that still has to undo it.
THEOREM NothingLeaks == Spec => []NoLeak
<1>1. PciInv => NoLeak
  BY DEF PciInv
<1> QED
  BY <1>1, PciInvariant, PTL

----------------------------------------------------------------------------
(* The refinement of BarHandles: SetSize is its Attach, the unmapping its  *)
(* Detach, Deref its Access, and every other step a stutter.               *)

\* What the refinement maps BarHandles' owner to.
Owner == [i \in Handles |->
             IF \E t \in Threads : Holds(t) /\ th[t].h = i
             THEN Shows(bars[i].base) ELSE None]

\* A held handle stands for a mapping that is there.
LEMMA HeldShown ==
  ASSUME PciInv, NEW t \in Threads, Holds(t)
  PROVE  /\ th[t].h \in Handles /\ bars[th[t].h].base \in Addr
         /\ vm[bars[th[t].h].base] \in Res
         /\ \A u \in Threads : u # t => MapOf(u) # bars[th[t].h].base
         /\ \A u \in Threads : u # t => th[u].h # th[t].h
         /\ Owner[th[t].h] = vm[bars[th[t].h].base]
<1>1. th[t].h \in Handles /\ th[t].pc \notin AttachPcs
  BY DEF Holds, AttachPcs
<1>2. bars[th[t].h].base # None /\ bars[th[t].h].base \in Addr
  BY <1>1 DEF PciInv, TypeOK, EntryInv
<1>3. MapOf(t) = bars[th[t].h].base
  BY <1>1 DEF MapOf
<1>4. vm[bars[th[t].h].base] \in Res /\ None \notin Addr
  BY <1>2, <1>3, PciAssumption DEF PciInv, TypeOK, MapInv
<1>5. \A u \in Threads : u # t => MapOf(u) # bars[th[t].h].base
  BY <1>2, <1>3 DEF PciInv, MapInv
<1>6. \A u \in Threads : u # t => th[u].h # th[t].h
  BY <1>1 DEF PciInv, EntryInv
<1>7. Owner[th[t].h] = vm[bars[th[t].h].base]
  BY <1>1, <1>2, <1>4 DEF Owner, Shows
<1> QED
  BY <1>1, <1>2, <1>4, <1>5, <1>6, <1>7

\* A step that gives or takes no handle, and leaves the held ones' entries and
\* mappings as they are, changes nothing that BarHandles sees.
LEMMA OwnerSame ==
  ASSUME PciInv, NEW t \in Threads,
         \A u \in Threads : u # t => th'[u] = th[u],
         Holds(t)' <=> Holds(t),
         Holds(t) => th'[t].h = th[t].h,
         \A u \in Threads : Holds(u) =>
             /\ bars'[th[u].h].base = bars[th[u].h].base
             /\ vm'[bars[th[u].h].base] = vm[bars[th[u].h].base]
  PROVE  Owner' = Owner
<1> DEFINE Held(i) == \E u \in Threads : Holds(u) /\ th[u].h = i
<1>1. ASSUME NEW i \in Handles PROVE Held(i)' <=> Held(i)
  BY DEF Holds
<1>2. ASSUME NEW i \in Handles, Held(i)
      PROVE  Shows(bars[i].base)' = Shows(bars[i].base)
  BY <1>2 DEF Shows
<1>3. ASSUME NEW i \in Handles
      PROVE  (IF Held(i) THEN Shows(bars[i].base) ELSE None)' =
             (IF Held(i) THEN Shows(bars[i].base) ELSE None)
  <2>1. CASE Held(i)
    BY <1>1, <1>2, <2>1
  <2>2. CASE ~Held(i)
    BY <1>1, <2>2
  <2> QED
    BY <2>1, <2>2
<1> QED
  BY <1>3 DEF Owner

\* Every step of a thread is a step of BarHandles or changes nothing it sees.
LEMMA HandleStep ==
  ASSUME NoWrap, PciInv, NEW t \in Threads, Step(t)
  PROVE  BH!Next \/ (Owner' = Owner /\ seen' = seen)
<1> USE DEF At, Goto, Return
<1>0. /\ bars \in [Handles -> Entry] /\ th \in [Threads -> Thread]
      /\ vm \in [Addr -> Res \cup {None}] /\ -1 \notin Handles
      /\ None \notin Res /\ None \notin Addr
  BY PciAssumption DEF PciInv, TypeOK, Entry, Thread, AttachPcs, Handles
<1>1. CASE Attach(t)
  <2>1. PICK a \in Addr : vm[a] = None /\ \E r \in Res : vm' = [vm EXCEPT ![a] = r]
    BY <1>1 DEF Attach
  <2>2. bars' = bars /\ seen' = seen /\ th[t].pc = "idle" /\ th'[t].pc = "alloc"
    BY <1>1, <1>0 DEF Attach
  <2>3. \A u \in Threads : u # t => th'[u] = th[u]
    BY <1>1, <1>0 DEF Attach
  <2>4. \A u \in Threads : Holds(u) =>
            vm'[bars[th[u].h].base] = vm[bars[th[u].h].base]
    BY <2>1, <1>0, HeldShown
  <2>5. ~Holds(t) /\ ~Holds(t)'
    BY <2>2 DEF Holds
  <2> QED
    BY <2>2, <2>3, <2>4, <2>5, OwnerSame
<1>2. CASE LockBars(t, "alloc", "scan") \/ LockBars(t, "free", "clear")
  <2>1. /\ bars' = bars /\ seen' = seen /\ vm' = vm
        /\ th[t].pc \notin {"have", "deref", "close"}
        /\ th'[t].pc \notin {"have", "deref", "close"}
    <3>1. CASE LockBars(t, "alloc", "scan")
      BY <3>1, <1>0 DEF LockBars
    <3>2. CASE LockBars(t, "free", "clear")
      BY <3>2, <1>0 DEF LockBars
    <3> QED
      BY <1>2, <3>1, <3>2
  <2>2. \A u \in Threads : u # t => th'[u] = th[u]
    BY <1>2, <1>0 DEF LockBars
  <2> QED
    BY <2>1, <2>2, OwnerSame DEF Holds
<1>3. CASE AllocScan(t)
  <2>1. /\ bars' = bars /\ seen' = seen /\ vm' = vm
        /\ th[t].pc \notin {"have", "deref", "close"}
        /\ th'[t].pc \notin {"have", "deref", "close"}
    <3>1. bars' = bars /\ seen' = seen /\ vm' = vm /\ th[t].pc = "scan"
      BY <1>3 DEF AllocScan
    <3>2. th'[t].pc \in {"mark", "full"}
      <4>1. CASE \E i \in Handles : th' = [th EXCEPT ![t].h = i, ![t].pc = "mark"]
        BY <4>1, <1>0 DEF Thread
      <4>2. CASE th' = [th EXCEPT ![t].pc = "full"]
        BY <4>2, <1>0 DEF Thread
      <4> QED BY <1>3, <4>1, <4>2 DEF AllocScan
    <3> QED BY <3>1, <3>2
  <2>2. \A u \in Threads : u # t => th'[u] = th[u]
    BY <1>3, <1>0 DEF AllocScan
  <2> QED
    BY <2>1, <2>2, OwnerSame DEF Holds
<1>4. CASE AllocMark(t) \/ SetBase(t) \/ FreeClear(t)
  <2>1. /\ seen' = seen /\ vm' = vm
        /\ th[t].pc \in {"mark", "base", "clear"}
        /\ th'[t].pc \in {"base", "size", "idle"}
    <3>1. CASE AllocMark(t)
      BY <3>1, <1>0 DEF AllocMark
    <3>2. CASE SetBase(t)
      BY <3>2, <1>0 DEF SetBase
    <3>3. CASE FreeClear(t)
      BY <3>3, <1>0 DEF FreeClear, Idle
    <3> QED
      BY <1>4, <3>1, <3>2, <3>3
  <2>2. \A u \in Threads : u # t => th'[u] = th[u]
    BY <1>4, <1>0 DEF AllocMark, SetBase, FreeClear
  <2>3. th[t].h \in Handles
    BY <2>1 DEF PciInv, PcInv, EntryPcs
  <2>4. \A i \in Handles : i # th[t].h => bars'[i] = bars[i]
    BY <1>4, <1>0, <2>3 DEF AllocMark, SetBase, FreeClear
  <2>5. ~Holds(t) /\ ~Holds(t)'
    BY <2>1 DEF Holds
  <2>6. \A u \in Threads : Holds(u) => bars'[th[u].h] = bars[th[u].h]
    BY <2>3, <2>4, <2>5, HeldShown
  <2> QED
    BY <2>1, <2>2, <2>5, <2>6, OwnerSame
<1>5. CASE TableFull(t)
  <2>1. /\ bars' = bars /\ seen' = seen /\ th[t].pc = "full"
        /\ vm' = [vm EXCEPT ![th[t].addr] = None]
    BY <1>5 DEF TableFull
  <2>2. /\ \A u \in Threads : u # t => th'[u] = th[u]
        /\ th'[t].h = th[t].h
    BY <1>5, <1>0 DEF TableFull
  <2>3. ~Holds(t) /\ ~Holds(t)'
    BY <2>1, <2>2, <1>0 DEF Holds, PciInv, PcInv
  <2>4. MapOf(t) = th[t].addr
    BY <2>1 DEF MapOf, AttachPcs
  <2>5. \A u \in Threads : Holds(u) =>
            vm'[bars[th[u].h].base] = vm[bars[th[u].h].base]
    BY <2>1, <2>3, <2>4, <1>0, HeldShown
  <2> QED
    BY <2>1, <2>2, <2>3, <2>5, OwnerSame
<1>6. CASE SetSize(t)
  <2> DEFINE h == th[t].h
  <2>1. /\ h \in Handles /\ th[t].pc = "size" /\ ~Holds(t)
        /\ vm' = vm /\ seen' = None
    BY <1>6 DEF SetSize, PciInv, PcInv, EntryPcs, Holds
  <2>2. /\ \A u \in Threads : u # t => th'[u] = th[u] /\ th[u].h # h
        /\ th'[t].h = h /\ th'[t].pc = "have"
    BY <1>6, <1>0, <2>1 DEF SetSize, PciInv, EntryInv
  <2>3. \A i \in Handles : bars'[i].base = bars[i].base
    BY <1>6, <1>0, <2>1 DEF SetSize, Entry
  <2>4. /\ bars[h].base = th[t].addr /\ vm[th[t].addr] = th[t].res
        /\ th[t].addr # None /\ th[t].res \in Res
    BY <1>0, <2>1 DEF PciInv, EntryInv, MapInv, AttachPcs, Thread
  <2>5. Holds(t)' /\ \A u \in Threads : u # t => (Holds(u)' <=> Holds(u))
    BY <2>1, <2>2 DEF Holds
  <2>6. \A a : Shows(a)' = Shows(a)
    BY <2>1 DEF Shows
  <2>7. Owner[h] = None
    BY <2>1, <2>2 DEF Owner
  <2>8. Owner' = [Owner EXCEPT ![h] = th[t].res]
    <3>1. ASSUME NEW i \in Handles
          PROVE  Owner'[i] = IF i = h THEN th[t].res ELSE Owner[i]
      <4>1. CASE i = h
        <5>1. Shows(bars[h].base) = th[t].res
          BY <2>4 DEF Shows
        <5> QED
          BY <4>1, <5>1, <2>1, <2>2, <2>3, <2>5, <2>6 DEF Owner
      <4>2. CASE i # h
        <5>1. (\E u \in Threads : Holds(u) /\ th[u].h = i)' <=>
              \E u \in Threads : Holds(u) /\ th[u].h = i
          BY <4>2, <2>1, <2>2, <2>5
        <5>2. Shows(bars[i].base)' = Shows(bars[i].base)
          BY <2>3, <2>6
        <5> QED
          BY <4>2, <5>1, <5>2 DEF Owner
      <4> QED
        BY <4>1, <4>2
    <3> QED
      BY <3>1, <2>1 DEF Owner
  <2> QED
    BY <2>1, <2>4, <2>7, <2>8 DEF BH!Next, BH!Attach, Owner
<1>7. CASE Lookup(t)
  <2>1. bars' = bars /\ vm' = vm /\ seen' = seen /\ th[t].pc = "have"
    BY <1>7 DEF Lookup
  <2>2. \A u \in Threads : u # t => th'[u] = th[u]
    BY <1>7, <1>0 DEF Lookup
  <2>3. CASE th'[t].pc = "deref" /\ th'[t].h = th[t].h
    BY <2>1, <2>2, <2>3, OwnerSame DEF Holds
  <2>4. CASE th' = [th EXCEPT ![t] = Idle] /\ th[t].h \notin Handles
    <3>1. ~Holds(t) /\ ~Holds(t)'
      BY <2>4, <1>0 DEF Holds, Idle
    <3> QED
      BY <2>1, <2>2, <3>1, OwnerSame
  <2>5. th[t].h \in Handles /\ th[t].led => InBar(bars[th[t].h], LedAccess)
    BY <2>1, LedInBar DEF Holds
  <2>6. \A a : th' = [th EXCEPT ![t].pc = "deref", ![t].addr = a]
               => th'[t].pc = "deref" /\ th'[t].h = th[t].h
    BY <1>0 DEF Thread
  <2> QED
    BY <1>7, <2>3, <2>4, <2>5, <2>6 DEF Lookup
<1>8. CASE Deref(t)
  <2> DEFINE h == th[t].h
  <2>1. h \in Handles /\ Holds(t) /\ th[t].addr = bars[h].base
    BY <1>8 DEF Deref, PciInv, PcInv, MapInv, Holds
  <2>2. /\ bars' = bars /\ vm' = vm
        /\ seen' = [by |-> h, res |-> Shows(bars[h].base)]
    BY <1>8, <2>1 DEF Deref
  <2>3. /\ \A u \in Threads : u # t => th'[u] = th[u]
        /\ th'[t].pc \in {"have", "close"} /\ th'[t].h = h
    BY <1>8, <1>0 DEF Deref, Thread
  <2>4. Owner' = Owner
    BY <2>1, <2>2, <2>3, OwnerSame DEF Holds
  <2>5. Owner[h] = Shows(bars[h].base) /\ Owner[h] # None
    BY <2>1, <1>0, HeldShown DEF Shows
  <2> QED
    BY <2>1, <2>2, <2>4, <2>5 DEF BH!Next, BH!Access, Owner
<1>9. CASE Unmap(t)
  <2> DEFINE h == th[t].h
             b == bars[h].base
  <2>1. th[t].pc \in {"have", "close"} /\ bars' = bars
    BY <1>9 DEF Unmap
  <2>2. \A u \in Threads : u # t => th'[u] = th[u]
    BY <1>9, <1>0 DEF Unmap
  <2>3. CASE h \notin Handles
    <3>1. vm' = vm /\ seen' = seen /\ th'[t] = Idle
      BY <1>9, <1>0, <2>3 DEF Unmap
    <3> QED
      BY <2>1, <2>2, <2>3, <3>1, OwnerSame DEF Holds, Idle
  <2>4. CASE h \in Handles
    <3>1. Holds(t)
      BY <2>1, <2>4 DEF Holds
    <3>2. b # None
      BY <3>1, <1>0, HeldShown
    <3>3. vm' = [vm EXCEPT ![b] = None] /\ seen' = None /\ Goto(t, "free")
      BY <1>9, <2>4, <3>2 DEF Unmap
    <3>8. th'[t].pc = "free"
      BY <3>3, <1>0
    <3>4. ~Holds(t)' /\ \A u \in Threads : u # t => (Holds(u)' <=> Holds(u))
      BY <2>2, <3>8 DEF Holds
    <3>5. \A u \in Threads : u # t => th[u].h # h
      BY <3>1, HeldShown
    <3>6. Owner' = [Owner EXCEPT ![h] = None]
      <4>1. ASSUME NEW i \in Handles
            PROVE  Owner'[i] = IF i = h THEN None ELSE Owner[i]
        <5> DEFINE Held == \E u \in Threads : Holds(u) /\ th[u].h = i
        <5>1. CASE i = h
          <6>1. ~Held'
            BY <5>1, <2>2, <3>4, <3>5
          <6> QED
            BY <5>1, <6>1 DEF Owner
        <5>2. CASE i # h
          <6>1. Held' <=> Held
            BY <5>2, <2>2, <3>4
          <6>2. Held => Shows(bars[i].base)' = Shows(bars[i].base)
            <7>1. ASSUME NEW u \in Threads, Holds(u), th[u].h = i
                  PROVE  bars[i].base # b
              <8>1. MapOf(u) = bars[i].base
                BY <7>1 DEF MapOf, Holds, AttachPcs
              <8> QED
                BY <7>1, <8>1, <5>2, <3>1, HeldShown
            <7> QED
              BY <7>1, <2>1, <3>3, <1>0, HeldShown DEF Shows
          <6>3. CASE Held
            BY <6>1, <6>2, <6>3, <5>2 DEF Owner
          <6>4. CASE ~Held
            BY <6>1, <6>4, <5>2 DEF Owner
          <6> QED
            BY <6>3, <6>4
        <5> QED
          BY <5>1, <5>2
      <4> QED
        BY <4>1, <2>4 DEF Owner
    <3>7. Owner[h] # None
      BY <3>1, <1>0, HeldShown
    <3> QED
      BY <2>4, <3>3, <3>6, <3>7 DEF BH!Next, BH!Detach, Owner
  <2> QED
    BY <2>3, <2>4
<1> QED
  BY <1>1, <1>2, <1>3, <1>4, <1>5, <1>6, <1>7, <1>8, <1>9 DEF Step

\* While threads attach and detach around it, the handle that fpga_pci_attach
\* returned stands for one resource until its fpga_pci_detach, is nobody
\* else's, and every access through it reaches that resource.
THEOREM HandlesAreIsolated ==
  ASSUME NoWrap
  PROVE  Spec => HandlesIsolate
<1>1. Init => BH!Init
  BY DEF Init, Idle, BH!Init, Holds
<1>2. PciInv /\ [Next]_vars => [BH!Next]_<<Owner, seen>>
  <2> SUFFICES ASSUME PciInv, [Next]_vars
               PROVE  BH!Next \/ (Owner' = Owner /\ seen' = seen)
    OBVIOUS
  <2>1. ASSUME NEW t \in Threads, Step(t)
        PROVE  BH!Next \/ (Owner' = Owner /\ seen' = seen)
    BY <2>1, HandleStep
  <2>2. CASE UNCHANGED vars
    BY <2>2 DEF vars, Owner, Holds, Shows
  <2> QED
    BY <2>1, <2>2 DEF Next
<1> QED
  BY <1>1, <1>2, PciInvariant, PTL DEF Spec, HandlesIsolate, BH!Spec, Owner
=============================================================================
