-------------------------------- MODULE SdeSlot --------------------------------
(***************************************************************************)
(* What a slot of the SDE library owns, from sde_mgmt_init to              *)
(* sde_mgmt_close (sde_mgmt.c, sde_mem.c, sde_hw_ctrl.c, fpga_dma_mem.c):  *)
(* mapped memory the card can write to, the arrays that list the buffers,  *)
(* and BAR handles.  Every step of the initialisation can fail, and none   *)
(* undoes what came before it: the record alone knows, and the next        *)
(* initialisation wipes the record first.                                  *)
(*                                                                         *)
(* The caller resets before it configures, posts only what is configured,  *)
(* and closes an initialised slot once, as the examples do.                *)
(***************************************************************************)
EXTENDS Naturals, Sequences, FiniteSets

CONSTANTS NumDesc,  \* SDE_NUM_DESC
          MaxRes,   \* bound: resources of the process at a time
          MaxInits, \* bound: calls of sde_mgmt_init
          MaxApp    \* bound: regions the application maps for itself

ASSUME SlotAssumption ==
    NumDesc \in Nat \ {0} /\ MaxRes \in Nat /\ MaxInits \in Nat /\ MaxApp \in Nat

Ids == 1..MaxRes
None == 0
Subs == {"c2h", "h2c"}
Examples == Subs \cup {"loopback"}
Layouts == {"single", "multi", "user"}

VARIABLES
    live,    \* [Ids]: what each resource of the process is, or "free"
    field,   \* the record: [Fields]: a resource, a stale address, or None
    dir, layout,
    usr,     \* [Subs]: sde_mgmt_set_dma_buffers was called
    hwInit,  \* hw_ctrl.initialized
    init,    \* initialized
    todo,    \* the fields sde_mgmt_init still has to fill
    pc,      \* where the call is
    got,     \* [1..3]: what each attach of sde_hw_init has come to
    ready,   \* "no", "reset" or "cfg": how far the engine has been set up
    told,    \* resources the card has addresses of
    lost,    \* resources no record knows any more
    inits

record == <<field, dir, layout, usr, hwInit, init>>
vars == <<live, record, todo, pc, got, ready, told, lost, inits>>

Wb(s)  == <<"wb", s, 0>>    \* <s>_writeback.memory_va
Arr(s) == <<"arr", s, 0>>   \* <s>_buffers
Buf(s, i) == <<"map", s, i>>
Bar(i) == <<"bar", "hw", i>>  \* bar0_handle, bar4_handle, bar4_wc_handle

Fields == {Wb(s) : s \in Subs} \cup {Arr(s) : s \in Subs}
          \cup {Buf(s, i) : s \in Subs, i \in 1..NumDesc} \cup {Bar(i) : i \in 1..3}

NoBars == [i \in 1..3 |-> "none"]

Kind(f) == IF f[1] = "wb" THEN "map" ELSE f[1]

\* dma_buffer_init: num_buffers.
NumBuf(l) == IF l = "single" THEN 1 ELSE IF l = "multi" THEN NumDesc ELSE 0

Uses(d, s) == d \in {s, "loopback"}

\* dma_buffer_init: the array, then each buffer.
BufFields(d, l, s) ==
    IF Uses(d, s) /\ l # "user"
    THEN <<Arr(s)>> \o [i \in 1..NumBuf(l) |-> Buf(s, i)] ELSE << >>

\* sde_mem_init, then sde_hw_init.
MemFields(d, l) == <<Wb("c2h"), Wb("h2c")>> \o BufFields(d, l, "c2h")
                                            \o BufFields(d, l, "h2c")
InitFields(d, l) == MemFields(d, l) \o <<Bar(1), Bar(2), Bar(3)>>

InSeq(q) == {q[k] : k \in DOMAIN q}

Free == {i \in Ids : live[i] = "free"}
Fresh == CHOOSE i \in Free : \A j \in Free : i <= j

Owned == {field[f] : f \in Fields} \ {None}

Init ==
    /\ live = [i \in Ids |-> "free"] /\ field = [f \in Fields |-> None]
    /\ dir = "c2h" /\ layout = "multi" /\ usr = [s \in Subs |-> FALSE]
    /\ hwInit = FALSE /\ init = FALSE /\ todo = << >> /\ pc = "closed"
    /\ got = NoBars /\ ready = "no" /\ told = {} /\ lost = {} /\ inits = 0

----------------------------------------------------------------------------
(* sde_mgmt_init.                                                          *)

Idle == pc \in {"closed", "failed", "open"}

\* What an initialisation does to the resources of the record it wipes.
AfterWipe_Freed(l, r) == [i \in Ids |-> IF i \in r THEN "free" ELSE l[i]]
AfterWipe(l, r) == l

InitCall(d, l) ==
    /\ Idle /\ inits < MaxInits
    /\ inits' = inits + 1
    /\ lost' = lost \cup {i \in Owned : pc # "closed" /\ live[i] # "free"
                                         /\ live[i] # "app"}
    /\ live' = AfterWipe(live, IF pc = "closed" THEN {} ELSE Owned)
    /\ field' = [f \in Fields |-> None]
    /\ dir' = d /\ layout' = l /\ usr' = [s \in Subs |-> FALSE]
    /\ hwInit' = FALSE /\ init' = FALSE /\ got' = NoBars
    /\ todo' = InitFields(d, l) /\ pc' = "init"
    /\ ready' = "no" /\ UNCHANGED told

Take(f) == /\ Free # {}
           /\ live' = [live EXCEPT ![Fresh] = Kind(f)]
           /\ field' = [field EXCEPT ![f] = Fresh]

InitStep ==
    /\ pc = "init" /\ todo # << >> /\ Head(todo)[1] # "bar"
    /\ Take(Head(todo)) /\ todo' = Tail(todo)
    /\ UNCHANGED <<dir, layout, usr, hwInit, init, pc, got, ready, told, lost,
                   inits>>

\* map_page: the address is published before mlockall or the page map fails
\* and the page is unmapped again.
MemFail ==
    /\ pc = "init" /\ todo # << >> /\ Head(todo)[1] # "bar" /\ Free # {}
    /\ \/ field' = field
       \/ Kind(Head(todo)) = "map" /\ field' = [field EXCEPT ![Head(todo)] = Fresh]
    /\ pc' = "failed" /\ todo' = << >>
    /\ UNCHANGED <<live, dir, layout, usr, hwInit, init, got, ready, told, lost,
                   inits>>

\* sde_hw_init: the three attaches are all tried.  With the library's table of
\* BARs full, an attach returns 0 and leaves the handle -1.
BarStep(how) ==
    /\ pc = "init" /\ todo # << >> /\ Head(todo)[1] = "bar"
    /\ IF how = "good" THEN Take(Head(todo)) ELSE UNCHANGED <<live, field>>
    /\ got' = [got EXCEPT ![Head(todo)[3]] = how] /\ todo' = Tail(todo)
    /\ UNCHANGED <<dir, layout, usr, hwInit, init, pc, ready, told, lost, inits>>

\* Their results or'ed.
AttachOk_Last(g) == g[3] # "failed"
AttachOk(g) == \A i \in 1..3 : g[i] # "failed"

\* The rest of sde_mgmt_init takes addresses out of the memory just mapped.
InitDone ==
    /\ pc = "init" /\ todo = << >>
    /\ hwInit' = AttachOk(got) /\ init' = AttachOk(got)
    /\ pc' = IF AttachOk(got) THEN "open" ELSE "failed"
    /\ UNCHANGED <<live, field, dir, layout, usr, todo, got, ready, told, lost,
                   inits>>

----------------------------------------------------------------------------
(* Setting the engine up; every call asks for an initialised slot.         *)

\* sde_mgmt_set_dma_buffers: the buffers are the application's.
SetBuffers(s) ==
    /\ pc = "open" /\ init /\ layout = "user" /\ \E i \in Ids : live[i] = "app"
    /\ usr' = [usr EXCEPT ![s] = TRUE]
    /\ UNCHANGED <<live, field, dir, layout, hwInit, init, todo, pc, got, ready,
                   told, lost, inits>>

SetUp(r, t) == /\ ready' = r /\ told' = t
               /\ UNCHANGED <<live, record, todo, pc, got, lost, inits>>

\* What the card knows after the reset bit was set and cleared.
AfterReset_BitStuck(t) == t
AfterReset(t) == {}

\* sde_mgmt_reset, by BAR0; a poke that fails, as all do without a handle,
\* leaves the engine as it was, or reset.
Reset ==
    /\ pc = "open" /\ init /\ hwInit
    /\ \/ SetUp("no", told)
       \/ field[Bar(1)] # None /\ \E r \in {"reset", "no"} : SetUp(r, AfterReset(told))

\* sde_mgmt_cfg, by BAR4: each write-back block is told its memory, then the
\* descriptors get their buffers' addresses.  A failure is a poke's, or that
\* of a direction without buffers.
HasBuffers(s) == ~Uses(dir, s) \/ layout # "user" \/ usr[s]
WbOf(s) == IF field[Wb(s)] = None THEN {} ELSE {field[Wb(s)]}

Cfg ==
    /\ pc = "open" /\ init /\ ready = "reset"
    /\ \/ /\ field[Bar(2)] # None /\ \A s \in Subs : HasBuffers(s)
          /\ SetUp("cfg", told \cup WbOf("c2h") \cup WbOf("h2c"))
       \/ \E t \in {WbOf("c2h"), WbOf("c2h") \cup WbOf("h2c")} :
              field[Bar(2)] # None /\ SetUp("no", told \cup t)
       \/ SetUp("no", told)

\* sde_mgmt_post_desc, with the buffers sde_dma_init_desc_buffer put in.
BufsOf(s) == IF layout = "user" THEN {i \in Ids : live[i] = "app"}
             ELSE {field[Buf(s, i)] : i \in 1..NumBuf(layout)}

Post(s) ==
    /\ pc = "open" /\ init /\ ready = "cfg" /\ Uses(dir, s)
    /\ SetUp("cfg", told \cup BufsOf(s))

----------------------------------------------------------------------------
(* sde_mgmt_close: nothing at all is done for a slot whose initialisation  *)
(* failed, and the engine is not stopped.                                  *)

\* sde_hw_close, then sde_mem_close; num_buffers limits the buffers.
CloseFields_NoArrays(d, l) == {f \in InSeq(InitFields(d, l)) : f[1] # "arr"}
CloseFields(d, l) == InSeq(InitFields(d, l))

Close ==
    /\ pc = "open" /\ init
    /\ LET fs == CloseFields(dir, layout)
           gone == {field[f] : f \in fs} \ {None}
       IN  /\ live' = [i \in Ids |-> IF i \in gone THEN "free" ELSE live[i]]
           \* The arrays' addresses stay in the record, as does initialized.
           /\ field' = [f \in Fields |->
                           IF f \in fs /\ f[1] # "arr" THEN None ELSE field[f]]
    /\ hwInit' = FALSE /\ pc' = "closed" /\ ready' = "no"
    /\ UNCHANGED <<dir, layout, usr, init, todo, got, told, lost, inits>>

\* The application maps memory of its own.
AppMap ==
    /\ Idle /\ Free # {} /\ Cardinality({i \in Ids : live[i] = "app"}) < MaxApp
    /\ live' = [live EXCEPT ![Fresh] = "app"]
    /\ UNCHANGED <<record, todo, pc, got, ready, told, lost, inits>>

Next ==
    \/ \E d \in Examples, l \in Layouts : InitCall(d, l)
    \/ InitStep \/ MemFail \/ InitDone
    \/ \E how \in {"good", "full", "failed"} : BarStep(how)
    \/ \E s \in Subs : SetBuffers(s) \/ Post(s)
    \/ Reset \/ Cfg \/ Close \/ AppMap

Spec == Init /\ [][Next]_vars

----------------------------------------------------------------------------
(* What the library promises of memory, handles and addresses.             *)

\* Whatever failed before, or in part (sde_hw_init or's three results), an
\* initialised slot has all that its direction and layout use, each its own, but
\* the BARs that the PCI library's full table kept from it without a word.  Of
\* those the first call that needs one complains: an engine is not reset without
\* BAR0, and not configured without BAR4.
LacksOnlyBars ==
    pc = "open" =>
        /\ hwInit /\ init
        /\ \A f \in InSeq(InitFields(dir, layout)) :
              \/ /\ field[f] # None /\ live[field[f]] = Kind(f)
                 /\ \A g \in InSeq(InitFields(dir, layout)) :
                        field[f] = field[g] => f = g
              \/ \E i \in 1..3 : f = Bar(i) /\ got[i] = "full"
        /\ ready # "no" => field[Bar(1)] # None
        /\ ready = "cfg" => field[Bar(2)] # None

\* Nothing the application mapped is unmapped by the library: no stale address
\* left by map_page or by an earlier life of the slot is ever released.
AppIntact == [][\A i \in Ids : live[i] = "app" => live'[i] = "app"]_live

\* After sde_mgmt_close all that is left of the library is what failed or
\* repeated initialisations lost.
CloseFrees ==
    pc = "closed" => {i \in Ids : live[i] \notin {"free", "app"}} = lost

\* While a slot is configured the card knows no address but of the slot's
\* present memory and of the application's buffers.
CardKnowsOurs ==
    ready = "cfg" => \A i \in told :
                            live[i] = "app" \/ (live[i] = "map" /\ i \in Owned)

=============================================================================
