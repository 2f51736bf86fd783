-------------------------------- MODULE FpgaTool --------------------------------
(***************************************************************************)
(* The command-line tools (fpga_local_cmd.c, fpga_local_cmd_parse.c) as    *)
(* processes of one host, each with at most one tool running.  A tool      *)
(* parses its command line, attaches, carries out its command and ends     *)
(* with an exit code; it may be killed at any time.  A process works on    *)
(* its own slots, as fpga_mgmt.h asks of the library's users; the PFs in   *)
(* sysfs and the kernel's rescan are everybody's.                          *)
(*                                                                         *)
(* The synchronous load and clear of the library (fpga_mgmt.c) are here    *)
(* with what they do to the PFs; their mailbox traffic is in FpgaMgmt, the *)
(* clocks in ClkGen and the BARs in FpgaPci: here such a part succeeds or  *)
(* fails.                                                                  *)
(***************************************************************************)
EXTENDS AppPf, Descent

CONSTANTS SlotsOf,    \* [Proc -> slots its command lines may name]
          CmdsOf,     \* [Proc -> commands]
          SlotMax,    \* FPGA_SLOT_MAX
          Garbage,    \* an argument that is no number
          MinTime,    \* the least -r and -s that are accepted
          Times,      \* the values of -r and -s given
          MaxArgs     \* bound: options of a command line

Commands == {"load", "clear", "describe", "slots", "vjtag", "led", "setdip",
             "clkget", "clkset"}

ASSUME ToolAssumption ==
    /\ SlotMax \in Nat /\ MaxArgs \in Nat /\ MinTime \in Nat /\ Times \subseteq Nat
    /\ SlotsOf \in [Proc -> SUBSET (0..(SlotMax - 1))]
    /\ \A p, q \in Proc : p # q => SlotsOf[p] \cap SlotsOf[q] = {}
    /\ CmdsOf \in [Proc -> SUBSET Commands]

VARIABLES tool   \* of each process: where the tool is, what its command line
                 \* said, the ids before, whether the library saw the load end,
                 \* the ids printed, the exit code

vars == <<sysVars, tool>>

----------------------------------------------------------------------------
(* Command lines.  An option is <<letter, argument>>; those that only      *)
(* change what is printed are all "H".                                     *)

Flag(letters) == letters \X {"-"}
Common == Flag({"H", "h", "V", "?"})
Slot(slots) == {"S"} \X (slots \cup {SlotMax, Garbage})
Time(letters) == letters \X (Times \cup {Garbage})

\* The getopt loops, by command; in the last both forms set a clock's recipe
\* or frequency.
LoadOptions(slots)     == Common \cup Slot(slots) \cup Time({"r", "s"})
                            \cup ({"I"} \X Images) \cup Flag({"A", "P"})
ClearOptions(slots)    == Common \cup Slot(slots) \cup Time({"r", "s"}) \cup Flag({"A"})
DescribeOptions(slots) == Common \cup Slot(slots) \cup Time({"r"}) \cup Flag({"R"})
SlotsOptions           == Common \cup Time({"r"})
JtagOptions(slots)     == Common \cup Slot(slots) \cup ({"port"} \X {"number", Garbage})
LedOptions(slots)      == Common \cup Slot(slots)
SetDipOptions(slots)   == Common \cup Slot(slots) \cup ({"D"} \X {"bits", Garbage})
ClkGetOptions(slots)   == Common \cup Slot(slots)
ClkSetOptions(slots)   == Common \cup Slot(slots) \cup ({"clock"} \X {"value", Garbage})

\* parse_args: the command (str2func).
Options(c, slots) ==
    CASE c = "load"     -> LoadOptions(slots)
      [] c = "clear"    -> ClearOptions(slots)
      [] c = "describe" -> DescribeOptions(slots)
      [] c = "slots"    -> SlotsOptions
      [] c = "vjtag"    -> JtagOptions(slots)
      [] c = "led"      -> LedOptions(slots)
      [] c = "setdip"   -> SetDipOptions(slots)
      [] c = "clkget"   -> ClkGetOptions(slots)
      [] c = "clkset"   -> ClkSetOptions(slots)

\* cli_init_fpga: no slot is (uint32_t)-1, which no number on the command line
\* can give.
Unset == SlotMax + 1
Blank_SlotZero == [slot |-> 0, afi |-> NoImage, async |-> FALSE, prefetch |-> FALSE,
                   rescan |-> FALSE, arg |-> FALSE, named |-> {}, ok |-> TRUE]
Blank == [slot |-> Unset, afi |-> NoImage, async |-> FALSE, prefetch |-> FALSE,
          rescan |-> FALSE, arg |-> FALSE, named |-> {}, ok |-> TRUE]

\* string_to_uint leaves its target alone when it fails: -S keeps the slot
\* given before, -r and -s use an uninitialised variable.
SetSlot(f, v) == LET s == IF v = Garbage THEN f.slot ELSE v IN
                 [f EXCEPT !.slot = s, !.ok = s < SlotMax,
                           !.named = IF v = Garbage THEN @ ELSE {v}]

\* config_request_timeout, config_sync_timeout.
SetTime(f, t) == [f EXCEPT !.ok = t >= MinTime]

\* One turn of a parser's loop: the results it can have.  A port that is no
\* number passes after one that is.
Turn(f, o) ==
    CASE o[1] = "S" -> {SetSlot(f, o[2])}
      [] o[1] = "I" -> {[f EXCEPT !.afi = o[2]]}
      [] o[1] \in {"r", "s"} ->
            {SetTime(f, t) : t \in IF o[2] = Garbage THEN Times ELSE {o[2]}}
      [] o[1] = "A" -> {[f EXCEPT !.async = TRUE]}
      [] o[1] = "P" -> {[f EXCEPT !.async = TRUE, !.prefetch = TRUE]}
      [] o[1] = "R" -> {[f EXCEPT !.rescan = TRUE]}
      [] o[1] = "D" -> {[f EXCEPT !.arg = TRUE, !.ok = o[2] # Garbage]}
      [] o[1] = "port" -> {[f EXCEPT !.arg = TRUE, !.ok = o[2] # Garbage \/ f.arg]}
      [] o[1] \in {"h", "V", "?"} -> {[f EXCEPT !.ok = FALSE]}
      [] OTHER -> {f}

\* What the parser asks for after its loop.
Complete(c, f) ==
    /\ f.ok
    /\ c # "slots" => f.slot # Unset
    /\ c = "load" => f.afi # NoImage
    /\ c = "setdip" => f.arg

Refused == [Blank EXCEPT !.ok = FALSE]

\* The forms that at most n options can leave; a refused option ends the loop.
Turned(c, slots) ==
    LET turned[n \in 0..MaxArgs] ==
            IF n = 0 THEN {Blank}
            ELSE turned[n - 1] \cup
                 UNION {Turn(f, o) : f \in {g \in turned[n - 1] : g.ok}, o \in Options(c, slots)}
    IN  turned[MaxArgs]

\* parse_args.
Parsed(c, slots) ==
    {IF Complete(c, f) THEN [f EXCEPT !.arg = FALSE] ELSE Refused : f \in Turned(c, slots)}

CommandLines == [p \in Proc |-> [c \in CmdsOf[p] |-> Parsed(c, SlotsOf[p])]]

----------------------------------------------------------------------------
(* main.                                                                   *)

Off == [pc |-> "off", cmd |-> "none", opt |-> Refused,
        before |-> Absent, seen |-> FALSE, shown |-> Absent, ret |-> "none"]

Init == SysInit /\ tool = [p \in Proc |-> Off]

At(p, pc) == tool[p].pc = pc
Opt(p) == tool[p].opt
Slots(p) == Opt(p).slot

\* The tool goes on to another place, with or without a call of the PCI
\* library.
Goto(p, pc) == /\ tool' = [tool EXCEPT ![p].pc = pc]
               /\ walk' = [walk EXCEPT ![p] = NoWalk]
Call(p, pc, goal) == /\ tool' = [tool EXCEPT ![p].pc = pc]
                     /\ walk' = [walk EXCEPT ![p] = Enter(goal, Slots(p))]

\* err: whatever was attached is detached; of most tools the exit code is all
\* that matters afterwards.
End(p, ret) == /\ tool' = [tool EXCEPT ![p] = [Off EXCEPT !.ret = ret]]
               /\ walk' = [walk EXCEPT ![p] = NoWalk]

\* From the command line to cli_main.  All commands but describe-slots first
\* attach to a BAR of their slot, for which the library looks up the slot.
Start(p) ==
    /\ At(p, "off")
    /\ \E c \in CmdsOf[p] : \E f \in CommandLines[p][c] :
        IF ~f.ok
        THEN End(p, "fail")
        ELSE /\ tool' = [tool EXCEPT ![p] = [Off EXCEPT !.cmd = c, !.opt = f,
                            !.pc = IF c = "slots" THEN "slots" ELSE "attach"]]
             /\ walk' = [walk EXCEPT ![p] =
                            IF c = "slots" THEN Enter("all", 0) ELSE Enter("spec", f.slot)]
    /\ UNCHANGED <<image, node, leaving>>

\* The call of the PCI library has returned.
Done(p, pc) == At(p, pc) /\ walk[p].pc = "done"
IsSync(p) == tool[p].cmd \in {"load", "clear"} /\ ~Opt(p).async

\* A look-up or rescan failed: so does the tool, but describe-slots does not
\* look at the result.
Failed(p) ==
    /\ \/ At(p, "slots") /\ walk[p].pc \in {"failed", "ioerror"} /\ End(p, "ok")
       \/ ~At(p, "slots") /\ walk[p].pc = "ioerror" /\ End(p, "fail")
       \/ /\ ~At(p, "slots") /\ walk[p].pc = "failed"
          /\ tool' = [tool EXCEPT ![p] = [Off EXCEPT !.ret = "missing", !.opt.slot = Slots(p)]]
          /\ walk' = [walk EXCEPT ![p] = NoWalk]
    /\ UNCHANGED <<image, node, leaving>>

\* The part after the attach may fail for reasons of its own; of a poll see
\* also Unseen.
Fails(p) ==
    /\ \/ At(p, "load") \/ At(p, "poll") \/ At(p, "serve")
       \/ Done(p, "attach") \/ Done(p, "before")
    /\ End(p, "fail")
    /\ UNCHANGED <<image, node, leaving>>

\* command_describe_slots, the LED, DIP and clock commands.
Simple(p) ==
    /\ \/ Done(p, "slots")
       \/ Done(p, "attach") /\ tool[p].cmd \in {"led", "setdip", "clkget", "clkset"}
    /\ End(p, "ok")
    /\ UNCHANGED <<image, node, leaving>>

\* command_start_virtual_jtag serves until it fails or is killed.
Serve(p) ==
    /\ Done(p, "attach") /\ tool[p].cmd = "vjtag"
    /\ Goto(p, "serve")
    /\ UNCHANGED <<image, node, leaving>>

----------------------------------------------------------------------------
(* command_load, command_clear and the library's synchronous calls.        *)

\* fpga_pci_get_resource_map: the ids before.
Before(p) ==
    /\ \/ Done(p, "attach") /\ IsSync(p) /\ Call(p, "before", "spec")
       \/ /\ Done(p, "attach") /\ tool[p].cmd \in {"load", "clear"} /\ ~IsSync(p)
          /\ Goto(p, "load")
       \/ /\ Done(p, "before")
          /\ tool' = [tool EXCEPT ![p].pc = "load", ![p].before = walk[p].ids]
          /\ walk' = [walk EXCEPT ![p] = NoWalk]
    /\ UNCHANGED <<image, node, leaving>>

Wanted(p) == IF tool[p].cmd = "load" THEN Opt(p).afi ELSE Cleared

\* The command to the shell, which takes it unless it is busy (if it is, or
\* the command gets lost, see Fails).  A prefetch changes no image.
Load(p) ==
    /\ At(p, "load") /\ Slots(p) \in Cards
    /\ image[Slots(p)].next = NoImage
    /\ image' = IF Opt(p).prefetch THEN image
                ELSE [image EXCEPT ![Slots(p)].next = Wanted(p)]
    /\ IF IsSync(p) THEN Goto(p, "poll") ELSE End(p, "ok")
    /\ UNCHANGED <<node, leaving>>

\* The shell has it: rescan unless the ids in sysfs are the image's (or, left
\* open, because the shell has changed), then get the new spec.
Loaded_KeepsNode(p) ==
    /\ At(p, "poll")
    /\ image[Slots(p)] = [cur |-> Wanted(p), next |-> NoImage]
    /\ tool' = [tool EXCEPT ![p] = [@ EXCEPT !.pc = "spec", !.before = Absent, !.seen = TRUE]]
    /\ walk' = [walk EXCEPT ![p] = Enter("spec", Slots(p))]
    /\ UNCHANGED <<image, node, leaving>>
Loaded(p) ==
    /\ At(p, "poll")
    /\ image[Slots(p)] = [cur |-> Wanted(p), next |-> NoImage]
    /\ \E goal \in {"rescan"} \cup (IF Ids[Wanted(p)] = tool[p].before THEN {"spec"} ELSE {}) :
           /\ tool' = [tool EXCEPT ![p] = [@ EXCEPT !.pc = goal, !.before = Absent, !.seen = TRUE]]
           /\ walk' = [walk EXCEPT ![p] = Enter(goal, Slots(p))]
    /\ UNCHANGED <<image, node, leaving>>

\* A description failed: the synchronous call returns the status of the last
\* answer, and when that is 0 the tool goes on as if the image were there.
Unseen(p) ==
    /\ At(p, "poll")
    /\ Call(p, "show", "spec")
    /\ UNCHANGED <<image, node, leaving>>

----------------------------------------------------------------------------
(* command_describe and cli_show_image_info.                               *)

Describe(p) ==
    /\ Done(p, "attach") /\ tool[p].cmd = "describe"
    /\ IF Opt(p).rescan THEN Call(p, "rescan", "rescan") ELSE Call(p, "show", "spec")
    /\ UNCHANGED <<image, node, leaving>>

\* After the rescan, of the library or of describe -R, and after the library's
\* last look: the tool looks the slot up once more to print it.
LookAgain(p) ==
    /\ \/ Done(p, "rescan") /\ Call(p, IF IsSync(p) THEN "spec" ELSE "show", "spec")
       \/ Done(p, "spec") /\ Call(p, "show", "spec")
    /\ UNCHANGED <<image, node, leaving>>

Show(p) ==
    /\ Done(p, "show")
    /\ tool' = [tool EXCEPT ![p] = [@ EXCEPT !.pc = "off", !.ret = "ok",
                   !.before = Absent, !.opt.named = {}, !.shown = walk[p].ids]]
    /\ walk' = [walk EXCEPT ![p] = NoWalk]
    /\ UNCHANGED <<image, node, leaving>>

----------------------------------------------------------------------------
(* What happens to a tool.                                                 *)

\* The shell ends a load or a clear; a load that fails leaves the card cleared.
Settle(c) ==
    /\ image[c].next # NoImage
    /\ \E i \in {image[c].next, Cleared} :
            image' = [image EXCEPT ![c] = [cur |-> i, next |-> NoImage]]
    /\ UNCHANGED <<node, leaving, walk, tool>>

Kill(p) ==
    /\ ~At(p, "off")
    /\ End(p, "none")
    /\ UNCHANGED <<image, node, leaving>>

Run(p) == \/ Walk(p) /\ UNCHANGED tool
          \/ Failed(p) \/ Fails(p) \/ Simple(p) \/ Serve(p) \/ Before(p)
          \/ Load(p) \/ Loaded(p) \/ Unseen(p) \/ Describe(p) \/ LookAgain(p) \/ Show(p)

Next == \/ \E p \in Proc : Start(p) \/ Run(p) \/ Kill(p)
        \/ \E c \in Cards : Settle(c)
        \/ \E c \in SlowCards : Gone(c) /\ UNCHANGED tool

Spec == Init /\ [][Next]_vars

\* A tool that is running goes on running.
FairSpec == Spec /\ \A p \in Proc : WF_vars(Run(p))

----------------------------------------------------------------------------
(* Properties.                                                             *)

\* A synchronous load or clear that ends with exit code 0 has printed the PCI
\* ids that are now in sysfs, whatever other processes removed and rescanned
\* meanwhile; and if the library saw the load end, they are those of the image
\* it was asked for.  A card whose driver is slow to let go may show its old ids.
ShowsTheImage ==
    \A p \in Proc :
        At(p, "off") /\ tool[p].ret = "ok" /\ IsSync(p) /\ Slots(p) \notin SlowCards =>
            /\ tool[p].shown = node[Slots(p)]
            /\ tool[p].seen => tool[p].shown = Ids[Wanted(p)]

\* The PF of a slot that only one process works on is never missed by that
\* process, however an earlier tool on the slot was killed or failed, a PF
\* removed but not rescanned included.  What else may go wrong with a slot that
\* holds a card is an access to sysfs, or a driver that is slow to let go.
OwnSlotFound ==
    \A p \in Proc :
        At(p, "off") /\ tool[p].ret = "missing" => Slots(p) \notin Cards \ SlowCards

\* No slot is touched but the one the command line named last: not by a command
\* line without a slot, nor by one with an unreadable slot.
OnlyNamedSlots ==
    \A p \in Proc :
        ~At(p, "off") /\ ~At(p, "slots") => Slots(p) \in Opt(p).named

\* How far a tool is from its end: its own place, and in the call of the PCI
\* library the rescan to come, the cards and the retries that are left.
Place == [attach |-> 8, before |-> 7, load |-> 6, poll |-> 5, rescan |-> 4, spec |-> 3,
          show |-> 2, slots |-> 1, serve |-> 1, off |-> 0]
WalkPlace == [exists |-> 5, again |-> 5, ids |-> 4, res |-> 3, remove |-> 2, rescan |-> 1,
              done |-> 0, failed |-> 0, ioerror |-> 0, idle |-> 0]
CardsLeft(w) == IF w.goal = "all" THEN LastCard - w.slot ELSE 0
Rank(t, w) == <<Place[t.pc], IF w.goal = "check" THEN 0 ELSE 1, CardsLeft(w),
                WalkPlace[w.pc], MaxRetries - w.tries, IF w.pc = "exists" THEN 1 ELSE 0>>

\* The retries of a look-up are bounded however often the device vanishes again:
\* every step of a tool but its last brings its end nearer, and what the other
\* tools and the shells do never puts it off.
ToolRunsDown ==
    [][\A p \in Proc : ~At(p, "off") =>
           \/ At(p, "off")'
           \/ Below(Rank(tool[p], walk[p])', Rank(tool[p], walk[p]))
           \/ UNCHANGED <<tool[p], walk[p]>>]_vars

\* Every tool comes to an end, or to serving virtual JTAG, again and again,
\* although a PF may be missing for good or be removed over and over.
ToolEnds ==
    \A p \in Proc : []<>(At(p, "off") \/ At(p, "serve"))
=================================================================================
