-------------------------------- MODULE ClkGen --------------------------------
(***************************************************************************)
(* Clock programming of one slot (fpga_clkgen_utils.c, fpga_clkgen_mmcm.c).*)
(* The custom logic's clocks come from four MMCMs; a call holds the logic  *)
(* in reset, writes each MMCM's multiplier and dividers, has them loaded,  *)
(* waits for lock and releases the resets.  Any register access may fail,  *)
(* an MMCM may take its time to lock or never do so, the image (and with   *)
(* it the set of clocks there is) may be replaced between two calls, and   *)
(* the process may be started anew.                                        *)
(*                                                                         *)
(* The AWS_CLK_GEN block is not part of src/'s C code: loading a           *)
(* configuration drops the MMCM's lock until it locks again, and nothing   *)
(* else does.                                                              *)
(***************************************************************************)
EXTENDS Naturals, Sequences, FiniteSets, Descent

CONSTANTS Images,     \* the clocks of an image: [Groups -> SUBSET 0..2]
          NoClkGen,   \* an image without AWS_CLK_GEN
          Default,    \* what an MMCM is built with: [Groups -> Config]
          Recipes,    \* recipe numbers asked for: records of Groups
          Freqs,      \* frequencies asked for: records of Groups
          Retries,    \* MAX_CLKGEN_LOOP_RETRIES
          MaxCalls    \* bound: calls made

Groups == {"a", "b", "c", "hbm"}
Order == <<"a", "b", "c", "hbm">>
NumClocks == [a |-> 3, b |-> 2, c |-> 2, hbm |-> 1]

\* A configuration: the shared multiplier (and thousandths) and divider, and
\* a divider (and thousandths) per clock.
Config == [mult : Nat, frac : Nat, div : Nat,
           clk : [0..2 -> [div : Nat, frac : Nat]]]

ASSUME ClkGenAssumption ==
    /\ \A im \in Images : im \in [Groups -> SUBSET (0..2)]
    /\ \A im \in Images, g \in Groups : im[g] \subseteq 0..(NumClocks[g] - 1)
    /\ NoClkGen \notin Images
    /\ Default \in [Groups -> Config]
    /\ \A r \in Recipes \cup Freqs : r \in [Groups -> Nat]
    /\ Retries \in Nat \ {0} /\ MaxCalls \in Nat

VARIABLES
    image,     \* CLKS_AVAIL_REG and the ID registers
    regs,      \* an MMCM's configuration registers
    act,       \* the configuration its clocks run at
    lock,      \* MMCM_STATUS_REG and MMCM_LOCK_REG
    rst,       \* SYSRST_REG holds the custom logic in reset
    tab,       \* private: per group, clk_avails and any_clocks_available
    pc, call,  \* where the calling thread is, in which call
    grp, clk,  \* the MMCM and the divider being written
    loops,     \* loop_count of the current wait
    info,      \* the caller's fpga_clkgen_info
    asked,     \* {} or {what the last set call was asked for}
    ret,       \* the return value on its way to the caller
    calls      \* calls made

cardVars == <<image, regs, act, lock, rst, asked>>
procVars == <<tab, info>>
vars == <<cardVars, procVars, pc, call, grp, clk, loops, ret, calls>>

NoCall == [fn |-> "none", reset |-> FALSE, want |-> [g \in Groups |-> 0]]
NoTable == [g \in Groups |-> [av |-> {}, any |-> FALSE]]

Init ==
    /\ image \in Images \cup {NoClkGen}
    /\ regs = Default /\ act = Default
    /\ lock = [g \in Groups |-> FALSE] /\ rst = TRUE /\ asked = {}
    /\ tab = NoTable /\ info = Default
    /\ pc = "idle" /\ call = NoCall /\ grp = 1 /\ clk = 0 /\ loops = 0
    /\ ret = "ok" /\ calls = 0

----------------------------------------------------------------------------
(* The tables.                                                             *)

\* A row: mult, its thousandths, div, div0, its thousandths, div1, div2.
Row(r) == [mult |-> r[1], frac |-> r[2], div |-> r[3],
           clk |-> [i \in 0..2 |-> IF i = 0 THEN [div |-> r[4], frac |-> r[5]]
                                   ELSE [div |-> r[5 + i], frac |-> 0]]]

RecipeTable ==
    [a   |-> << <<15,0,1,24,0,8,6>>, <<15,0,1,12,0,4,3>>,
                <<12,500,1,80,0,10,20>> >>,
     b   |-> << <<12,500,1,5,0,10,1>>, <<11,875,1,9,500,19,1>>,
                <<11,250,1,2,500,5,1>>, <<11,875,1,4,750,19,1>>,
                <<12,0,1,4,0,16,1>>, <<12,0,1,3,0,12,1>> >>,
     c   |-> << <<12,0,1,4,0,3,1>>, <<12,0,1,8,0,6,1>>,
                <<12,0,1,16,0,12,1>>, <<8,0,1,4,0,3,1>> >>,
     hbm |-> << <<12,500,1,5,0,1,1>>, <<11,875,1,9,500,1,1>>,
                <<11,250,1,2,500,1,1>>, <<12,0,1,4,0,1,1>>,
                <<12,0,1,3,0,1,1>> >>]

\* FREQ_TABLE, in order of the frequency: frequency, mult, div, thousandths
\* of mult, div0, thousandths of div0.
FreqTable == <<
    <<87,8,1,750,10,0>>,   <<97,9,1,750,10,0>>,   <<100,12,1,0,12,0>>,
    <<109,10,1,875,10,0>>, <<125,11,1,875,9,500>>, <<136,13,1,625,10,0>>,
    <<150,12,1,0,8,0>>,    <<156,15,1,625,10,0>>, <<166,16,1,625,10,0>>,
    <<171,17,1,125,10,0>>, <<177,17,1,750,10,0>>, <<182,18,1,250,10,0>>,
    <<187,18,1,750,10,0>>, <<196,19,1,625,10,0>>, <<200,12,1,0,6,0>>,
    <<218,21,1,750,10,0>>, <<227,22,1,750,10,0>>, <<250,11,1,875,4,750>>,
    <<265,26,2,500,5,0>>,  <<266,8,1,0,3,0>>,     <<273,27,2,250,5,0>>,
    <<291,29,2,0,5,0>>,    <<300,12,1,0,4,0>>,    <<318,31,2,750,5,0>>,
    <<333,10,1,0,3,0>>,    <<343,34,4,250,2,500>>, <<364,36,4,750,2,500>>,
    <<375,37,4,500,2,500>>, <<400,12,1,0,3,0>>,   <<405,20,1,250,5,0>>,
    <<410,20,1,500,5,0>>,  <<415,20,1,750,5,0>>,  <<420,21,1,0,5,0>>,
    <<425,21,1,250,5,0>>,  <<430,21,1,500,5,0>>,  <<435,21,1,750,5,0>>,
    <<437,43,4,625,2,500>>, <<440,22,1,0,5,0>>,   <<445,22,1,250,5,0>>,
    <<450,11,1,250,2,500>>, <<458,45,4,750,2,500>>, <<500,15,1,0,3,0>> >>

\* CLKGEN_A_1_MAX, CLKGEN_B_0_MAX, CLKGEN_C_0_MAX, CLKGEN_HBM_MAX.
MaxFreq == [a |-> 125, b |-> 450, c |-> 300, hbm |-> 450]

\* aws_clkgen_set_freq: the highest row that is not above the frequency.
ChosenRow_Above(f) == CHOOSE i \in 1..Len(FreqTable) :
    /\ FreqTable[i][1] >= f
    /\ \A j \in 1..Len(FreqTable) : j < i => FreqTable[j][1] < f
ChosenRow(f) == CHOOSE i \in 1..Len(FreqTable) :
    /\ FreqTable[i][1] <= f
    /\ \A j \in 1..Len(FreqTable) : j > i => FreqTable[j][1] > f

FreqConfig(f) ==
    LET r == FreqTable[ChosenRow(f)]
    IN  Row(<<r[2], r[4], r[3], r[5], r[6], 15, 15>>)

----------------------------------------------------------------------------
(* The call up to the first register it writes.                            *)

Return(r) == /\ ret' = r /\ pc' = "idle"
             /\ UNCHANGED <<call, grp, clk, loops, calls>>

\* The thread goes on at p, with group i and no time waited yet.
Goto(p, i) == /\ pc' = p /\ grp' = i /\ loops' = 0
              /\ UNCHANGED <<call, clk, ret, calls>>

Sets == {"recipe", "dynamic"}
Setting == call.fn \in Sets
Known == image # NoClkGen

\* The configuration a call asks for.
Target(c, g) == IF c.fn = "recipe" THEN Row(RecipeTable[g][c.want[g] + 1])
                ELSE FreqConfig(c.want[g])

\* aws_clkgen_set_recipe and aws_clkgen_set_dynamic check their arguments
\* unless they are to reset; too low a frequency is noticed later.
Refused(c) ==
    /\ ~c.reset
    /\ \/ /\ c.fn = "recipe"
          /\ \E g \in Groups : c.want[g] >= Len(RecipeTable[g])
       \/ /\ c.fn = "dynamic"
          /\ \E g \in Groups : c.want[g] > MaxFreq[g]

Requests ==
    [fn : {"get", "deassert", "toggle"}, reset : {FALSE}, want : {NoCall.want}]
    \cup [fn : Sets, reset : {TRUE}, want : {NoCall.want}]
    \cup [fn : {"recipe"}, reset : {FALSE}, want : Recipes]
    \cup [fn : {"dynamic"}, reset : {FALSE}, want : Freqs]

Call ==
    /\ pc = "idle" /\ calls < MaxCalls
    /\ \E c \in Requests :
        /\ call' = c /\ calls' = calls + 1 /\ grp' = 1 /\ clk' = 0
        /\ loops' = 0
        /\ IF Refused(c) THEN pc' = "idle" /\ ret' = "inval"
           ELSE pc' = "attach" /\ ret' = ret
    /\ UNCHANGED <<cardVars, procVars>>

Attach ==
    /\ pc = "attach"
    /\ Return("io") \/ Goto("init", 1)
    /\ UNCHANGED <<cardVars, procVars>>

\* mmcm_init of the groups, in order: the clocks there are, and that there is
\* one.  Nothing takes any_clocks_available back.  An image without the
\* block answers anything.  A failing read ends it after the first k.
MmcmInit(g, av) == [av |-> av, any |-> tab[g].any \/ av # {}]

ClocksRead == IF Known THEN {image}
              ELSE {[g \in Groups |-> {}],
                    [g \in Groups |-> 0..(NumClocks[g] - 1)]}

InitTable ==
    /\ pc = "init"
    /\ \E k \in 0..4, read \in ClocksRead :
        /\ tab' = [g \in Groups |-> IF \E i \in 1..k : Order[i] = g
                                    THEN MmcmInit(g, read[g]) ELSE tab[g]]
        /\ IF k < 4 THEN Return("io") ELSE Goto("id", 1)
    /\ UNCHANGED <<cardVars, info>>

CheckId ==
    /\ pc = "id"
    /\ \/ Return("notfound")
       \/ /\ Known
          /\ Goto(CASE call.fn = "get" -> "get"
                    [] call.fn = "deassert" -> "rst0"
                    [] OTHER -> "rst1", 1)
    /\ UNCHANGED <<cardVars, procVars>>

----------------------------------------------------------------------------
(* Programming.                                                            *)

\* aws_clkgen_reset(1).
AssertReset ==
    /\ pc = "rst1"
    /\ \/ Return("io") /\ rst' = rst
       \/ /\ rst' = TRUE
          /\ IF call.fn = "toggle" THEN Goto("rst0", 1) ELSE Goto("mmcm", 1)
    /\ asked' = IF Setting THEN {} ELSE asked
    /\ UNCHANGED <<image, regs, act, lock, procVars>>

\* The next MMCM, or the release of the resets after the last one.
NextMmcm == IF grp < 4 THEN Goto("mmcm", grp + 1) ELSE Goto("rst0", 1)

\* aws_clkgen_set_freq, aws_clkgen_set_mmcm: what comes before the writes.
StartMmcm ==
    /\ pc = "mmcm"
    /\ LET g == Order[grp] IN
       IF /\ call.fn = "dynamic" /\ ~call.reset
          /\ call.want[g] < FreqTable[1][1]
       THEN Return("inval")
       ELSE IF ~tab[g].any THEN NextMmcm
       ELSE Goto(IF call.reset THEN "wait1" ELSE "shared", grp)
    /\ UNCHANGED <<cardVars, procVars>>

NonZero(n) == IF n = 0 THEN 1 ELSE n

\* mmcm_set_shared_clock, mmcm_set_clk_div: the fields a register keeps.
Shared(c) == [mult |-> NonZero(c.mult) % 256, frac |-> c.frac % 4096,
              div |-> NonZero(c.div) % 256]
Divider(i, d) == [div |-> NonZero(d.div) % 256,
                  frac |-> IF i = 0 THEN d.frac % 4096 ELSE 0]

WriteShared ==
    /\ pc = "shared"
    /\ LET g == Order[grp]
           s == Shared(Target(call, g))
       IN  \/ Return("io") /\ regs' = regs
           \/ /\ regs' = [regs EXCEPT ![g] = [mult |-> s.mult,
                              frac |-> s.frac, div |-> s.div, clk |-> @.clk]]
              /\ pc' = "div" /\ clk' = 0
              /\ UNCHANGED <<call, grp, loops, ret, calls>>
    /\ UNCHANGED <<image, act, lock, rst, asked, procVars>>

\* The clocks that are not there keep their divider.
NextClk == IF clk < 2
           THEN clk' = clk + 1 /\ UNCHANGED <<pc, call, grp, loops, ret, calls>>
           ELSE Goto("wait1", grp)

WriteDiv_IgnoresError ==
    /\ pc = "div"
    /\ LET g == Order[grp] IN
       IF clk \in tab[g].av
       THEN /\ NextClk
            /\ \/ regs' = regs
               \/ regs' = [regs EXCEPT ![g].clk[clk] =
                              Divider(clk, Target(call, g).clk[clk])]
       ELSE NextClk /\ regs' = regs
    /\ UNCHANGED <<image, act, lock, rst, asked, procVars>>
WriteDiv ==
    /\ pc = "div"
    /\ LET g == Order[grp] IN
       IF clk \in tab[g].av
       THEN \/ Return("io") /\ regs' = regs
            \/ /\ NextClk
               /\ regs' = [regs EXCEPT ![g].clk[clk] =
                              Divider(clk, Target(call, g).clk[clk])]
       ELSE NextClk /\ regs' = regs
    /\ UNCHANGED <<image, act, lock, rst, asked, procVars>>

\* mmcm_wait_for_locked, before and after the configuration is loaded.
WaitLocked_LateStop ==
    /\ pc \in {"wait1", "wait2"}
    /\ LET g == Order[grp] IN
       \/ Return("io")
       \/ /\ lock[g]
          /\ IF pc = "wait1" THEN Goto("load", grp) ELSE NextMmcm
       \/ /\ ~lock[g] /\ loops < Retries
          /\ loops' = loops + 1 /\ UNCHANGED <<pc, call, grp, clk, ret, calls>>
       \/ ~lock[g] /\ loops >= Retries /\ Return("busy")
    /\ UNCHANGED <<cardVars, procVars>>
WaitLocked_Recounts ==
    /\ pc \in {"wait1", "wait2"}
    /\ LET g == Order[grp] IN
       \/ Return("io")
       \/ /\ lock[g]
          /\ IF pc = "wait1" THEN Goto("load", grp) ELSE NextMmcm
       \/ /\ ~lock[g]
          /\ loops' = (loops + 1) % Retries /\ UNCHANGED <<pc, call, grp, clk, ret, calls>>
    /\ UNCHANGED <<cardVars, procVars>>
WaitLocked ==
    /\ pc \in {"wait1", "wait2"}
    /\ LET g == Order[grp] IN
       \/ Return("io")
       \/ /\ lock[g]
          /\ IF pc = "wait1" THEN Goto("load", grp) ELSE NextMmcm
       \/ /\ ~lock[g] /\ loops + 1 < Retries
          /\ loops' = loops + 1 /\ UNCHANGED <<pc, call, grp, clk, ret, calls>>
       \/ ~lock[g] /\ loops + 1 >= Retries /\ Return("busy")
    /\ UNCHANGED <<cardVars, procVars>>

\* mmcm_load_cfg: the MMCM takes its registers over (or what it was built
\* with) and has to lock anew.
LoadCfg ==
    /\ pc = "load"
    /\ LET g == Order[grp] IN
       \/ Return("io") /\ UNCHANGED <<act, lock>>
       \/ /\ act' = [act EXCEPT ![g] = IF call.reset THEN Default[g]
                                       ELSE regs[g]]
          /\ lock' = [lock EXCEPT ![g] = FALSE]
          /\ Goto("wait2", grp)
    /\ UNCHANGED <<image, regs, rst, asked, procVars>>

----------------------------------------------------------------------------
(* aws_clkgen_reset(0), and what the calls that only read do.              *)

\* mmcm_get_expected_lock_mask: the MMCMs with a clock.
LockMask_ButLast == {g \in Groups \ {"hbm"} : tab[g].any}
LockMask == {g \in Groups : tab[g].any}

\* The call is over and says all went well.
Done == /\ Return("ok")
        /\ asked' = IF Setting /\ ~call.reset
                    THEN {[g \in Groups |-> Target(call, g)]} ELSE asked

\* A poll of the lock register.  When the time is up rc is still 0.
PollLock ==
    /\ pc = "rst0"
    /\ \/ Return("io") /\ asked' = asked
       \/ /\ \A g \in LockMask : lock[g]
          /\ Goto("release", 1) /\ asked' = asked
       \/ /\ \E g \in LockMask : ~lock[g]
          /\ IF loops + 1 < Retries
             THEN /\ loops' = loops + 1 /\ asked' = asked
                  /\ UNCHANGED <<pc, call, grp, clk, ret, calls>>
             ELSE Done
    /\ UNCHANGED <<image, regs, act, lock, rst, procVars>>

Release ==
    /\ pc = "release"
    /\ \/ Return("io") /\ UNCHANGED <<asked, rst>>
       \/ Done /\ rst' = FALSE
    /\ UNCHANGED <<image, regs, act, lock, procVars>>

\* mmcm_get_shared_clock, mmcm_get_clk_div: the fields read back.
Readback(c) == [mult |-> c.mult % 256, frac |-> c.frac % 1024,
                div |-> c.div % 256,
                clk |-> [i \in 0..2 |->
                    [div |-> c.clk[i].div % 256,
                     frac |-> IF i = 0 THEN c.clk[i].frac % 1024 ELSE 0]]]

\* aws_clkgen_get_freq of the groups that have a clock, in order.
GetFreq ==
    /\ pc = "get"
    /\ \E k \in 0..4 :
        /\ info' = [g \in Groups |->
                       IF tab[g].any /\ \E i \in 1..k : Order[i] = g
                       THEN Readback(regs[g]) ELSE info[g]]
        /\ Return(IF k < 4 THEN "io" ELSE "ok")
    /\ UNCHANGED <<cardVars, tab>>

----------------------------------------------------------------------------
(* The card, the other tools, the process.                                 *)

Lock(g) ==
    /\ Known /\ image[g] # {} /\ ~lock[g]
    /\ lock' = [lock EXCEPT ![g] = TRUE]
    /\ UNCHANGED <<image, regs, act, rst, asked, procVars, pc, call, grp, clk,
                   loops, ret, calls>>

\* Another image: its clocks start as it was built, its logic in reset.
LoadImage ==
    /\ pc = "idle" /\ call # NoCall
    /\ image' \in Images \cup {NoClkGen}
    /\ regs' = Default /\ act' = Default /\ asked' = {}
    /\ lock' = [g \in Groups |-> FALSE] /\ rst' = TRUE
    /\ call' = NoCall
    /\ UNCHANGED <<procVars, pc, grp, clk, loops, ret, calls>>

\* The process ends, wherever it is; the next one starts with its own table.
Restart ==
    /\ pc # "idle" \/ tab # NoTable
    /\ tab' = NoTable /\ info' = Default
    /\ pc' = "idle" /\ call' = NoCall /\ grp' = 1 /\ clk' = 0 /\ loops' = 0
    /\ ret' = "dead"
    /\ UNCHANGED <<cardVars, calls>>

Step == \/ Attach \/ InitTable \/ CheckId \/ AssertReset \/ StartMmcm
        \/ WriteShared \/ WriteDiv \/ WaitLocked \/ LoadCfg
        \/ PollLock \/ Release \/ GetFreq

Next == Call \/ Step \/ (\E g \in Groups : Lock(g)) \/ LoadImage \/ Restart

Spec == Init /\ [][Next]_vars

\* A call that is under way goes on; locking, the images and restarts are
\* nobody's duty.
FairSpec == Spec /\ WF_vars(Step)

----------------------------------------------------------------------------
(* Properties.                                                             *)

\* What the fields of an MMCM's registers may hold.
Byte == 1..255
Thousandths == 0..999
Dividers == [div : Byte, frac : Thousandths]
Registers == [mult : Byte, frac : Thousandths, div : Byte,
              clk : [0..2 -> Dividers]]

\* Every register field stays within the bits the register has for it, and
\* the loops of aws_clkgen_reset and mmcm_wait_for_locked within their bound.
TypeOK ==
    /\ image \in Images \cup {NoClkGen}
    /\ regs \in [Groups -> Registers] /\ act \in [Groups -> Registers]
    /\ lock \in [Groups -> BOOLEAN] /\ rst \in BOOLEAN
    /\ tab \in [Groups -> [av : SUBSET (0..2), any : BOOLEAN]]
    /\ pc \in {"idle", "attach", "init", "id", "get", "rst1", "mmcm", "shared",
               "div", "wait1", "load", "wait2", "rst0", "release"}
    /\ grp \in 1..4 /\ clk \in 0..2 /\ loops \in 0..(Retries - 1)
    /\ ret \in {"ok", "inval", "io", "busy", "notfound", "dead"}
    /\ calls \in 0..MaxCalls

Enabled == {g \in Groups : Known /\ image[g] # {}}

\* Custom logic out of reset has the clocks of every enabled MMCM locked, whatever
\* failed, timed out or died before: a call resets the logic before it loads
\* an MMCM and releases it only with every lock seen.
RunsOnLocked == ~rst => \A g \in Enabled : lock[g]

\* No clock ever runs above the limit of its group, not even between the
\* writes of one programming or after one of them failed: an MMCM is loaded
\* only with a complete recipe.
ClockMax == [a |-> <<125, 375, 500>>, b |-> <<450, 225>>, c |-> <<300, 400>>,
             hbm |-> <<450>>]
Within(c, i, mhz) ==
    100 * (1000 * c.mult + c.frac)
        <= mhz * c.div * (1000 * c.clk[i].div + c.clk[i].frac)
NeverOverclocked ==
    \A g \in Enabled : \A i \in image[g] :
        Within(act[g], i, ClockMax[g][i + 1])

Agree(c, d, clks) == /\ c.mult = d.mult /\ c.frac = d.frac /\ c.div = d.div
                     /\ \A i \in clks : c.clk[i] = d.clk[i]

\* When a set call has said that all went well, the clocks there are run as
\* it was asked, until another set call or image, also when this process has
\* set clocks of an image with others before; and aws_clkgen_get_dynamic reads
\* back what was asked.
SetMeansSet ==
    \A c \in asked : \A g \in Enabled :
        /\ Agree(act[g], c[g], image[g])
        /\ pc = "idle" /\ ret = "ok" /\ call.fn = "get" =>
               Agree(info[g], c[g], image[g])

\* The frequency of clock 0 is Num / Denom MHz: 125 divides the thousandths of
\* every multiplier in the tables and 250 those of every divider.
Num(c) == 50 * ((1000 * c.mult + c.frac) \div 125)
Denom(c) == c.div * ((1000 * c.clk[0].div + c.clk[0].frac) \div 250)

\* The groups for which every frequency accepted gets a row that keeps the
\* group's limit, is within 1 % above what was asked, and is no slower than the
\* row of a lower frequency.
SoundGroups == {g \in Groups :
    \A f \in FreqTable[1][1]..MaxFreq[g] :
        LET c == FreqConfig(f)
            d == FreqConfig(IF f > FreqTable[1][1] THEN f - 1 ELSE f)
        IN  /\ Within(c, 0, MaxFreq[g])
            /\ 100 * Num(c) <= 101 * f * Denom(c)
            /\ Num(d) * Denom(c) <= Num(c) * Denom(d)}

\* Whatever frequency aws_clkgen_set_freq accepts for an MMCM the image has,
\* the row it picks is sound.
TableSound == Enabled \subseteq SoundGroups

\* How far a call is from its end: its part, the MMCMs left, the place in
\* the programming of one, its dividers left, the polls left.
Part == [release |-> 1, get |-> 1, rst0 |-> 2, wait2 |-> 3, load |-> 3, wait1 |-> 3,
         div |-> 3, shared |-> 3, mmcm |-> 3, rst1 |-> 4, id |-> 5, init |-> 6,
         attach |-> 7, idle |-> 0]
Place == [wait2 |-> 1, load |-> 2, wait1 |-> 3, div |-> 4, shared |-> 5, mmcm |-> 6]
Rank == <<Part[pc], 4 - grp, IF pc \in DOMAIN Place THEN Place[pc] ELSE 0, 2 - clk,
          Retries - loops>>

\* The waits for lock, nested in the loop over the MMCMs, are bounded
\* together: every step of a call but its last brings its end nearer, and
\* an MMCM that locks meanwhile does not put it off.
CallRunsDown ==
    [][pc # "idle" => \/ pc' = "idle"
                      \/ Below(Rank', Rank)
                      \/ Rank' = Rank /\ lock' # lock]_vars

\* A call ends, whether the card locks, fails or stays silent.
CallReturns == pc # "idle" ~> pc = "idle"

===============================================================================
