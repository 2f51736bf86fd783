----------------------------- MODULE ClkGenProofs -----------------------------
(***************************************************************************)
(* ClkGen for any images, requests, bounds and built-in configurations:    *)
(* what the registers hold, that the custom logic leaves reset only with   *)
(* its clocks locked, that no clock is ever run above its group's limit,   *)
(* and that a set call that says so has set the clocks.                    *)
(***************************************************************************)
EXTENDS ClkGen, Integers, TLAPS

\* A configuration that fits the registers, as the tables' rows do.
Fits(c) == c \in Registers /\ \A i \in 1..2 : c.clk[i].frac = 0

\* What is assumed of the configurations the MMCMs are built with.
DefaultFits == \A g \in Groups : Default[g] \in Registers
DefaultSafe == \A im \in Images, g \in Groups :
                   \A i \in im[g] : Within(Default[g], i, ClockMax[g][i + 1])

Programming == {"mmcm", "shared", "div", "wait1", "load", "wait2"}
Releasing == {"rst0", "release"}
Asking == Setting /\ ~call.reset

CallInv ==
    /\ pc # "idle" => call \in Requests /\ ~Refused(call)
    /\ pc \in Programming => Setting
    /\ pc = "rst1" => Setting \/ call.fn = "toggle"
    /\ pc \in Releasing => call.fn # "get"
    /\ pc \in {"shared", "div"} => ~call.reset

\* The process's table is the card's; the logic is in reset while MMCMs are
\* programmed, and every lock was seen before it is released.
CardInv ==
    /\ pc \notin {"idle", "attach", "init"} /\ Known =>
           \A g \in Groups : tab[g].av = image[g] /\ (image[g] # {} => tab[g].any)
    /\ pc \notin {"idle", "attach", "init", "id"} => Known
    /\ pc \in Programming => rst
    /\ pc = "release" => \A g \in LockMask : lock[g]
    /\ RunsOnLocked

\* The frequency asked for has a row; the registers, and the clocks, are as
\* the call asks.
HasRow(g) == call.fn = "dynamic" => call.want[g] >= FreqTable[1][1]
SharedWritten(g) == LET t == Target(call, g) IN
    regs[g].mult = t.mult /\ regs[g].frac = t.frac /\ regs[g].div = t.div
Written(g) == Agree(regs[g], Target(call, g), image[g])
Loaded(g)  == Agree(act[g], Target(call, g), image[g])
Set(g) == HasRow(g) /\ (image[g] # {} => Written(g) /\ Loaded(g))

WriteInv == Asking =>
    /\ pc \in Programming \ {"mmcm"} => HasRow(Order[grp])
    /\ pc = "div" =>
           /\ SharedWritten(Order[grp])
           /\ \A i \in image[Order[grp]] : i < clk =>
                  regs[Order[grp]].clk[i] = Target(call, Order[grp]).clk[i]
    /\ pc \in {"wait1", "load", "wait2"} => Written(Order[grp])
    /\ pc = "wait2" => Loaded(Order[grp])
    /\ pc \in Programming => \A j \in 1..4 : j < grp => Set(Order[j])
    /\ pc \in Releasing => \A g \in Groups : Set(g)

AskedInv ==
    /\ pc \in Programming \cup Releasing /\ Setting => asked = {}
    /\ \A c \in asked : \A g \in Enabled :
           /\ Fits(c[g])
           /\ Agree(regs[g], c[g], image[g]) /\ Agree(act[g], c[g], image[g])
           /\ pc = "idle" /\ ret = "ok" /\ call.fn = "get" =>
                  Agree(info[g], c[g], image[g])

ClkInv == TypeOK /\ CallInv /\ CardInv /\ WriteInv /\ AskedInv

----------------------------------------------------------------------------
(* The tables: each row fits the registers and keeps its group's limits.   *)

Rows == 1..42

\* FREQ_TABLE's columns fit the registers.
LEMMA FreqColumns ==
    ASSUME NEW i \in Rows
    PROVE  /\ FreqTable[i][2] \in Byte /\ FreqTable[i][3] \in Byte
           /\ FreqTable[i][4] \in Thousandths /\ FreqTable[i][5] \in Byte
           /\ FreqTable[i][6] \in Thousandths
  <1>0. ASSUME NEW x \in Nat, x <= 999
        PROVE  x \in Thousandths
    BY <1>0 DEF Thousandths
  <1>1. \A j \in Rows : FreqTable[j][2] \in Byte
    <2>1. \A j \in 1..42 : FreqTable[j][2] \in 1..255
      BY SMTT(30) DEF FreqTable
    <2> QED BY <2>1 DEF Rows, Byte
  <1>2. \A j \in Rows : FreqTable[j][3] \in Byte
    <2>1. \A j \in 1..42 : FreqTable[j][3] \in 1..255
      BY SMTT(30) DEF FreqTable
    <2> QED BY <2>1 DEF Rows, Byte
  <1>3. FreqTable[i][4] \in Thousandths
    <2>1. \A j \in Rows : FreqTable[j][4] \in Nat
      BY SMTT(30) DEF FreqTable, Rows
    <2>2. \A j \in Rows : FreqTable[j][4] <= 999
      BY SMTT(30) DEF FreqTable, Rows
    <2>3. FreqTable[i][4] \in Nat /\ FreqTable[i][4] <= 999
      BY <2>1, <2>2
    <2> QED BY <1>0, <2>3
  <1>4. \A j \in Rows : FreqTable[j][5] \in Byte
    <2>1. \A j \in 1..42 : FreqTable[j][5] \in 1..255
      BY SMTT(30) DEF FreqTable
    <2> QED BY <2>1 DEF Rows, Byte
  <1>5. FreqTable[i][6] \in Thousandths
    <2>1. \A j \in Rows : FreqTable[j][6] \in Nat
      BY SMTT(30) DEF FreqTable, Rows
    <2>2. \A j \in Rows : FreqTable[j][6] <= 999
      BY SMTT(30) DEF FreqTable, Rows
    <2>3. FreqTable[i][6] \in Nat /\ FreqTable[i][6] <= 999
      BY <2>1, <2>2
    <2> QED BY <1>0, <2>3
  <1> QED BY <1>1, <1>2, <1>3, <1>4, <1>5

\* FREQ_TABLE ends, and has a row for every frequency from its first on.
LEMMA FreqRow ==
    ASSUME NEW f \in Nat, f >= FreqTable[1][1]
    PROVE  /\ ChosenRow(f) \in Rows /\ FreqTable[ChosenRow(f)][1] <= f
           /\ \A j \in Rows : j > ChosenRow(f) => FreqTable[j][1] > f
  <1>1. Len(FreqTable) = 42
    BY DEF FreqTable
  <1>2. \E i \in Rows : /\ FreqTable[i][1] <= f
                        /\ \A j \in Rows : j > i => FreqTable[j][1] > f
    BY DEF FreqTable, Rows
  <1>3. ChosenRow(f) = CHOOSE i \in Rows :
            /\ FreqTable[i][1] <= f
            /\ \A j \in Rows : j > i => FreqTable[j][1] > f
    BY <1>1 DEF ChosenRow, Rows
  <1> HIDE DEF Rows
  <1> QED BY <1>2, <1>3

\* A frequency within a group's limit is served by a row within it, for the
\* divider of the first clock and for those of the others, which are 15.
LEMMA FreqLimits ==
    ASSUME NEW i \in Rows
    PROVE  LET m == 100 * (1000 * FreqTable[i][2] + FreqTable[i][4])
               d == 1000 * FreqTable[i][5] + FreqTable[i][6]
           IN  /\ FreqTable[i][1] <= 125 =>
                     m <= 125 * FreqTable[i][3] * d
               /\ FreqTable[i][1] <= 300 =>
                     m <= 300 * FreqTable[i][3] * d
               /\ FreqTable[i][1] <= 450 =>
                     m <= 450 * FreqTable[i][3] * d
               /\ m <= 225 * FreqTable[i][3] * 15000
  BY DEF FreqTable, Rows

\* A row whose numbers fit is a configuration that fits.
LEMMA RowFits ==
    ASSUME NEW m \in Byte, NEW f \in Thousandths, NEW d \in Byte,
           NEW d0 \in Byte, NEW f0 \in Thousandths, NEW d1 \in Byte,
           NEW d2 \in Byte
    PROVE  Fits(Row(<<m, f, d, d0, f0, d1, d2>>))
  <1>1. 0 \in Thousandths
    BY DEF Thousandths
  <1> QED BY <1>1 DEF Fits, Registers, Dividers, Row

\* The recipes' rows as numbers.
RecipeNumbers(r) == /\ r[1] \in Byte /\ r[2] \in Thousandths /\ r[3] \in Byte
                    /\ r[4] \in Byte /\ r[5] \in Thousandths
                    /\ r[6] \in Byte /\ r[7] \in Byte
RecipeLimits(r, g) ==
    /\ 100 * (1000 * r[1] + r[2])
          <= ClockMax[g][1] * r[3] * (1000 * r[4] + r[5])
    /\ NumClocks[g] > 1 =>
          100 * (1000 * r[1] + r[2]) <= ClockMax[g][2] * r[3] * (1000 * r[6])
    /\ NumClocks[g] > 2 =>
          100 * (1000 * r[1] + r[2]) <= ClockMax[g][3] * r[3] * (1000 * r[7])

Seven(r) == r = <<r[1], r[2], r[3], r[4], r[5], r[6], r[7]>>

RecipeSound(r, g) == Seven(r) /\ RecipeNumbers(r) /\ RecipeLimits(r, g)

\* Every row of the recipe tables has numbers that fit the registers and keeps
\* its group's clocks within their limits.
LEMMA RecipeTableSound ==
    ASSUME NEW g \in Groups, NEW k \in 1..Len(RecipeTable[g])
    PROVE  RecipeSound(RecipeTable[g][k], g)
  <1>1. CASE g = "a"
    <2> DEFINE T == RecipeTable["a"]
    <2>1. k \in {1, 2, 3}
      BY <1>1 DEF RecipeTable
    <2>2. /\ Seven(T[1]) /\ Seven(T[2]) /\ Seven(T[3])
      BY DEF RecipeTable, Seven
    <2>3. /\ RecipeNumbers(T[1]) /\ RecipeNumbers(T[2]) /\ RecipeNumbers(T[3])
      BY DEF RecipeTable, RecipeNumbers, Byte, Thousandths
    <2>4. /\ RecipeLimits(T[1], "a") /\ RecipeLimits(T[2], "a")
          /\ RecipeLimits(T[3], "a")
      BY SMTT(30) DEF RecipeTable, RecipeLimits, NumClocks, ClockMax
    <2> HIDE DEF T
    <2>5. RecipeSound(T[k], "a")
      BY <2>1, <2>2, <2>3, <2>4 DEF RecipeSound
    <2> QED BY <1>1, <2>5 DEF T
  <1>2. CASE g = "b"
    <2> DEFINE T == RecipeTable["b"]
    <2>1. k \in {1, 2, 3, 4, 5, 6}
      BY <1>2 DEF RecipeTable
    <2>2. /\ Seven(T[1]) /\ Seven(T[2]) /\ Seven(T[3])
          /\ Seven(T[4]) /\ Seven(T[5]) /\ Seven(T[6])
      BY DEF RecipeTable, Seven
    <2>3. /\ RecipeNumbers(T[1]) /\ RecipeNumbers(T[2]) /\ RecipeNumbers(T[3])
          /\ RecipeNumbers(T[4]) /\ RecipeNumbers(T[5]) /\ RecipeNumbers(T[6])
      BY DEF RecipeTable, RecipeNumbers, Byte, Thousandths
    <2>4. /\ RecipeLimits(T[1], "b") /\ RecipeLimits(T[2], "b")
          /\ RecipeLimits(T[3], "b")
      BY SMTT(30) DEF RecipeTable, RecipeLimits, NumClocks, ClockMax
    <2>5. /\ RecipeLimits(T[4], "b") /\ RecipeLimits(T[5], "b")
          /\ RecipeLimits(T[6], "b")
      BY SMTT(30) DEF RecipeTable, RecipeLimits, NumClocks, ClockMax
    <2> HIDE DEF T
    <2>6. RecipeSound(T[k], "b")
      BY <2>1, <2>2, <2>3, <2>4, <2>5 DEF RecipeSound
    <2> QED BY <1>2, <2>6 DEF T
  <1>3. CASE g = "c"
    <2> DEFINE T == RecipeTable["c"]
    <2>1. k \in {1, 2, 3, 4}
      BY <1>3 DEF RecipeTable
    <2>2. /\ Seven(T[1]) /\ Seven(T[2]) /\ Seven(T[3])
          /\ Seven(T[4])
      BY DEF RecipeTable, Seven
    <2>3. /\ RecipeNumbers(T[1]) /\ RecipeNumbers(T[2]) /\ RecipeNumbers(T[3])
          /\ RecipeNumbers(T[4])
      BY DEF RecipeTable, RecipeNumbers, Byte, Thousandths
    <2>4. /\ RecipeLimits(T[1], "c") /\ RecipeLimits(T[2], "c")
          /\ RecipeLimits(T[3], "c") /\ RecipeLimits(T[4], "c")
      BY SMTT(30) DEF RecipeTable, RecipeLimits, NumClocks, ClockMax
    <2> HIDE DEF T
    <2>5. RecipeSound(T[k], "c")
      BY <2>1, <2>2, <2>3, <2>4 DEF RecipeSound
    <2> QED BY <1>3, <2>5 DEF T
  <1>4. CASE g = "hbm"
    <2> DEFINE T == RecipeTable["hbm"]
    <2>1. k \in {1, 2, 3, 4, 5}
      BY <1>4 DEF RecipeTable
    <2>2. /\ Seven(T[1]) /\ Seven(T[2]) /\ Seven(T[3])
          /\ Seven(T[4]) /\ Seven(T[5])
      BY DEF RecipeTable, Seven
    <2>3. /\ RecipeNumbers(T[1]) /\ RecipeNumbers(T[2]) /\ RecipeNumbers(T[3])
          /\ RecipeNumbers(T[4]) /\ RecipeNumbers(T[5])
      BY DEF RecipeTable, RecipeNumbers, Byte, Thousandths
    <2>4. /\ RecipeLimits(T[1], "hbm") /\ RecipeLimits(T[2], "hbm")
          /\ RecipeLimits(T[3], "hbm") /\ RecipeLimits(T[4], "hbm")
          /\ RecipeLimits(T[5], "hbm")
      BY SMTT(30) DEF RecipeTable, RecipeLimits, NumClocks, ClockMax
    <2> HIDE DEF T
    <2>5. RecipeSound(T[k], "hbm")
      BY <2>1, <2>2, <2>3, <2>4 DEF RecipeSound
    <2> QED BY <1>4, <2>5 DEF T
  <1> QED BY <1>1, <1>2, <1>3, <1>4 DEF Groups

\* The fields of a row, and its clocks' frequencies.
LEMMA RowFields ==
    ASSUME NEW m, NEW f, NEW d, NEW d0, NEW f0, NEW d1, NEW d2,
           NEW c, c = Row(<<m, f, d, d0, f0, d1, d2>>)
    PROVE  /\ c.mult = m /\ c.frac = f /\ c.div = d
           /\ c.clk[0].div = d0 /\ c.clk[0].frac = f0
           /\ c.clk[1].div = d1 /\ c.clk[1].frac = 0
           /\ c.clk[2].div = d2 /\ c.clk[2].frac = 0
  BY DEF Row

WithinLimits(c, g) ==
    \A i \in 0..(NumClocks[g] - 1) : Within(c, i, ClockMax[g][i + 1])

\* So does the configuration that is made of it.
LEMMA RecipeRow ==
    ASSUME NEW g \in Groups, NEW k \in 1..Len(RecipeTable[g])
    PROVE  Fits(Row(RecipeTable[g][k])) /\ WithinLimits(Row(RecipeTable[g][k]), g)
  <1> DEFINE r == RecipeTable[g][k]
  <1>1. /\ r = <<r[1], r[2], r[3], r[4], r[5], r[6], r[7]>>
        /\ RecipeNumbers(r) /\ RecipeLimits(r, g)
    BY RecipeTableSound DEF RecipeSound, Seven
  <1> HIDE DEF r
  <1> DEFINE m == r[1]  f == r[2]  d == r[3]  d0 == r[4]  f0 == r[5]  d1 == r[6]
             d2 == r[7]
  <1>2. /\ m \in Byte /\ f \in Thousandths /\ d \in Byte /\ d0 \in Byte
        /\ f0 \in Thousandths /\ d1 \in Byte /\ d2 \in Byte
    BY <1>1 DEF RecipeNumbers
  <1>3. r = <<m, f, d, d0, f0, d1, d2>>
    BY <1>1
  <1>4. /\ 100 * (1000 * m + f) <= ClockMax[g][1] * d * (1000 * d0 + f0)
        /\ NumClocks[g] > 1 =>
              100 * (1000 * m + f) <= ClockMax[g][2] * d * (1000 * d1)
        /\ NumClocks[g] > 2 =>
              100 * (1000 * m + f) <= ClockMax[g][3] * d * (1000 * d2)
    BY <1>1 DEF RecipeLimits
  <1> HIDE DEF m, f, d, d0, f0, d1, d2
  <1>5. Fits(Row(r))
    BY <1>2, <1>3, RowFits
  <1>6. NumClocks[g] \in 1..3
    BY DEF NumClocks, Groups
  <1> DEFINE c == Row(r)
  <1>7. /\ c.mult = m /\ c.frac = f /\ c.div = d
        /\ c.clk[0].div = d0 /\ c.clk[0].frac = f0
        /\ c.clk[1].div = d1 /\ c.clk[1].frac = 0
        /\ c.clk[2].div = d2 /\ c.clk[2].frac = 0
    BY <1>2, <1>3, RowFields
  <1> HIDE DEF c
  <1>8. ASSUME NEW i \in 0..(NumClocks[g] - 1)
        PROVE  Within(c, i, ClockMax[g][i + 1])
    <2>1. 1000 * d1 + 0 = 1000 * d1 /\ 1000 * d2 + 0 = 1000 * d2
      BY <1>2 DEF Byte
    <2>2. CASE i = 0
      BY <1>4, <1>7, <2>2 DEF Within
    <2>3. CASE i = 1 /\ NumClocks[g] > 1
      BY <1>4, <1>7, <2>1, <2>3 DEF Within
    <2>4. CASE i = 2 /\ NumClocks[g] > 2
      <3>1. 100 * (1000 * m + f) <= ClockMax[g][3] * d * (1000 * d2 + 0)
        BY <1>4, <2>1, <2>4
      <3>2. Within(c, 2, ClockMax[g][3])
        BY <1>7, <3>1 DEF Within
      <3> QED BY <2>4, <3>2
    <2> QED BY <1>6, <2>2, <2>3, <2>4
  <1> QED BY <1>5, <1>8 DEF c, r, WithinLimits

\* The row set_freq picks for a frequency it accepts, as a configuration.
LEMMA FreqConfigSound ==
    ASSUME NEW g \in Groups, NEW f \in Nat,
           f >= FreqTable[1][1], f <= MaxFreq[g]
    PROVE  Fits(FreqConfig(f)) /\ WithinLimits(FreqConfig(f), g)
  <1>1. ChosenRow(f) \in Rows /\ FreqTable[ChosenRow(f)][1] <= f
    BY FreqRow
  <1>2. PICK i \in Rows : i = ChosenRow(f)
    BY <1>1
  <1> DEFINE m == FreqTable[i][2]  d == FreqTable[i][3]  t == FreqTable[i][4]
             d0 == FreqTable[i][5]  f0 == FreqTable[i][6]
  <1>3. /\ m \in Byte /\ d \in Byte /\ t \in Thousandths
        /\ d0 \in Byte /\ f0 \in Thousandths
    BY FreqColumns
  <1>4. FreqConfig(f) = Row(<<m, t, d, d0, f0, 15, 15>>)
    BY <1>2 DEF FreqConfig
  <1>5. Fits(FreqConfig(f))
    <2>1. 15 \in Byte
      BY DEF Byte
    <2>2. Fits(Row(<<m, t, d, d0, f0, 15, 15>>))
      <3> HIDE DEF m, d, t, d0, f0
      <3> QED BY <1>3, <2>1, RowFits
    <2> QED BY <1>4, <2>2
  <1>6. PICK h \in Nat : h = FreqTable[i][1] /\ h <= f
    <2>1. \A j \in 1..42 : FreqTable[j][1] \in Nat
      BY SMTT(30) DEF FreqTable
    <2>2. FreqTable[i][1] \in Nat
      BY <2>1 DEF Rows
    <2> QED BY <1>1, <1>2, <2>2
  <1>7. /\ h <= 125 => 100 * (1000 * m + t) <= 125 * d * (1000 * d0 + f0)
        /\ h <= 300 => 100 * (1000 * m + t) <= 300 * d * (1000 * d0 + f0)
        /\ h <= 450 => 100 * (1000 * m + t) <= 450 * d * (1000 * d0 + f0)
        /\ 100 * (1000 * m + t) <= 225 * d * 15000
    BY <1>6, FreqLimits
  <1> HIDE DEF m, d, t, d0, f0
  <1>8. /\ 100 * (1000 * m + t) \in Nat /\ 225 * d * 15000 \in Nat
        /\ \A x \in {225, 375, 400, 500} :
              /\ x * d * (1000 * 15 + 0) \in Nat
              /\ 225 * d * 15000 <= x * d * (1000 * 15 + 0)
    BY <1>3 DEF Byte, Thousandths
  <1>9. \A x \in {225, 375, 400, 500} :
             100 * (1000 * m + t) <= x * d * (1000 * 15 + 0)
    BY <1>7, <1>8
  <1> DEFINE c == FreqConfig(f)
  <1>10. /\ c.mult = m /\ c.frac = t /\ c.div = d
         /\ c.clk[0].div = d0 /\ c.clk[0].frac = f0
         /\ c.clk[1].div = 15 /\ c.clk[1].frac = 0
         /\ c.clk[2].div = 15 /\ c.clk[2].frac = 0
    BY <1>4, RowFields
  <1> HIDE DEF c
  <1>11. \A x \in {225, 375, 400, 500} :
             Within(c, 1, x) /\ Within(c, 2, x)
    BY <1>9, <1>10 DEF Within
  <1>12. \A x \in {125, 300, 450} : h <= x => Within(c, 0, x)
    BY <1>7, <1>10 DEF Within
  <1>13. ASSUME NEW j \in 0..(NumClocks[g] - 1)
        PROVE  Within(c, j, ClockMax[g][j + 1])
    <2>1. CASE g = "a"
      <3>1. h <= 125 /\ j \in 0..2
        BY <1>6, <2>1 DEF MaxFreq, NumClocks
      <3>2. /\ Within(c, 0, 125)
            /\ Within(c, 1, 375)
            /\ Within(c, 2, 500)
        BY <1>11, <1>12, <3>1
      <3>3. CASE j = 0
        BY <2>1, <3>2, <3>3 DEF ClockMax
      <3>4. CASE j = 1
        BY <2>1, <3>2, <3>4 DEF ClockMax
      <3>5. CASE j = 2
        BY <2>1, <3>2, <3>5 DEF ClockMax
      <3> QED BY <3>1, <3>3, <3>4, <3>5
    <2>2. CASE g = "b"
      BY <1>6, <1>11, <1>12, <2>2 DEF NumClocks, ClockMax, MaxFreq
    <2>3. CASE g = "c"
      BY <1>6, <1>11, <1>12, <2>3 DEF NumClocks, ClockMax, MaxFreq
    <2>4. CASE g = "hbm"
      BY <1>6, <1>11, <1>12, <2>4 DEF NumClocks, ClockMax, MaxFreq
    <2> QED BY <2>1, <2>2, <2>3, <2>4 DEF Groups
  <1> QED BY <1>5, <1>13 DEF c, WithinLimits

\* The numbers of a request.
LEMMA WantType == ASSUME NEW c \in Requests PROVE c.want \in [Groups -> Nat]
  <1>1. \A r \in Recipes \cup Freqs : r \in [Groups -> Nat]
    BY ClkGenAssumption
  <1>2. NoCall.want \in [Groups -> Nat]
    BY DEF NoCall
  <1> QED BY <1>1, <1>2 DEF Requests

\* What a call asks for, when it gets as far as the writes.
LEMMA TargetSound ==
    ASSUME NEW c \in Requests, c.fn \in Sets, ~c.reset, ~Refused(c),
           NEW g \in Groups,
           c.fn = "dynamic" => c.want[g] >= FreqTable[1][1]
    PROVE  Fits(Target(c, g)) /\ WithinLimits(Target(c, g), g)
  <1>1. c.want \in [Groups -> Nat]
    BY WantType
  <1>2. CASE c.fn = "recipe"
    <2>1. Len(RecipeTable[g]) \in Nat /\ c.want[g] \in Nat
      <3>1. Len(RecipeTable[g]) \in Nat
        BY DEF RecipeTable, Groups
      <3> QED BY <1>1, <3>1
    <2>2. c.want[g] + 1 \in 1..Len(RecipeTable[g])
      BY <1>2, <2>1 DEF Refused
    <2> QED BY <1>2, <2>2, RecipeRow DEF Target
  <1>3. CASE c.fn = "dynamic"
    <2>1. MaxFreq[g] \in Nat /\ c.want[g] \in Nat
      BY <1>1 DEF MaxFreq, Groups
    <2>2. c.want[g] <= MaxFreq[g]
      BY <1>3, <2>1 DEF Refused
    <2> QED BY <1>3, <2>1, <2>2, FreqConfigSound DEF Target
  <1> QED BY <1>2, <1>3 DEF Sets

----------------------------------------------------------------------------
(* The invariant.                                                          *)

\* The registers' fields, as the type invariant has them.
LEMMA RegisterFields ==
    ASSUME NEW c \in Registers
    PROVE  /\ c.mult \in Byte /\ c.div \in Byte /\ c.frac \in Thousandths
           /\ c.clk \in [0..2 -> Dividers]
           /\ \A i \in 0..2 : c.clk[i].div \in Byte /\ c.clk[i].frac \in Thousandths
  BY DEF Registers, Dividers

\* A divider replaced.
LEMMA RegisterUpdate ==
    ASSUME NEW c \in Registers, NEW i \in 0..2, NEW e \in Dividers
    PROVE  [c EXCEPT !.clk[i] = e] \in Registers
  <1>1. [c.clk EXCEPT ![i] = e] \in [0..2 -> Dividers]
    BY RegisterFields
  <1> QED BY <1>1 DEF Registers

\* Every MMCM starts as it was built, and no call is under way.
LEMMA ClkInit == ASSUME DefaultFits, Init PROVE ClkInv
  <1>1. TypeOK
    <2>1. Default \in [Groups -> Config] /\ Retries \in Nat \ {0} /\ MaxCalls \in Nat
      BY ClkGenAssumption
    <2>2. regs \in [Groups -> Registers] /\ act \in [Groups -> Registers]
      BY <2>1 DEF Init, DefaultFits
    <2>3. tab \in [Groups -> [av : SUBSET (0..2), any : BOOLEAN]]
      BY DEF Init, NoTable
    <2> QED BY <2>1, <2>2, <2>3 DEF Init, TypeOK
  <1>2. CallInv /\ CardInv /\ WriteInv /\ AskedInv
    BY DEF Init, CallInv, CardInv, WriteInv, AskedInv, Programming, Releasing,
           RunsOnLocked
  <1> QED BY <1>1, <1>2 DEF ClkInv

\* The groups, in order.
LEMMA Ordered == /\ Order \in [1..4 -> Groups]
                 /\ \A g \in Groups : \E j \in 1..4 : Order[j] = g
                 /\ \A j, k \in 1..4 : Order[j] = Order[k] => j = k
  BY DEF Order, Groups

\* Eight, ten and twelve bits are enough for the fields.
LEMMA SmallMod ==
    /\ \A x \in 0..255 : x % 256 = x
    /\ \A x \in 0..999 : x % 1024 = x /\ x % 4096 = x
  OBVIOUS

\* A divider register of a target that fits.
LEMMA FitsClock ==
    ASSUME NEW c, NEW i \in 0..2, NEW e, NEW t,
           Fits(c), e = c.clk[i].div, t = c.clk[i].frac
    PROVE  /\ e \in Byte /\ t \in Thousandths /\ (i # 0 => t = 0)
           /\ c.clk[i] = [div |-> e, frac |-> t]
  <1>1. c \in Registers /\ \A j \in 1..2 : c.clk[j].frac = 0
    BY DEF Fits
  <1>2. c.clk \in [0..2 -> Dividers]
    BY <1>1, RegisterFields
  <1>3. c.clk[i] \in [div : Byte, frac : Thousandths]
    BY <1>2 DEF Dividers
  <1>4. i # 0 => t = 0
    <2>1. i # 0 => i \in 1..2
      OBVIOUS
    <2> QED BY <1>1, <2>1
  <1> QED BY <1>3, <1>4

\* What a register keeps of a target that fits is the target.
LEMMA FitsKept ==
    ASSUME NEW c, Fits(c), NEW i \in 0..2
    PROVE  /\ Shared(c) = [mult |-> c.mult, frac |-> c.frac, div |-> c.div]
           /\ Divider(i, c.clk[i]) = c.clk[i]
  <1> DEFINE m == c.mult  f == c.frac  d == c.div
             e == c.clk[i].div  t == c.clk[i].frac
  <1>1. m \in Byte /\ f \in Thousandths /\ d \in Byte
    BY RegisterFields DEF Fits
  <1>2. /\ e \in Byte /\ t \in Thousandths /\ (i # 0 => t = 0)
        /\ c.clk[i] = [div |-> e, frac |-> t]
    BY FitsClock
  <1> HIDE DEF m, f, d, e, t
  <1>3. /\ m % 256 = m /\ m # 0 /\ f % 4096 = f /\ d % 256 = d /\ d # 0
        /\ e % 256 = e /\ e # 0 /\ t % 4096 = t
    BY <1>1, <1>2, SmallMod DEF Byte, Thousandths
  <1>4. Shared(c) = [mult |-> m, frac |-> f, div |-> d]
    BY <1>3 DEF Shared, NonZero, m, f, d
  <1>5. Divider(i, [div |-> e, frac |-> t]) = [div |-> e, frac |-> t]
    BY <1>2, <1>3 DEF Divider, NonZero
  <1> QED BY <1>2, <1>4, <1>5 DEF m, f, d

\* An image's clocks are numbered 0 to 2, and no more than its group has.
LEMMA ImageClocks ==
    ASSUME Known, ClkInv, NEW g \in Groups
    PROVE  /\ image \in Images /\ image[g] \subseteq 0..2
           /\ image[g] \subseteq 0..(NumClocks[g] - 1)
  BY ClkGenAssumption DEF ClkInv, TypeOK, Known

\* While clocks are written, the call's target is a sound row.
LEMMA CallTarget ==
    ASSUME ClkInv, Asking, pc # "idle", NEW g \in Groups, HasRow(g)
    PROVE  Fits(Target(call, g)) /\ WithinLimits(Target(call, g), g)
  BY TargetSound DEF ClkInv, CallInv, Asking, Setting, HasRow

\* The registers and the clocks' configurations stay within their fields.
LEMMA RegsStep ==
    ASSUME DefaultFits, ClkInv, Next
    PROVE  regs' \in [Groups -> Registers] /\ act' \in [Groups -> Registers]
  <1>1. regs \in [Groups -> Registers] /\ act \in [Groups -> Registers]
    BY DEF ClkInv, TypeOK
  <1>2. Default \in [Groups -> Registers]
    BY ClkGenAssumption DEF DefaultFits
  <1>3. grp \in 1..4 /\ clk \in 0..2 /\ Order[grp] \in Groups
    BY Ordered DEF ClkInv, TypeOK
  <1>4. CASE UNCHANGED <<regs, act>>
    BY <1>1, <1>4
  <1>5. CASE WriteShared
    <2> DEFINE g == Order[grp]  t == Target(call, g)  s == Shared(t)
    <2>1. CASE regs' = regs
      BY <1>1, <1>5, <2>1 DEF WriteShared
    <2>2. CASE regs' # regs
      <3>1. /\ regs' = [regs EXCEPT ![g] = [mult |-> s.mult, frac |-> s.frac,
                                            div |-> s.div, clk |-> @.clk]]
            /\ act' = act /\ pc = "shared"
        BY <1>5, <2>2 DEF WriteShared
      <3>2. Asking /\ HasRow(g)
        BY <3>1 DEF ClkInv, CallInv, WriteInv, Programming, Asking
      <3>3. Fits(t)
        BY <1>3, <3>1, <3>2, CallTarget
      <3>4. s = [mult |-> t.mult, frac |-> t.frac, div |-> t.div]
        BY <3>3, FitsKept
      <3>5. t.mult \in Byte /\ t.div \in Byte /\ t.frac \in Thousandths
        BY <3>3, RegisterFields DEF Fits
      <3> HIDE DEF t
      <3>6. /\ g \in Groups
            /\ [mult |-> s.mult, frac |-> s.frac, div |-> s.div,
                clk |-> regs[g].clk] \in Registers
        <4>1. regs[g].clk \in [0..2 -> Dividers]
          BY <1>1, <1>3, RegisterFields
        <4>2. s.mult \in Byte /\ s.div \in Byte /\ s.frac \in Thousandths
          BY <3>4, <3>5
        <4> HIDE DEF s, g
        <4>3. [mult |-> s.mult, frac |-> s.frac, div |-> s.div,
               clk |-> regs[g].clk] \in Registers
          BY <4>1, <4>2 DEF Registers
        <4> QED BY <1>3, <4>3 DEF g
      <3> QED BY <1>1, <3>1, <3>6
    <2> QED BY <2>1, <2>2
  <1>6. CASE WriteDiv
    <2> DEFINE g == Order[grp]  t == Target(call, g)
    <2>1. CASE regs' = regs
      BY <1>1, <1>6, <2>1 DEF WriteDiv
    <2>2. CASE regs' # regs
      <3>1. /\ regs' = [regs EXCEPT ![g].clk[clk] = Divider(clk, t.clk[clk])]
            /\ act' = act /\ pc = "div"
        BY <1>6, <2>2 DEF WriteDiv
      <3>2. Asking /\ HasRow(g)
        BY <3>1 DEF ClkInv, CallInv, WriteInv, Programming, Asking
      <3>3. Fits(t)
        BY <1>3, <3>1, <3>2, CallTarget
      <3>4. Divider(clk, t.clk[clk]) = t.clk[clk]
        BY <1>3, <3>3, FitsKept
      <3>5. t.clk[clk] \in Dividers
        BY <1>3, <3>3, RegisterFields DEF Fits
      <3> HIDE DEF t
      <3>6. /\ g \in Groups
            /\ [regs[g] EXCEPT !.clk[clk] = t.clk[clk]] \in Registers
        <4>1. g \in Groups /\ regs[g] \in Registers
          BY <1>1, <1>3
        <4> DEFINE c == regs[g]
        <4> HIDE DEF c
        <4>2. [c EXCEPT !.clk[clk] = t.clk[clk]] \in Registers
          BY <1>3, <3>5, <4>1, RegisterUpdate DEF c
        <4> QED BY <4>1, <4>2 DEF c
      <3>7. regs' = [regs EXCEPT ![g] = [regs[g] EXCEPT !.clk[clk] = t.clk[clk]]]
        BY <3>1, <3>4
      <3> QED BY <1>1, <3>1, <3>6, <3>7
    <2> QED BY <2>1, <2>2
  <1>7. CASE LoadCfg
    BY <1>1, <1>2, <1>3, <1>7 DEF LoadCfg
  <1>8. CASE LoadImage
    BY <1>2, <1>8 DEF LoadImage
  <1> QED BY <1>4, <1>5, <1>6, <1>7, <1>8
       DEF Next, Step, Call, Attach, InitTable, CheckId, AssertReset, StartMmcm,
           WaitLocked, PollLock, Release, GetFreq, Lock, Restart, cardVars

\* Every step keeps the types,
LEMMA TypeStep == ASSUME DefaultFits, ClkInv, Next PROVE TypeOK'
  <1>1. TypeOK /\ Retries \in Nat \ {0} /\ MaxCalls \in Nat
    BY ClkGenAssumption DEF ClkInv
  <1>2. regs' \in [Groups -> Registers] /\ act' \in [Groups -> Registers]
    BY RegsStep
  <1>3. CASE Call
    BY <1>1, <1>2, <1>3 DEF Call, cardVars, procVars, TypeOK
  <1>4. CASE Attach
    BY <1>1, <1>2, <1>4 DEF Attach, Return, Goto, cardVars, procVars, TypeOK
  <1>5. CASE InitTable
    <2>1. tab' \in [Groups -> [av : SUBSET (0..2), any : BOOLEAN]]
      <3>1. \A read \in ClocksRead : read \in [Groups -> SUBSET (0..2)]
        <4>1. image \in Images => image \in [Groups -> SUBSET (0..2)]
          BY ClkGenAssumption
        <4>2. [g \in Groups |-> {}] \in [Groups -> SUBSET (0..2)]
          OBVIOUS
        <4>3. [g \in Groups |-> 0..(NumClocks[g] - 1)] \in [Groups -> SUBSET (0..2)]
          BY DEF NumClocks, Groups
        <4> QED BY <1>1, <4>1, <4>2, <4>3 DEF ClocksRead, Known, TypeOK
      <3>2. PICK k \in 0..4, read \in ClocksRead :
                tab' = [g \in Groups |-> IF \E i \in 1..k : Order[i] = g
                                         THEN MmcmInit(g, read[g]) ELSE tab[g]]
        BY <1>5 DEF InitTable
      <3>3. \A g \in Groups : MmcmInit(g, read[g]) \in
                                  [av : SUBSET (0..2), any : BOOLEAN]
        BY <1>1, <3>1 DEF MmcmInit, TypeOK
      <3> QED BY <1>1, <3>2, <3>3 DEF TypeOK
    <2>2. Return("io") \/ Goto("id", 1)
      BY <1>5 DEF InitTable
    <2>3. /\ pc' \in {"idle", "id"} /\ ret' \in {ret, "io"} /\ clk' = clk
          /\ grp' \in {grp, 1} /\ loops' \in {loops, 0} /\ calls' = calls
      BY <2>2 DEF Return, Goto
    <2>4. image' = image /\ lock' = lock /\ rst' = rst
      BY <1>5 DEF InitTable, cardVars
    <2> QED BY <1>1, <1>2, <2>1, <2>3, <2>4 DEF TypeOK
  <1>6. CASE CheckId
    BY <1>1, <1>2, <1>6 DEF CheckId, Return, Goto, cardVars, procVars, TypeOK
  <1>7. CASE AssertReset
    <2>1. /\ pc' \in {"idle", "rst0", "mmcm"} /\ ret' \in {ret, "io"}
          /\ clk' = clk /\ grp' \in {grp, 1} /\ loops' \in {loops, 0}
          /\ calls' = calls
      BY <1>7 DEF AssertReset, Return, Goto
    <2>3. rst' \in BOOLEAN
      BY <1>1, <1>7 DEF AssertReset, TypeOK
    <2>2. image' = image /\ lock' = lock /\ tab' = tab
      BY <1>7 DEF AssertReset, procVars
    <2> QED BY <1>1, <1>2, <2>1, <2>2, <2>3 DEF TypeOK
  <1>8. CASE StartMmcm
    BY <1>1, <1>2, <1>8
       DEF StartMmcm, NextMmcm, Return, Goto, cardVars, procVars, TypeOK
  <1>9. CASE WriteShared
    BY <1>1, <1>2, <1>9 DEF WriteShared, Return, procVars, TypeOK
  <1>10. CASE WriteDiv
    BY <1>1, <1>2, <1>10 DEF WriteDiv, NextClk, Return, Goto, procVars, TypeOK
  <1>11. CASE WaitLocked
    BY <1>1, <1>2, <1>11
       DEF WaitLocked, NextMmcm, Return, Goto, cardVars, procVars, TypeOK
  <1>12. CASE LoadCfg
    <2>1. /\ pc' \in {"idle", "wait2"} /\ ret' \in {ret, "io"}
          /\ clk' = clk /\ grp' = grp /\ loops' \in {loops, 0}
          /\ calls' = calls /\ lock' \in [Groups -> BOOLEAN]
      BY <1>1, <1>12 DEF LoadCfg, Return, Goto, TypeOK
    <2>2. image' = image /\ rst' = rst /\ tab' = tab
      BY <1>12 DEF LoadCfg, procVars
    <2> QED BY <1>1, <1>2, <2>1, <2>2 DEF TypeOK
  <1>13. CASE PollLock
    BY <1>1, <1>2, <1>13 DEF PollLock, Done, Return, Goto, procVars, TypeOK
  <1>14. CASE Release
    BY <1>1, <1>2, <1>14 DEF Release, Done, Return, procVars, TypeOK
  <1>15. CASE GetFreq
    BY <1>1, <1>2, <1>15 DEF GetFreq, Return, cardVars, TypeOK
  <1>16. CASE \E g \in Groups : Lock(g)
    BY <1>1, <1>2, <1>16 DEF Lock, procVars, TypeOK
  <1>17. CASE LoadImage
    BY <1>1, <1>2, <1>17 DEF LoadImage, procVars, TypeOK
  <1>18. CASE Restart
    <2>1. NoTable \in [Groups -> [av : SUBSET (0..2), any : BOOLEAN]]
      BY DEF NoTable
    <2> QED BY <1>1, <1>2, <1>18, <2>1 DEF Restart, cardVars, TypeOK
  <1> QED BY <1>3, <1>4, <1>5, <1>6, <1>7, <1>8, <1>9, <1>10, <1>11, <1>12,
             <1>13, <1>14, <1>15, <1>16, <1>17, <1>18 DEF Next, Step

\* what is known of the call under way,
LEMMA CallStep == ASSUME ClkInv, Next PROVE CallInv'
  <1>1. TypeOK /\ CallInv
    BY DEF ClkInv
  <1>2. CASE Call
    BY <1>1, <1>2 DEF Call, CallInv, Programming, Releasing, Setting
  <1>3. CASE Attach \/ InitTable
    BY <1>1, <1>3 DEF Attach, InitTable, Return, Goto, CallInv, Programming,
                      Releasing, Setting
  <1>4. CASE CheckId
    <2>1. call.fn \in Sets \cup {"get", "deassert", "toggle"}
      BY <1>1, <1>4 DEF CheckId, CallInv, Requests, Sets
    <2> QED BY <1>1, <1>4, <2>1 DEF CheckId, Return, Goto, CallInv, Programming,
                                Releasing, Setting
  <1>5. CASE AssertReset \/ StartMmcm
    BY <1>1, <1>5 DEF AssertReset, StartMmcm, NextMmcm, Return, Goto, CallInv,
                      Programming, Releasing, Setting, Sets
  <1>6. CASE WriteShared \/ WriteDiv
    BY <1>1, <1>6 DEF WriteShared, WriteDiv, NextClk, Return, Goto, CallInv,
                      Programming, Releasing, Setting, Sets
  <1>7. CASE WaitLocked \/ LoadCfg
    BY <1>1, <1>7 DEF WaitLocked, NextMmcm, LoadCfg, Return, Goto, CallInv,
                      Programming, Releasing, Setting, Sets
  <1>8. CASE PollLock \/ Release \/ GetFreq
    BY <1>1, <1>8 DEF PollLock, Release, GetFreq, Done, Return, Goto, CallInv,
                      Programming, Releasing, Setting, Sets
  <1>9. CASE \E g \in Groups : Lock(g)
    BY <1>1, <1>9 DEF Lock, CallInv, Setting, Refused
  <1>10. CASE LoadImage \/ Restart
    BY <1>1, <1>10 DEF LoadImage, Restart, CallInv, Programming, Releasing
  <1> QED BY <1>2, <1>3, <1>4, <1>5, <1>6, <1>7, <1>8, <1>9, <1>10 DEF Next, Step

\* of the process's table, the reset and the locks,
LEMMA CardStep == ASSUME ClkInv, Next PROVE CardInv'
  <1>1. TypeOK /\ CallInv /\ CardInv /\ RunsOnLocked
    BY DEF ClkInv, CardInv
  <1>2. CASE Call
    BY <1>1, <1>2 DEF Call, cardVars, procVars, CardInv, Programming, Known,
                      LockMask, RunsOnLocked, Enabled
  <1>3. CASE Attach
    BY <1>1, <1>3 DEF Attach, Return, Goto, cardVars, procVars, CardInv,
                      Programming, Known, LockMask, RunsOnLocked, Enabled
  <1>4. CASE InitTable
    <2>1. PICK k \in 0..4, read \in ClocksRead :
              /\ tab' = [g \in Groups |-> IF \E i \in 1..k : Order[i] = g
                                          THEN MmcmInit(g, read[g]) ELSE tab[g]]
              /\ IF k < 4 THEN Return("io") ELSE Goto("id", 1)
      BY <1>4 DEF InitTable
    <2>2. pc' \in {"idle", "id"} /\ (pc' = "id" => k = 4)
      BY <2>1 DEF Return, Goto
    <2>3. image' = image /\ lock' = lock /\ rst' = rst
      BY <1>4 DEF InitTable, cardVars
    <2>4. ASSUME pc' = "id", Known, NEW g \in Groups
          PROVE  tab'[g].av = image[g] /\ (image[g] # {} => tab'[g].any)
      <3>1. read = image
        BY <2>4 DEF ClocksRead
      <3>2. tab'[g] = MmcmInit(g, image[g])
        BY <2>1, <2>2, <2>4, <3>1, Ordered
      <3>3. tab'[g].av = image[g]
        BY <3>2 DEF MmcmInit
      <3>5. ASSUME image[g] # {} PROVE tab'[g].any
        <4>1. (tab[g].any \/ image[g] # {}) = TRUE
          BY <3>5
        <4>2. MmcmInit(g, image[g]) = [av |-> image[g], any |-> TRUE]
          BY <4>1 DEF MmcmInit
        <4> QED BY <3>2, <4>2
      <3> QED BY <3>3, <3>5
    <2> QED BY <1>1, <2>2, <2>3, <2>4
         DEF CardInv, Programming, Known, RunsOnLocked, Enabled
  <1>5. CASE CheckId
    BY <1>1, <1>5 DEF CheckId, Return, Goto, cardVars, procVars, CardInv,
                      Programming, Known, LockMask, RunsOnLocked, Enabled
  <1>6. CASE AssertReset
    BY <1>1, <1>6 DEF AssertReset, Return, Goto, procVars, CardInv,
                      Programming, Known, LockMask, RunsOnLocked, Enabled
  <1>7. CASE StartMmcm
    BY <1>1, <1>7 DEF StartMmcm, NextMmcm, Return, Goto, cardVars, procVars,
                      CardInv, Programming, Known, LockMask, RunsOnLocked, Enabled
  <1>8. CASE WriteShared \/ WriteDiv
    BY <1>1, <1>8 DEF WriteShared, WriteDiv, NextClk, Return, Goto, procVars,
                      CardInv, Programming, Known, LockMask, RunsOnLocked, Enabled
  <1>9. CASE WaitLocked
    BY <1>1, <1>9 DEF WaitLocked, NextMmcm, Return, Goto, cardVars, procVars,
                      CardInv, Programming, Known, LockMask, RunsOnLocked, Enabled
  <1>10. CASE LoadCfg
    BY <1>1, <1>10 DEF LoadCfg, Return, Goto, procVars, CardInv, Programming,
                       Known, LockMask, RunsOnLocked, Enabled
  <1>11. CASE PollLock
    BY <1>1, <1>11 DEF PollLock, Done, Return, Goto, procVars, CardInv,
                       Programming, Known, LockMask, RunsOnLocked, Enabled
  <1>12. CASE Release
    BY <1>1, <1>12 DEF Release, Done, Return, procVars, CardInv, Programming,
                       Known, LockMask, RunsOnLocked, Enabled
  <1>13. CASE GetFreq
    BY <1>1, <1>13 DEF GetFreq, Return, cardVars, CardInv, Programming, Known,
                       LockMask, RunsOnLocked, Enabled
  <1>14. CASE \E g \in Groups : Lock(g)
    <2>1. PICK h \in Groups : Lock(h)
      BY <1>14
    <2>2. /\ lock' = [lock EXCEPT ![h] = TRUE] /\ lock \in [Groups -> BOOLEAN]
          /\ UNCHANGED <<image, rst, tab, pc>>
      BY <1>1, <2>1 DEF Lock, procVars, TypeOK
    <2>3. \A g \in Groups : lock[g] => lock'[g]
      BY <2>2
    <2> QED BY <1>1, <2>2, <2>3
         DEF CardInv, Programming, Known, LockMask, RunsOnLocked, Enabled
  <1>15. CASE LoadImage \/ Restart
    BY <1>1, <1>15 DEF LoadImage, Restart, cardVars, CardInv, Programming,
                       Known, LockMask, RunsOnLocked, Enabled
  <1> QED BY <1>2, <1>3, <1>4, <1>5, <1>6, <1>7, <1>8, <1>9, <1>10, <1>11,
             <1>12, <1>13, <1>14, <1>15 DEF Next, Step

\* An MMCM done, the thread goes on to the next or to the release.
LEMMA NextMmcmSets ==
    ASSUME ClkInv, pc \in Programming, Asking => Set(Order[grp]), NextMmcm,
           UNCHANGED <<image, regs, act>>
    PROVE  WriteInv'
  <1> SUFFICES ASSUME Asking' PROVE WriteInv'
    BY DEF WriteInv
  <1>1. call' = call /\ Asking
    BY DEF NextMmcm, Goto, Asking, Setting
  <1>2. grp \in 1..4 /\ \A j \in 1..4 : j < grp => Set(Order[j])
    BY <1>1 DEF ClkInv, TypeOK, WriteInv
  <1>3. \A g : Set(g) => Set(g)'
    BY <1>1 DEF Set, HasRow, Written, Loaded
  <1>4. CASE grp < 4
    <2>1. pc' = "mmcm" /\ grp' = grp + 1
      BY <1>4 DEF NextMmcm, Goto
    <2>2. \A j \in 1..4 : j < grp + 1 => Set(Order[j])
      BY <1>1, <1>2
    <2> QED BY <1>3, <2>1, <2>2 DEF WriteInv, Programming, Releasing
  <1>5. CASE ~(grp < 4)
    <2>1. pc' = "rst0"
      BY <1>5 DEF NextMmcm, Goto
    <2>2. \A j \in 1..4 : Set(Order[j])
      BY <1>1, <1>2, <1>5
    <2>3. \A g \in Groups : Set(g)
      BY <2>2, Ordered
    <2> QED BY <1>3, <2>1, <2>3 DEF WriteInv, Programming, Releasing
  <1> QED BY <1>4, <1>5

\* of the registers written so far,
LEMMA WriteStep == ASSUME ClkInv, Next PROVE WriteInv'
  <1> DEFINE G == Order[grp]  T == Target(call, G)
  <1>1. /\ grp \in 1..4 /\ clk \in 0..2 /\ G \in Groups
        /\ regs \in [Groups -> Registers] /\ act \in [Groups -> Registers]
        /\ \A j \in 1..4 : j < grp => Order[j] \in Groups /\ Order[j] # G
    BY Ordered DEF ClkInv, TypeOK
  <1>2. CASE Call
    BY <1>2 DEF Call, WriteInv, Programming, Releasing
  <1>3. CASE Attach \/ InitTable \/ Release \/ GetFreq \/ LoadImage \/ Restart
    BY <1>3 DEF Attach, InitTable, Release, GetFreq, Done, Return, Goto,
                LoadImage, Restart, WriteInv, Programming, Releasing
  <1>4. CASE CheckId
    <2>1. pc' \in {"idle", "get", "rst1", "rst0"} /\ call' = call
          /\ (pc' = "rst0" => call.fn = "deassert")
      BY <1>4 DEF CheckId, Return, Goto
    <2> QED BY <2>1 DEF WriteInv, Asking, Setting, Sets, Programming, Releasing
  <1>5. CASE AssertReset
    <2>1. /\ call' = call /\ pc' \in {"idle", "rst0", "mmcm"}
          /\ pc' = "rst0" => call.fn = "toggle"
          /\ pc' = "mmcm" => grp' = 1
      BY <1>5 DEF AssertReset, Return, Goto
    <2> QED BY <2>1 DEF WriteInv, Asking, Setting, Sets, Programming, Releasing
  <1>6. CASE StartMmcm
    <2>1. Asking /\ pc' # "idle" => HasRow(G)
      <3>1. SUFFICES ASSUME Asking, pc' # "idle", call.fn = "dynamic"
                     PROVE  call.want[G] >= FreqTable[1][1]
        BY DEF HasRow
      <3>2. ~(call.want[G] < FreqTable[1][1])
        BY <1>6, <3>1 DEF StartMmcm, Return, Asking
      <3>3. call.want[G] \in Nat
        <4>1. call \in Requests
          BY <1>6 DEF StartMmcm, ClkInv, CallInv
        <4> QED BY <1>1, <4>1, WantType
      <3>4. FreqTable[1][1] \in Nat
        BY DEF FreqTable
      <3> QED BY <3>2, <3>3, <3>4
    <2>2. UNCHANGED <<image, regs, act>> /\ pc = "mmcm"
      BY <1>6 DEF StartMmcm, cardVars
    <2>3. CASE pc' = "idle"
      BY <2>3 DEF WriteInv, Programming, Releasing
    <2>4. CASE pc' # "idle" /\ ~tab[G].any
      <3>1. NextMmcm
        BY <1>6, <2>4 DEF StartMmcm, Return
      <3>2. image[G] = {}
        BY <1>1, <2>2, <2>4 DEF ClkInv, CardInv
      <3> QED BY <2>1, <2>2, <2>4, <3>1, <3>2, NextMmcmSets DEF Set, Programming
    <2>5. CASE pc' # "idle" /\ tab[G].any
      <3>1. /\ call' = call /\ grp' = grp
            /\ pc' = IF call.reset THEN "wait1" ELSE "shared"
        BY <1>6, <2>5 DEF StartMmcm, Goto, Return
      <3>2. \A g : Set(g) => Set(g)'
        BY <2>2, <3>1 DEF Set, HasRow, Written, Loaded
      <3> QED BY <2>1, <2>2, <2>5, <3>1, <3>2
           DEF ClkInv, WriteInv, Asking, Setting, HasRow, Programming, Releasing
    <2> QED BY <2>3, <2>4, <2>5
  <1>7. CASE WaitLocked
    <2>1. UNCHANGED <<image, regs, act>> /\ pc \in {"wait1", "wait2"}
      BY <1>7 DEF WaitLocked, cardVars
    <2>2. CASE pc' = "idle"
      BY <2>2 DEF WriteInv, Programming, Releasing
    <2>3. CASE pc = "wait2" /\ NextMmcm
      <3>1. Asking => Set(G)
        BY <2>3 DEF ClkInv, WriteInv, Set, Programming
      <3> QED BY <2>1, <2>3, <3>1, NextMmcmSets DEF Programming
    <2>4. CASE call' = call /\ grp' = grp /\ pc' \in {pc, "load"}
      <3>1. \A g : Set(g) => Set(g)'
        BY <2>1, <2>4 DEF Set, HasRow, Written, Loaded
      <3> QED BY <2>1, <2>4, <3>1
           DEF ClkInv, WriteInv, Asking, Setting, HasRow, Written, Loaded,
               Programming, Releasing
    <2> QED BY <1>7, <2>1, <2>2, <2>3, <2>4 DEF WaitLocked, Return, Goto
  <1>8. CASE PollLock \/ \E g \in Groups : Lock(g)
    <2>1. /\ UNCHANGED <<image, regs, act, call>>
          /\ \/ UNCHANGED <<pc, grp, clk>>
             \/ pc = "rst0" /\ pc' \in {"rst0", "release", "idle"}
      BY <1>8 DEF PollLock, Lock, Goto, Done, Return
    <2>2. \A g : Set(g) => Set(g)'
      BY <2>1 DEF Set, HasRow, Written, Loaded
    <2> QED BY <2>1, <2>2
         DEF ClkInv, WriteInv, Asking, Setting, HasRow, Written, Loaded,
             SharedWritten, Programming, Releasing
  <1>9. CASE LoadCfg
    <2>1. CASE pc' = "idle"
      BY <2>1 DEF WriteInv, Programming, Releasing
    <2>2. CASE pc' # "idle"
      <3>1. /\ pc = "load" /\ pc' = "wait2" /\ grp' = grp
            /\ UNCHANGED <<image, regs, call>>
            /\ act' = [act EXCEPT ![G] = IF call.reset THEN Default[G] ELSE regs[G]]
        BY <1>9, <2>2 DEF LoadCfg, Return, Goto
      <3> SUFFICES ASSUME Asking PROVE WriteInv'
        BY <3>1 DEF WriteInv, Asking, Setting
      <3>2. HasRow(G) /\ Written(G) /\ \A j \in 1..4 : j < grp => Set(Order[j])
        BY <3>1 DEF ClkInv, WriteInv, Programming
      <3>3. act'[G] = regs[G] /\ \A j \in 1..4 : j < grp => act'[Order[j]] = act[Order[j]]
        BY <1>1, <3>1 DEF Asking
      <3>4. HasRow(G)' /\ Written(G)' /\ Loaded(G)'
        BY <3>1, <3>2, <3>3 DEF HasRow, Written, Loaded
      <3>5. \A j \in 1..4 : j < grp => Set(Order[j])'
        BY <3>1, <3>2, <3>3 DEF Set, HasRow, Written, Loaded
      <3> QED BY <3>1, <3>4, <3>5 DEF WriteInv, Programming, Releasing
    <2> QED BY <2>1, <2>2
  <1>10. CASE WriteShared
    <2>1. CASE pc' = "idle"
      BY <2>1 DEF WriteInv, Programming, Releasing
    <2>2. CASE pc' # "idle"
      <3>1. /\ pc = "shared" /\ pc' = "div" /\ grp' = grp /\ clk' = 0
            /\ UNCHANGED <<image, act, call>>
            /\ regs' = [regs EXCEPT ![G] =
                           [mult |-> Shared(T).mult, frac |-> Shared(T).frac,
                            div |-> Shared(T).div, clk |-> @.clk]]
        BY <1>10, <2>2 DEF WriteShared, Return
      <3> SUFFICES ASSUME Asking PROVE WriteInv'
        BY <3>1 DEF WriteInv, Asking, Setting
      <3>2. HasRow(G) /\ \A j \in 1..4 : j < grp => Set(Order[j])
        BY <3>1 DEF ClkInv, WriteInv, Programming
      <3>3. Fits(T)
        BY <1>1, <3>1, <3>2, CallTarget
      <3>4. Shared(T) = [mult |-> T.mult, frac |-> T.frac, div |-> T.div]
        BY <3>3, FitsKept
      <3>5. SharedWritten(G)' /\ HasRow(G)'
        BY <1>1, <3>1, <3>2, <3>4 DEF SharedWritten, HasRow
      <3>6. \A j \in 1..4 : j < grp => regs'[Order[j]] = regs[Order[j]]
        BY <1>1, <3>1
      <3>7. \A j \in 1..4 : j < grp => Set(Order[j])'
        BY <3>1, <3>2, <3>6 DEF Set, HasRow, Written, Loaded
      <3>8. \A i \in image[G] : ~(i < 0)
        BY <1>1, ImageClocks, <3>1 DEF ClkInv, CardInv, TypeOK
      <3> QED BY <3>1, <3>5, <3>7, <3>8 DEF WriteInv, Programming, Releasing
    <2> QED BY <2>1, <2>2
  <1>11. CASE WriteDiv
    <2>1. CASE pc' = "idle"
      BY <2>1 DEF WriteInv, Programming, Releasing
    <2>2. CASE pc' # "idle"
      <3>1. /\ pc = "div" /\ grp' = grp /\ UNCHANGED <<image, act, call>>
            /\ \/ clk < 2 /\ clk' = clk + 1 /\ pc' = "div"
               \/ ~(clk < 2) /\ pc' = "wait1"
        BY <1>11, <2>2 DEF WriteDiv, NextClk, Return, Goto
      <3> SUFFICES ASSUME Asking PROVE WriteInv'
        BY <3>1 DEF WriteInv, Asking, Setting
      <3>2. /\ HasRow(G) /\ SharedWritten(G)
            /\ \A j \in 1..4 : j < grp => Set(Order[j])
            /\ \A i \in image[G] : i < clk => regs[G].clk[i] = T.clk[i]
        BY <3>1 DEF ClkInv, WriteInv, Programming
      <3>3. Fits(T)
        BY <1>1, <3>1, <3>2, CallTarget
      <3>4. Divider(clk, T.clk[clk]) = T.clk[clk]
        BY <1>1, <3>3, FitsKept
      <3>5. tab[G].av = image[G] /\ image[G] \subseteq 0..2
        BY <1>1, <3>1, ImageClocks DEF ClkInv, CardInv
      <3>6. regs' = IF clk \in image[G]
                    THEN [regs EXCEPT ![G].clk[clk] = T.clk[clk]] ELSE regs
        BY <1>11, <2>2, <3>4, <3>5 DEF WriteDiv, Return
      <3>7. /\ regs'[G].mult = regs[G].mult /\ regs'[G].frac = regs[G].frac
            /\ regs'[G].div = regs[G].div
            /\ \A i \in image[G] :
                  regs'[G].clk[i] = IF i = clk THEN T.clk[i] ELSE regs[G].clk[i]
            /\ \A j \in 1..4 : j < grp => regs'[Order[j]] = regs[Order[j]]
        BY <1>1, <3>5, <3>6 DEF Registers
      <3>8. \A j \in 1..4 : j < grp => Set(Order[j])'
        BY <3>1, <3>2, <3>7 DEF Set, HasRow, Written, Loaded
      <3>9. HasRow(G)' /\ SharedWritten(G)'
        BY <3>1, <3>2, <3>7 DEF SharedWritten, HasRow
      <3>10. \A i \in image[G] : i < clk + 1 => regs'[G].clk[i] = T.clk[i]
        BY <1>1, <3>2, <3>5, <3>7
      <3>11. CASE pc' = "div"
        BY <3>1, <3>8, <3>9, <3>10, <3>11 DEF WriteInv, Programming, Releasing
      <3>12. CASE pc' = "wait1"
        <4>1. \A i \in image[G] : regs'[G].clk[i] = T.clk[i]
          BY <1>1, <3>1, <3>5, <3>10, <3>12
        <4>2. Written(G)'
          BY <3>1, <3>9, <4>1 DEF Written, SharedWritten, Agree
        <4> QED BY <3>1, <3>8, <3>9, <3>12, <4>2 DEF WriteInv, Programming, Releasing
      <3> QED BY <3>1, <3>11, <3>12
    <2> QED BY <2>1, <2>2
  <1> QED BY <1>2, <1>3, <1>4, <1>5, <1>6, <1>7, <1>8, <1>9, <1>10, <1>11
       DEF Next, Step

\* What the registers keep is what is read back.
LEMMA ReadbackKept ==
    ASSUME NEW c, Fits(c), NEW r, NEW clks \in SUBSET (0..2), Agree(r, c, clks)
    PROVE  Agree(Readback(r), c, clks)
  <1>1. c.mult % 256 = c.mult /\ c.frac % 1024 = c.frac /\ c.div % 256 = c.div
    <2> DEFINE m == c.mult  f == c.frac  d == c.div
    <2>1. m \in Byte /\ f \in Thousandths /\ d \in Byte
      BY RegisterFields DEF Fits
    <2> HIDE DEF m, f, d
    <2>2. m % 256 = m /\ f % 1024 = f /\ d % 256 = d
      BY <2>1, SmallMod DEF Byte, Thousandths
    <2> QED BY <2>2 DEF m, f, d
  <1>2. ASSUME NEW i \in clks
        PROVE  [div |-> c.clk[i].div % 256,
                frac |-> IF i = 0 THEN c.clk[i].frac % 1024 ELSE 0] = c.clk[i]
    <2> DEFINE e == c.clk[i].div  t == c.clk[i].frac
    <2>1. /\ e \in Byte /\ t \in Thousandths /\ (i # 0 => t = 0)
          /\ c.clk[i] = [div |-> e, frac |-> t]
      <3>1. i \in 0..2
        OBVIOUS
      <3> QED BY <3>1, FitsClock
    <2> HIDE DEF e, t
    <2>2. e % 256 = e /\ t % 1024 = t
      BY <2>1, SmallMod DEF Byte, Thousandths
    <2> QED BY <2>1, <2>2 DEF e, t
  <1> QED BY <1>1, <1>2 DEF Agree, Readback

\* and of what was asked for.
LEMMA AskedStep == ASSUME ClkInv, Next PROVE AskedInv'
  <1>1. /\ AskedInv /\ (pc \in Programming => Setting)
        /\ pc \in Releasing => call.fn # "get"
    BY DEF ClkInv, CallInv
  <1> DEFINE Idle == pc = "idle" /\ ret = "ok" /\ call.fn = "get"
             Busy == pc \in Programming \cup Releasing /\ Setting
  <1>2. ASSUME UNCHANGED <<image, regs, act, asked>>, Idle' => Idle /\ info' = info,
               Busy' => Busy
        PROVE  AskedInv'
    BY <1>1, <1>2 DEF AskedInv, Enabled, Known
  <1>3. CASE asked' = {}
    BY <1>3 DEF AskedInv
  <1>4. CASE Call
    BY <1>2, <1>4 DEF Call, cardVars, procVars, Programming, Releasing
  <1>5. CASE Attach \/ InitTable
    BY <1>2, <1>5 DEF Attach, InitTable, Return, Goto, cardVars, Programming,
                      Releasing
  <1>6. CASE CheckId
    BY <1>2, <1>6 DEF CheckId, Return, Goto, cardVars, Programming, Releasing,
                      Setting, Sets
  <1>7. CASE AssertReset
    <2>1. CASE Setting
      BY <1>3, <1>7, <2>1 DEF AssertReset
    <2>2. CASE ~Setting
      <3>1. UNCHANGED <<image, regs, act, asked, call>>
            /\ (pc' = "idle" => ret' = "io")
        BY <1>7, <2>2 DEF AssertReset, Return, Goto
      <3> QED BY <1>2, <2>2, <3>1 DEF Setting
    <2> QED BY <2>1, <2>2
  <1>8. CASE StartMmcm \/ WaitLocked
    <2>1. /\ UNCHANGED <<image, regs, act, asked, call>>
          /\ pc \in Programming /\ (pc' = "idle" => ret' # "ok")
      BY <1>8 DEF StartMmcm, WaitLocked, NextMmcm, Return, Goto, cardVars,
                  Programming
    <2> QED BY <1>1, <1>2, <2>1
  <1>9. CASE WriteShared \/ WriteDiv \/ LoadCfg
    <2>1. pc \in Programming /\ asked' = asked
      BY <1>9 DEF WriteShared, WriteDiv, LoadCfg, Programming
    <2> QED BY <1>1, <1>3, <2>1 DEF AskedInv
  <1>10. CASE PollLock \/ Release
    <2>1. pc \in Releasing /\ UNCHANGED <<image, regs, act, call>>
      BY <1>10 DEF PollLock, Release, Done, Return, Goto, Releasing
    <2>2. ~Idle'
      BY <1>1, <2>1
    <2>3. CASE asked' = asked
      BY <1>2, <2>1, <2>2, <2>3 DEF Setting
    <2>4. CASE asked' # asked
      <3>1. /\ Asking /\ pc' = "idle"
            /\ asked' = {[g \in Groups |-> Target(call, g)]}
        BY <1>10, <2>4 DEF PollLock, Release, Done, Return, Asking
      <3>2. \A g \in Groups : Set(g)
        BY <2>1, <3>1 DEF ClkInv, WriteInv
      <3>3. ASSUME NEW g \in Enabled
            PROVE  /\ Fits(Target(call, g))
                   /\ Agree(regs[g], Target(call, g), image[g])
                   /\ Agree(act[g], Target(call, g), image[g])
        <4>1. g \in Groups /\ image[g] # {}
          BY DEF Enabled
        <4>2. pc # "idle"
          BY <2>1 DEF Releasing
        <4> QED BY <3>1, <3>2, <4>1, <4>2, CallTarget DEF Set, Written, Loaded
      <3>4. Enabled' = Enabled
        BY <2>1 DEF Enabled, Known
      <3>5. \A g \in Enabled : g \in Groups
        BY DEF Enabled
      <3> QED BY <2>1, <2>2, <3>1, <3>3, <3>4, <3>5
           DEF AskedInv, Programming, Releasing
    <2> QED BY <2>3, <2>4
  <1>11. CASE GetFreq
    <2>1. PICK k \in 0..4 :
              /\ info' = [g \in Groups |->
                             IF tab[g].any /\ \E i \in 1..k : Order[i] = g
                             THEN Readback(regs[g]) ELSE info[g]]
              /\ Return(IF k < 4 THEN "io" ELSE "ok")
      BY <1>11 DEF GetFreq
    <2>2. UNCHANGED <<image, regs, act, asked, call>> /\ pc = "get" /\ pc' = "idle"
      BY <1>11, <2>1 DEF GetFreq, Return, cardVars
    <2>3. CASE k < 4
      BY <1>2, <2>1, <2>2, <2>3 DEF Return, Programming, Releasing
    <2>4. CASE ~(k < 4)
      <3>1. ASSUME NEW c \in asked, NEW g \in Enabled
            PROVE  Agree(info'[g], c[g], image[g])
        <4>1. g \in Groups /\ Known /\ image[g] # {} /\ image[g] \in SUBSET (0..2)
          BY ImageClocks DEF Enabled
        <4>2. tab[g].any
          BY <2>2, <4>1 DEF ClkInv, CardInv
        <4>3. info'[g] = Readback(regs[g])
          BY <2>1, <2>4, <4>1, <4>2, Ordered
        <4>4. Fits(c[g]) /\ Agree(regs[g], c[g], image[g])
          BY <1>1 DEF AskedInv
        <4> QED BY <4>1, <4>3, <4>4, ReadbackKept
      <3>2. Enabled' = Enabled
        BY <2>2 DEF Enabled, Known
      <3> QED BY <1>1, <2>2, <3>1, <3>2 DEF AskedInv, Programming, Releasing
    <2> QED BY <2>3, <2>4
  <1>12. CASE \E g \in Groups : Lock(g)
    BY <1>2, <1>12 DEF Lock, procVars, Setting
  <1>13. CASE LoadImage
    BY <1>3, <1>13 DEF LoadImage
  <1>14. CASE Restart
    BY <1>2, <1>14 DEF Restart, cardVars, NoCall, Programming, Releasing
  <1> QED BY <1>4, <1>5, <1>6, <1>7, <1>8, <1>9, <1>10, <1>11, <1>12, <1>13,
             <1>14 DEF Next, Step

\* Hence the invariant always holds.
LEMMA ClkInvariant == ASSUME DefaultFits PROVE Spec => []ClkInv
  <1>1. Init => ClkInv
    BY ClkInit
  <1>2. ClkInv /\ [Next]_vars => ClkInv'
    <2> SUFFICES ASSUME ClkInv, [Next]_vars PROVE ClkInv'
      OBVIOUS
    <2>1. CASE Next
      BY <2>1, TypeStep, CallStep, CardStep, WriteStep, AskedStep DEF ClkInv
    <2>2. CASE UNCHANGED vars
      BY <2>2 DEF vars, cardVars, procVars, ClkInv, TypeOK, CallInv, CardInv,
                  WriteInv, AskedInv, RunsOnLocked, Enabled, Known, LockMask,
                  Setting, Asking, Refused, HasRow, SharedWritten, Written,
                  Loaded, Set
    <2> QED BY <2>1, <2>2
  <1> QED BY <1>1, <1>2, PTL DEF Spec

----------------------------------------------------------------------------
(* The theorems.                                                           *)

\* Whatever is asked for and however the card answers, each register's fields
\* hold what they can hold, and the waits keep to their bound.
THEOREM ClkTypes == ASSUME DefaultFits PROVE Spec => []TypeOK
  <1>1. ClkInv => TypeOK
    BY DEF ClkInv
  <1> QED BY <1>1, ClkInvariant, PTL

\* aws_clkgen_reset(0) is never reached with an MMCM of the image unlocked,
\* and nothing unlocks one while the logic runs.
THEOREM LogicRunsOnLocked == ASSUME DefaultFits PROVE Spec => []RunsOnLocked
  <1>1. ClkInv => RunsOnLocked
    BY DEF ClkInv, CardInv
  <1> QED BY <1>1, ClkInvariant, PTL

\* A set call that returns 0 has set the clocks, and get reads them back.
THEOREM SetCallsSet == ASSUME DefaultFits PROVE Spec => []SetMeansSet
  <1>1. ClkInv => SetMeansSet
    BY DEF ClkInv, AskedInv, SetMeansSet
  <1> QED BY <1>1, ClkInvariant, PTL

\* What agrees with a configuration on a clock runs it as fast.
LEMMA AgreeWithin ==
    ASSUME NEW a, NEW c, NEW clks, Agree(a, c, clks), NEW i \in clks, NEW mhz,
           Within(c, i, mhz)
    PROVE  Within(a, i, mhz)
  BY DEF Agree, Within

\* A step that changes a clock keeps it within its limit: what is loaded is a
\* row of a table, or what the MMCM was built with.
LEMMA LimitStep ==
    ASSUME DefaultSafe, ClkInv, NeverOverclocked, [Next]_vars
    PROVE  NeverOverclocked'
  <1> DEFINE G == Order[grp]
  <1>1. CASE UNCHANGED <<image, act>>
    BY <1>1 DEF NeverOverclocked, Enabled, Known
  <1>2. CASE LoadImage
    <2>1. act' = Default /\ (Known' => image' \in Images)
      BY <1>2 DEF LoadImage, Known
    <2> QED BY <2>1 DEF DefaultSafe, NeverOverclocked, Enabled
  <1>3. CASE LoadCfg /\ act' # act
    <2>1. /\ act' = [act EXCEPT ![G] = IF call.reset THEN Default[G] ELSE regs[G]]
          /\ pc = "load" /\ image' = image
      BY <1>3 DEF LoadCfg
    <2>2. act \in [Groups -> Registers] /\ G \in Groups
      BY Ordered DEF ClkInv, TypeOK
    <2>3. ASSUME NEW g \in Enabled, NEW i \in image[g]
          PROVE  Within(act'[g], i, ClockMax[g][i + 1])
      <3>1. g \in Groups /\ Known /\ image \in Images /\ i \in 0..(NumClocks[g] - 1)
            /\ image[g] # {}
        BY ImageClocks DEF Enabled
      <3>2. CASE g # G
        BY <2>1, <2>2, <3>1, <3>2 DEF NeverOverclocked
      <3>3. CASE g = G /\ call.reset
        BY <2>1, <2>2, <3>1, <3>3 DEF DefaultSafe
      <3>4. CASE g = G /\ ~call.reset
        <4>1. Asking /\ HasRow(G) /\ Written(G)
          BY <2>1, <3>4 DEF ClkInv, CallInv, WriteInv, Asking, Programming
        <4>2. WithinLimits(Target(call, G), G)
          BY <2>1, <2>2, <4>1, CallTarget
        <4>3. Within(Target(call, G), i, ClockMax[G][i + 1])
          BY <3>1, <3>4, <4>2 DEF WithinLimits
        <4>4. Within(regs[G], i, ClockMax[G][i + 1])
          BY <3>4, <4>1, <4>3, AgreeWithin DEF Written
        <4> QED BY <2>1, <2>2, <3>4, <4>4
      <3> QED BY <3>2, <3>3, <3>4
    <2>4. Enabled' = Enabled
      BY <2>1 DEF Enabled, Known
    <2> QED BY <2>1, <2>3, <2>4 DEF NeverOverclocked
  <1> QED BY <1>1, <1>2, <1>3
       DEF Next, Step, Call, Attach, InitTable, CheckId, AssertReset, StartMmcm,
           WriteShared, WriteDiv, WaitLocked, LoadCfg, PollLock, Release, GetFreq,
           Lock, Restart, cardVars, vars

\* No clock is run above the limit of its group, if the image was built within
\* them: an MMCM is loaded only with all of a row of the tables.
THEOREM ClocksKeepLimits ==
    ASSUME DefaultFits, DefaultSafe PROVE Spec => []NeverOverclocked
  <1>1. Init => NeverOverclocked
    BY DEF Init, DefaultSafe, NeverOverclocked, Enabled, Known
  <1>2. ClkInv /\ NeverOverclocked /\ [Next]_vars => NeverOverclocked'
    BY LimitStep
  <1> QED BY <1>1, <1>2, ClkInvariant, PTL DEF Spec

----------------------------------------------------------------------------
(* The rows of FREQ_TABLE, as frequencies.                                 *)

RowNum(i) == 50 * ((1000 * FreqTable[i][2] + FreqTable[i][4]) \div 125)
RowDenom(i) ==
    FreqTable[i][3] * ((1000 * FreqTable[i][5] + FreqTable[i][6]) \div 250)

\* A row of the frequency table makes at most 1 % more than its frequency.
LEMMA RowNumbers ==
    ASSUME NEW i \in Rows
    PROVE  /\ RowNum(i) \in Nat /\ RowDenom(i) \in Nat /\ FreqTable[i][1] \in Nat
           /\ 100 * RowNum(i) <= 101 * FreqTable[i][1] * RowDenom(i)
  <1>1. RowNum(i) \in Nat /\ RowDenom(i) \in Nat
    BY DEF FreqTable, Rows, RowNum, RowDenom
  <1>2. FreqTable[i][1] \in Nat
    BY DEF FreqTable, Rows
  <1>3. 100 * RowNum(i) <= 101 * FreqTable[i][1] * RowDenom(i)
    BY DEF FreqTable, Rows, RowNum, RowDenom
  <1> QED BY <1>1, <1>2, <1>3

\* A row's frequency, as a number and as it is named, is above the last row's.
LEMMA RowsRise ==
    ASSUME NEW i \in 1..41
    PROVE  /\ RowNum(i) * RowDenom(i + 1) <= RowNum(i + 1) * RowDenom(i)
           /\ FreqTable[i][1] < FreqTable[i + 1][1]
  <1>1. RowNum(i) * RowDenom(i + 1) <= RowNum(i + 1) * RowDenom(i)
    BY DEF FreqTable, RowNum, RowDenom
  <1>2. FreqTable[i][1] < FreqTable[i + 1][1]
    BY DEF FreqTable
  <1> QED BY <1>1, <1>2

\* The configuration for a frequency is that of its row.
LEMMA FreqConfigRow ==
    ASSUME NEW f
    PROVE  /\ Num(FreqConfig(f)) = RowNum(ChosenRow(f))
           /\ Denom(FreqConfig(f)) = RowDenom(ChosenRow(f))
  <1> DEFINE r == FreqTable[ChosenRow(f)]  c == FreqConfig(f)
  <1>1. c = Row(<<r[2], r[4], r[3], r[5], r[6], 15, 15>>)
    BY DEF FreqConfig
  <1> HIDE DEF c
  <1>2. /\ c.mult = r[2] /\ c.frac = r[4] /\ c.div = r[3]
        /\ c.clk[0].div = r[5] /\ c.clk[0].frac = r[6]
    BY <1>1, RowFields
  <1> QED BY <1>2 DEF c, Num, Denom, RowNum, RowDenom

\* A lower frequency gets the same row or the one before.
LEMMA LowerRow ==
    ASSUME NEW f \in Nat, f > FreqTable[1][1]
    PROVE  \/ ChosenRow(f - 1) = ChosenRow(f)
           \/ ChosenRow(f - 1) \in 1..41 /\ ChosenRow(f) = ChosenRow(f - 1) + 1
  <1>1. FreqTable[1][1] \in Nat
    BY RowNumbers DEF Rows
  <1>2. PICK r \in Rows : /\ r = ChosenRow(f) /\ FreqTable[r][1] <= f
                          /\ \A j \in Rows : j > r => FreqTable[j][1] > f
    BY <1>1, FreqRow
  <1>3. PICK s \in Rows : /\ s = ChosenRow(f - 1) /\ FreqTable[s][1] <= f - 1
                          /\ \A j \in Rows : j > s => FreqTable[j][1] > f - 1
    <2>1. f - 1 \in Nat /\ f - 1 >= FreqTable[1][1]
      BY <1>1
    <2> QED BY <2>1, FreqRow
  <1>4. \A j \in Rows : FreqTable[j][1] \in Nat
    BY RowNumbers
  <1>5. ~(s > r)
    BY <1>2, <1>3, <1>4
  <1>6. ~(s < r - 1)
    <2>1. SUFFICES ASSUME s < r - 1 PROVE FALSE
      OBVIOUS
    <2>2. PICK j \in 1..41 : j = r - 1 /\ j > s /\ j \in Rows
      BY <2>1 DEF Rows
    <2>3. FreqTable[j][1] > f - 1
      BY <1>3, <2>2
    <2>4. FreqTable[j][1] < FreqTable[j + 1][1] /\ j + 1 = r
      BY <2>2, RowsRise DEF Rows
    <2> QED BY <1>2, <1>4, <2>2, <2>3, <2>4
  <1> QED BY <1>2, <1>3, <1>5, <1>6 DEF Rows

\* For every group and every frequency aws_clkgen_set_freq accepts, the row it
\* picks keeps the group's limit, is at most 1 % above what was asked, and is no
\* slower than the row of a lower frequency.
THEOREM AllGroupsSound == SoundGroups = Groups
  <1> SUFFICES ASSUME NEW g \in Groups, NEW f \in FreqTable[1][1]..MaxFreq[g]
               PROVE  LET c == FreqConfig(f)
                          d == FreqConfig(IF f > FreqTable[1][1] THEN f - 1 ELSE f)
                      IN  /\ Within(c, 0, MaxFreq[g])
                          /\ 100 * Num(c) <= 101 * f * Denom(c)
                          /\ Num(d) * Denom(c) <= Num(c) * Denom(d)
    BY DEF SoundGroups
  <1>1. /\ FreqTable[1][1] \in Nat /\ f \in Nat /\ f >= FreqTable[1][1]
        /\ f <= MaxFreq[g]
    <2>1. FreqTable[1][1] \in Nat
      BY RowNumbers DEF Rows
    <2>2. MaxFreq[g] \in Nat
      BY DEF MaxFreq, Groups
    <2> QED BY <2>1, <2>2
  <1> DEFINE c == FreqConfig(f)  r == ChosenRow(f)
  <1>2. Within(c, 0, MaxFreq[g])
    <2>1. Within(c, 0, ClockMax[g][1])
      BY <1>1, FreqConfigSound DEF WithinLimits, NumClocks, Groups
    <2>2. ClockMax[g][1] = MaxFreq[g]
      BY DEF ClockMax, MaxFreq, Groups
    <2> QED BY <2>1, <2>2
  <1>3. r \in Rows /\ FreqTable[r][1] <= f
    BY <1>1, FreqRow
  <1>4. Num(c) = RowNum(r) /\ Denom(c) = RowDenom(r)
    BY FreqConfigRow
  <1>5. /\ RowNum(r) \in Nat /\ RowDenom(r) \in Nat /\ FreqTable[r][1] \in Nat
        /\ 100 * RowNum(r) <= 101 * FreqTable[r][1] * RowDenom(r)
    BY <1>3, RowNumbers
  <1> HIDE DEF c, r
  <1>6. 100 * Num(c) <= 101 * f * Denom(c)
    <2>1. PICK a \in Nat, b \in Nat, h \in Nat :
              a = RowNum(r) /\ b = RowDenom(r) /\ h = FreqTable[r][1]
      BY <1>5
    <2>2. 101 * h * b <= 101 * f * b
      <3>1. h <= f
        BY <1>3, <2>1
      <3> QED BY <1>1, <3>1
    <2>3. 100 * a <= 101 * h * b
      BY <1>5, <2>1
    <2>4. 101 * h * b \in Nat /\ 101 * f * b \in Nat
      BY <1>1
    <2>5. 100 * a <= 101 * f * b
      BY <2>2, <2>3, <2>4
    <2> QED BY <1>4, <2>1, <2>5
  <1>7. CASE f > FreqTable[1][1]
    <2> DEFINE d == FreqConfig(f - 1)  s == ChosenRow(f - 1)
    <2>1. Num(d) = RowNum(s) /\ Denom(d) = RowDenom(s)
      BY FreqConfigRow
    <2>2. s = r \/ (s \in 1..41 /\ r = s + 1)
      BY <1>1, <1>7, LowerRow DEF r
    <2> HIDE DEF d, s
    <2>3. RowNum(s) * RowDenom(r) <= RowNum(r) * RowDenom(s)
      BY <1>5, <2>2, RowsRise
    <2>4. Num(d) * Denom(c) <= Num(c) * Denom(d)
      BY <1>4, <2>1, <2>3
    <2> QED BY <1>2, <1>6, <1>7, <2>4 DEF c, d
  <1>8. CASE ~(f > FreqTable[1][1])
    BY <1>2, <1>4, <1>5, <1>6, <1>8 DEF c
  <1> QED BY <1>7, <1>8

\* So the row picked for an MMCM of the image is sound.
THEOREM TablesAreSound == Spec => []TableSound
  <1>1. TableSound
    BY AllGroupsSound DEF TableSound, Enabled
  <1> QED BY <1>1, PTL

----------------------------------------------------------------------------
(* Every call runs down.  Only the counters' types are needed.             *)

\* The counters of the loops.
CountInv == /\ pc \in DOMAIN Part /\ grp \in Nat /\ clk \in Nat /\ loops \in Nat
            /\ Retries \in Nat /\ lock \in [Groups -> BOOLEAN]

LEMMA CountInit == Init => CountInv
  BY ClkGenAssumption DEF Init, CountInv, Part

LEMMA CountStep == CountInv /\ [Next]_vars => CountInv'
  <1> SUFFICES ASSUME CountInv, [Next]_vars PROVE CountInv'
    OBVIOUS
  <1> USE DEF CountInv, Part, Return, Goto, cardVars
  <1>1. CASE Call BY <1>1 DEF Call
  <1>2. CASE Attach BY <1>2 DEF Attach
  <1>3. CASE InitTable BY <1>3 DEF InitTable
  <1>4. CASE CheckId BY <1>4 DEF CheckId
  <1>5. CASE AssertReset BY <1>5 DEF AssertReset
  <1>6. CASE StartMmcm BY <1>6 DEF StartMmcm, NextMmcm
  <1>7. CASE WriteShared BY <1>7 DEF WriteShared
  <1>8. CASE WriteDiv BY <1>8 DEF WriteDiv, NextClk
  <1>9. CASE WaitLocked BY <1>9 DEF WaitLocked, NextMmcm
  <1>10. CASE LoadCfg
    <2>1. lock' \in [Groups -> BOOLEAN]
      BY <1>10 DEF LoadCfg
    <2>2. /\ pc' \in DOMAIN Part /\ loops' \in Nat
          /\ UNCHANGED clk /\ grp' = grp
      BY <1>10 DEF LoadCfg
    <2> QED BY <2>1, <2>2
  <1>11. CASE PollLock BY <1>11 DEF PollLock, Done
  <1>12. CASE Release BY <1>12 DEF Release, Done
  <1>13. CASE GetFreq BY <1>13 DEF GetFreq
  <1>14. CASE \E g \in Groups : Lock(g) BY <1>14 DEF Lock
  <1>15. CASE LoadImage BY <1>15 DEF LoadImage
  <1>16. CASE Restart BY <1>16 DEF Restart
  <1>17. CASE UNCHANGED vars BY <1>17 DEF vars
  <1> QED BY <1>1, <1>2, <1>3, <1>4, <1>5, <1>6, <1>7, <1>8, <1>9, <1>10, <1>11,
             <1>12, <1>13, <1>14, <1>15, <1>16, <1>17 DEF Next, Step

\* The lexicographic order of five places.
LEMMA BelowFive ==
  ASSUME NEW a1 \in Nat, NEW a2 \in Int, NEW a3 \in Nat, NEW a4 \in Int, NEW a5 \in Int,
         NEW b1 \in Nat, NEW b2 \in Int, NEW b3 \in Nat, NEW b4 \in Int, NEW b5 \in Int,
         \/ a1 < b1
         \/ a1 = b1 /\ 0 <= a2 /\ a2 < b2
         \/ a1 = b1 /\ a2 = b2 /\ a3 < b3
         \/ a1 = b1 /\ a2 = b2 /\ a3 = b3 /\ 0 <= a4 /\ a4 < b4
         \/ a1 = b1 /\ a2 = b2 /\ a3 = b3 /\ a4 = b4 /\ 0 <= a5 /\ a5 < b5
  PROVE  Below(<<a1, a2, a3, a4, a5>>, <<b1, b2, b3, b4, b5>>)
  <1> DEFINE r == <<a1, a2, a3, a4, a5>>
             s == <<b1, b2, b3, b4, b5>>
             At(i) == r[i] \in 0..(s[i] - 1) /\ \A j \in 1..(i - 1) : r[j] = s[j]
  <1>1. DOMAIN s = 1..5
    OBVIOUS
  <1>2. At(1) \/ At(2) \/ At(3) \/ At(4) \/ At(5)
    OBVIOUS
  <1> QED BY <1>1, <1>2 DEF Below

\* What is left of a limit when a counter goes up.
LEMMA CountsUp ==
  ASSUME NEW m \in Nat, NEW h \in Nat, NEW g \in Nat
  PROVE  /\ g < h /\ h <= m => 0 <= m - h /\ m - h < m - g
         /\ h = g => m - h = m - g
  OBVIOUS

\* Rank at work: the places by name.
PlaceOf(p) == IF p \in DOMAIN Place THEN Place[p] ELSE 0

LEMMA PlaceNumbers == \A p \in DOMAIN Part : Part[p] \in Nat /\ PlaceOf(p) \in Nat
  BY DEF Part, PlaceOf, Place

LEMMA RankBelow ==
  ASSUME CountInv, CountInv',
         \/ Part[pc'] < Part[pc]
         \/ Part[pc'] = Part[pc] /\ grp < grp' /\ grp' <= 4
         \/ Part[pc'] = Part[pc] /\ grp' = grp /\ PlaceOf(pc') < PlaceOf(pc)
         \/ pc' = pc /\ grp' = grp /\ clk < clk' /\ clk' <= 2
         \/ pc' = pc /\ grp' = grp /\ clk' = clk /\ loops < loops' /\ loops' <= Retries
  PROVE  Below(Rank', Rank)
  <1>1. /\ Part[pc] \in Nat /\ PlaceOf(pc) \in Nat
        /\ Part[pc'] \in Nat /\ PlaceOf(pc') \in Nat
    BY PlaceNumbers DEF CountInv
  <1>2. /\ grp \in Nat /\ clk \in Nat /\ loops \in Nat
        /\ grp' \in Nat /\ clk' \in Nat /\ loops' \in Nat /\ Retries \in Nat
    BY DEF CountInv
  <1>3. \/ Part[pc'] < Part[pc]
        \/ Part[pc'] = Part[pc] /\ grp < grp' /\ grp' <= 4
        \/ Part[pc'] = Part[pc] /\ grp' = grp /\ PlaceOf(pc') < PlaceOf(pc)
        \/ /\ Part[pc'] = Part[pc] /\ grp' = grp /\ PlaceOf(pc') = PlaceOf(pc)
           /\ clk < clk' /\ clk' <= 2
        \/ /\ Part[pc'] = Part[pc] /\ grp' = grp /\ PlaceOf(pc') = PlaceOf(pc)
           /\ clk' = clk /\ loops < loops' /\ loops' <= Retries
    OBVIOUS
  <1> DEFINE p1 == Part[pc']  a2 == 4 - grp'  l1 == PlaceOf(pc')  a4 == 2 - clk'
             p0 == Part[pc]   b2 == 4 - grp   l0 == PlaceOf(pc)   b4 == 2 - clk
             a5 == Retries - loops'  b5 == Retries - loops
  <1>4. /\ p1 \in Nat /\ l1 \in Nat /\ p0 \in Nat /\ l0 \in Nat
        /\ a2 \in Int /\ b2 \in Int /\ a4 \in Int /\ b4 \in Int /\ a5 \in Int /\ b5 \in Int
    BY <1>1, <1>2
  <1>5. \/ p1 < p0
        \/ p1 = p0 /\ 0 <= a2 /\ a2 < b2
        \/ p1 = p0 /\ a2 = b2 /\ l1 < l0
        \/ p1 = p0 /\ a2 = b2 /\ l1 = l0 /\ 0 <= a4 /\ a4 < b4
        \/ p1 = p0 /\ a2 = b2 /\ l1 = l0 /\ a4 = b4 /\ 0 <= a5 /\ a5 < b5
    <2> HIDE DEF p1, l1, p0, l0
    <2>1. \/ p1 < p0
          \/ p1 = p0 /\ grp < grp' /\ grp' <= 4
          \/ p1 = p0 /\ grp' = grp /\ l1 < l0
          \/ p1 = p0 /\ grp' = grp /\ l1 = l0 /\ clk < clk' /\ clk' <= 2
          \/ /\ p1 = p0 /\ grp' = grp /\ l1 = l0 /\ clk' = clk
             /\ loops < loops' /\ loops' <= Retries
      BY <1>3 DEF p1, l1, p0, l0
    <2>2. /\ grp < grp' /\ grp' <= 4 => 0 <= a2 /\ a2 < b2
          /\ grp' = grp => a2 = b2
          /\ clk < clk' /\ clk' <= 2 => 0 <= a4 /\ a4 < b4
          /\ clk' = clk => a4 = b4
          /\ loops < loops' /\ loops' <= Retries => 0 <= a5 /\ a5 < b5
      BY <1>2, CountsUp
    <2> HIDE DEF a2, a4, a5, b2, b4, b5
    <2> QED BY <2>1, <2>2
  <1> HIDE DEF p1, a2, l1, a4, a5, p0, b2, l0, b4, b5
  <1>6. Below(<<p1, a2, l1, a4, a5>>, <<p0, b2, l0, b4, b5>>)
    BY <1>4, <1>5, BelowFive
  <1> QED BY <1>6 DEF Rank, PlaceOf, p1, a2, l1, a4, a5, p0, b2, l0, b4, b5

LEMMA RunsDownStep ==
  ASSUME CountInv, CountInv', Next, pc # "idle"
  PROVE  pc' = "idle" \/ Below(Rank', Rank) \/ (Rank' = Rank /\ lock' # lock)
  <1> SUFFICES ASSUME pc' # "idle" PROVE Below(Rank', Rank) \/ (Rank' = Rank /\ lock' # lock)
    OBVIOUS
  <1> USE DEF CountInv, Part, Return, Goto
  <1>1. CASE Attach BY <1>1, RankBelow DEF Attach
  <1>2. CASE InitTable BY <1>2, RankBelow DEF InitTable
  <1>3. CASE CheckId BY <1>3, RankBelow DEF CheckId
  <1>4. CASE AssertReset BY <1>4, RankBelow DEF AssertReset
  <1>5. CASE StartMmcm BY <1>5, RankBelow DEF StartMmcm, NextMmcm, PlaceOf, Place
  <1>6. CASE WriteShared BY <1>6, RankBelow DEF WriteShared, PlaceOf, Place
  <1>7. CASE WriteDiv BY <1>7, RankBelow DEF WriteDiv, NextClk, PlaceOf, Place
  <1>8. CASE WaitLocked BY <1>8, RankBelow DEF WaitLocked, NextMmcm, PlaceOf, Place
  <1>9. CASE LoadCfg BY <1>9, RankBelow DEF LoadCfg, PlaceOf, Place
  <1>10. CASE PollLock BY <1>10, RankBelow DEF PollLock, Done
  <1>11. CASE Release BY <1>11 DEF Release, Done
  <1>12. CASE GetFreq BY <1>12 DEF GetFreq
  <1>13. CASE \E g \in Groups : Lock(g)
    BY <1>13 DEF Lock, Rank
  <1>14. CASE Call \/ LoadImage \/ Restart
    BY <1>14 DEF Call, LoadImage, Restart
  <1> QED BY <1>1, <1>2, <1>3, <1>4, <1>5, <1>6, <1>7, <1>8, <1>9, <1>10, <1>11,
             <1>12, <1>13, <1>14 DEF Next, Step

\* Every step of a call but its last lowers its rank, for any number of polls
\* a wait makes and whatever the images have: a call of the clock library makes
\* a bounded number of steps.
THEOREM CallsRunDown == Spec => CallRunsDown
  <1>1. Init => CountInv
    BY CountInit
  <1>2. CountInv /\ [Next]_vars => CountInv'
    BY CountStep
  <1>3. CountInv /\ CountInv' /\ [Next]_vars =>
            [pc # "idle" => \/ pc' = "idle"
                            \/ Below(Rank', Rank)
                            \/ Rank' = Rank /\ lock' # lock]_vars
    BY RunsDownStep
  <1> QED BY <1>1, <1>2, <1>3, PTL DEF Spec, CallRunsDown

=============================================================================
