---------------------------- MODULE FpgaToolProofs ----------------------------
(***************************************************************************)
(* FpgaTool for any number of processes, cards, images and retries, and    *)
(* for command lines of any length: no slot is touched that the command    *)
(* line did not name, the device of one's own slot is never missed, and a  *)
(* load that succeeds shows what is in sysfs: the image it was asked for,  *)
(* if the library saw the load end.                                        *)
(*                                                                         *)
(* The processes share the devices in sysfs and every rescan.  What makes  *)
(* the invariant hold for one of them whatever the others do is that they  *)
(* never remove its device, and that a rescan brings back only what is     *)
(* missing, with the ids of the image that is in the card now.  Of a card  *)
(* whose driver is slow to let go none of this is claimed.                 *)
(***************************************************************************)
EXTENDS FpgaTool, WellFoundedInduction, TLAPS

\* What a parser can have read for a process with these slots: a form that is
\* still good has no slot yet, or one the command line named.
Forms(slots) ==
    [slot : slots \cup {SlotMax, Unset}, afi : Images \cup {NoImage}, async : BOOLEAN,
     prefetch : BOOLEAN, rescan : BOOLEAN, arg : BOOLEAN,
     named : SUBSET (slots \cup {SlotMax}), ok : BOOLEAN]
Sound(slots) == {f \in Forms(slots) : f.ok => f.slot = Unset \/ f.slot \in slots \cap f.named}

\* What a device can show.
Shown == {Ids[i] : i \in Images \cup {Cleared}} \cup {Absent}

Walks == [pc : {"idle", "exists", "again", "ids", "res", "remove", "rescan", "done", "failed",
                "ioerror"},
          goal : {"none", "spec", "all", "rescan", "check"},
          slot : Nat, tries : Nat, ids : Shown]
Tools == [pc : {"off", "attach", "slots", "serve", "before", "load", "poll", "rescan",
                "spec", "show"},
          cmd : Commands \cup {"none"}, opt : Forms(0..(SlotMax - 1)),
          before : Shown, seen : BOOLEAN, shown : Shown,
          ret : {"none", "missing", "fail", "ok"}]

TypeInv ==
    /\ image \in [Cards -> [cur : Images \cup {Cleared},
                            next : Images \cup {Cleared, NoImage}]]
    /\ node \in [Cards -> Shown]
    /\ walk \in [Proc -> Walks] /\ tool \in [Proc -> Tools]

Syncs(t) == t.cmd \in {"load", "clear"} /\ ~t.opt.async
Target(t) == IF t.cmd = "load" THEN t.opt.afi ELSE Cleared
Settled(i) == [cur |-> i, next |-> NoImage]

\* Where a tool t of process q is goes with the call w of the PCI library that
\* it is in, and with its command line.
PhaseOk(q, t, w) ==
    /\ t.cmd \notin {"none", "slots"} => t.opt.slot \in SlotsOf[q]
    /\ t.cmd = "load" => t.opt.afi \in Images
    /\ t.pc \notin {"off", "slots"} =>
           t.cmd \notin {"none", "slots"} /\ t.opt.slot \in t.opt.named
    /\ t.pc = "slots" => t.cmd = "slots" /\ w.goal = "all"
    /\ t.pc \in {"before", "load", "poll"} => t.cmd \in {"load", "clear"}
    /\ t.pc \in {"before", "poll", "spec"} => Syncs(t)
    /\ t.pc \in {"attach", "before", "load", "poll"} => ~t.seen
    /\ t.pc \in {"off", "load", "poll", "serve"} => w = NoWalk
    /\ t.pc \in {"attach", "before", "spec", "show"} => w.goal = "spec"
    /\ t.pc = "rescan" => w.goal \in {"rescan", "check"}
    /\ t.pc \in {"attach", "before", "spec", "show", "rescan"} => w.slot = t.opt.slot
    /\ w.pc \in {"remove", "rescan"} => w.goal = "rescan"
    /\ w.goal = "rescan" => w.pc # "done"

\* A look-up of a slot of one's own, with the devices nd: once found the device
\* stays, until this very process removes it, and so do the ids read from it.
WalkOk(w, nd) ==
    w.goal \in {"spec", "rescan", "check"} =>
        /\ w.pc \in {"ids", "res", "remove", "rescan", "done"} => w.slot \in Cards
        /\ w.slot \notin SlowCards =>
              /\ w.pc \in {"ids", "res", "remove", "done"} => nd[w.slot] # Absent
              /\ w.pc \in {"res", "done"} /\ w.goal # "check" => w.ids = nd[w.slot]
              /\ w.pc = "exists" /\ w.slot \in Cards /\ nd[w.slot] = Absent => w.tries = 0
              /\ w.pc = "failed" /\ MaxRetries > 0 => w.slot \notin Cards
              /\ w.goal = "check" => w.pc \in {"exists", "done"} /\ w.slot \in Cards
                                     /\ nd[w.slot] # Absent

\* A synchronous load or clear, with the devices nd and the images im: the ids
\* before are those of the device until the load is over; if it was seen to end,
\* the image stays from then on, and what is removed comes back with its ids.
LoadOk(t, w, nd, im) ==
    LET s == t.opt.slot  i == Target(t)
    IN  /\ t.pc = "off" /\ t.ret = "missing" /\ MaxRetries > 0 => s \notin Cards \ SlowCards
        /\ Syncs(t) /\ s \notin SlowCards =>
              /\ t.pc \in {"load", "poll"} =>
                    s \in Cards /\ nd[s] = t.before /\ t.before # Absent
              /\ t.pc \in {"rescan", "spec"} => s \in Cards /\ im[s] = Settled(i)
              /\ t.pc = "spec" => nd[s] = Ids[i]
              /\ t.pc = "rescan" /\ w.pc = "rescan" => nd[s] \in {Absent, Ids[i]}
              /\ t.pc = "rescan" /\ w.goal = "check" => nd[s] = Ids[i]
              /\ t.pc = "show" =>
                    s \in Cards /\ nd[s] # Absent /\ (t.seen => nd[s] = Ids[i])
              /\ t.pc = "off" /\ t.ret = "ok" =>
                    /\ s \in Cards /\ nd[s] = t.shown /\ t.shown # Absent
                    /\ t.seen => t.shown = Ids[i]

ToolInv ==
    /\ TypeInv
    /\ \A q \in Proc : /\ PhaseOk(q, tool[q], walk[q]) /\ WalkOk(walk[q], node)
                       /\ LoadOk(tool[q], walk[q], node, image)

----------------------------------------------------------------------------
(* Iteration.                                                              *)

\* A set of natural numbers that is not empty has a least one.
LEMMA NatMin ==
    ASSUME NEW S \in SUBSET Nat, S # {}
    PROVE  \E i \in S : \A j \in S : i <= j
  <1> DEFINE R == {p \in Nat \X Nat : p[1] < p[2]}
  <1>1. IsWellFoundedOn(R, Nat)
    BY NatLessThanWellFounded DEF OpToRel
  <1>2. \E x \in S : \A y \in S : ~(<<y, x>> \in R)
    BY <1>1, WFMin
  <1>3. PICK x \in S : \A y \in S : ~(<<y, x>> \in R)
    BY <1>2
  <1>4. ASSUME NEW y \in S PROVE x <= y
    <2>1. y \in Nat /\ x \in Nat /\ <<y, x>> \in Nat \X Nat
      OBVIOUS
    <2>2. <<y, x>> \notin R
      BY <1>3
    <2>3. ~(y < x)
      BY <2>1, <2>2
    <2> QED BY <2>1, <2>3
  <1> QED BY <1>4

\* Hence a set of them that has 0 and with each number the next one has all.
LEMMA NatAll ==
    ASSUME NEW S \in SUBSET Nat, 0 \in S, \A m \in S : m + 1 \in S
    PROVE  S = Nat
  <1> DEFINE Rest == Nat \ S
  <1> SUFFICES ASSUME Rest # {} PROVE FALSE
    OBVIOUS
  <1>1. Rest \in SUBSET Nat
    OBVIOUS
  <1>2. PICK i \in Rest : \A j \in Rest : i <= j
    <2> HIDE DEF Rest
    <2> QED BY <1>1, NatMin
  <1>3. i \in Nat /\ i # 0 /\ i \notin S
    BY <1>2
  <1>4. i - 1 \in Nat /\ (i - 1) + 1 = i /\ ~(i <= i - 1)
    BY <1>3
  <1>5. i - 1 \in S
    BY <1>2, <1>4
  <1> QED BY <1>3, <1>4, <1>5

Iterates(g, N, B, T) == \A n \in 0..N : g[n] = IF n = 0 THEN B ELSE T[g[n - 1]]

\* The first N results of a function applied over and over are a function.
LEMMA Iterated ==
    ASSUME NEW N \in Nat, NEW U, NEW B \in U, NEW T \in [U -> U]
    PROVE  \E g \in [0..N -> U] : Iterates(g, N, B, T)
  <1> DEFINE Iter(g, m) == Iterates(g, m, B, T)
             Good == {m \in Nat : \E g \in [0..m -> U] : Iter(g, m)}
  <1>1. 0 \in Good
    <2>1. [n \in 0..0 |-> B] \in [0..0 -> U]
      OBVIOUS
    <2>2. Iter([n \in 0..0 |-> B], 0)
      BY DEF Iterates
    <2> QED BY <2>1, <2>2
  <1>2. ASSUME NEW m \in Good PROVE m + 1 \in Good
    <2>1. PICK g \in [0..m -> U] : Iter(g, m)
      BY <1>2
    <2> DEFINE h == [n \in 0..(m + 1) |-> IF n = m + 1 THEN T[g[m]] ELSE g[n]]
    <2>2. h \in [0..(m + 1) -> U]
      <3>1. T[g[m]] \in U
        OBVIOUS
      <3> QED BY <3>1
    <2>3. ASSUME NEW n \in 0..(m + 1)
          PROVE  h[n] = IF n = 0 THEN B ELSE T[h[n - 1]]
      <3>1. CASE n = m + 1
        <4>1. n # 0 /\ n - 1 = m /\ m \in 0..(m + 1) /\ m # m + 1
          BY <3>1
        <4>2. h[m] = g[m]
          BY <4>1
        <4> QED BY <3>1, <4>1, <4>2
      <3>2. CASE n = 0
        <4>1. 0 \in 0..m /\ 0 # m + 1
          OBVIOUS
        <4> QED BY <2>1, <3>2, <4>1 DEF Iterates
      <3>3. CASE n # 0 /\ n # m + 1
        <4>1. n \in 0..m /\ n - 1 \in 0..m /\ n - 1 # m + 1 /\ n - 1 \in 0..(m + 1)
          BY <3>3
        <4>2. h[n] = g[n] /\ h[n - 1] = g[n - 1]
          BY <3>3, <4>1
        <4>3. g[n] = T[g[n - 1]]
          BY <2>1, <3>3, <4>1 DEF Iterates
        <4> QED BY <3>3, <4>2, <4>3
      <3> QED BY <3>1, <3>2, <3>3
    <2> HIDE DEF h
    <2>4. Iter(h, m + 1)
      BY <2>3 DEF Iterates
    <2> QED BY <2>2, <2>4
  <1>3. Good = Nat
    <2>1. Good \in SUBSET Nat
      OBVIOUS
    <2> HIDE DEF Good
    <2> QED BY <1>1, <1>2, <2>1, NatAll
  <1> QED BY <1>3

----------------------------------------------------------------------------
(* The parsers.                                                            *)

\* What an option with an argument can be given.
LEMMA OptionShape ==
    ASSUME NEW c \in Commands, NEW slots, NEW o \in Options(c, slots)
    PROVE  /\ o[1] = "S" => o[2] \in slots \cup {SlotMax, Garbage}
           /\ o[1] = "I" => o[2] \in Images
  BY DEF Commands, Options, LoadOptions, ClearOptions, DescribeOptions, SlotsOptions,
         JtagOptions, LedOptions, SetDipOptions, ClkGetOptions, ClkSetOptions, Common,
         Slot, Time, Flag

\* An option leaves a form that is good only with a slot that was named.
LEMMA TurnSound ==
    ASSUME NEW c \in Commands, NEW slots \in SUBSET (0..(SlotMax - 1)),
           NEW f \in Sound(slots), f.ok, NEW o \in Options(c, slots), NEW g \in Turn(f, o)
    PROVE  g \in Sound(slots)
  <1>1. /\ o[1] = "S" => o[2] \in slots \cup {SlotMax, Garbage}
        /\ o[1] = "I" => o[2] \in Images
    BY OptionShape
  <1>2. f \in Forms(slots) /\ (f.slot = Unset \/ f.slot \in slots \cap f.named)
        /\ SlotMax \in Nat
    BY ToolAssumption DEF Sound
  <1>3. CASE o[1] = "S"
    <2> DEFINE s == IF o[2] = Garbage THEN f.slot ELSE o[2]
               nm == IF o[2] = Garbage THEN f.named ELSE {o[2]}
    <2>1. g = [f EXCEPT !.slot = s, !.ok = s < SlotMax, !.named = nm]
      BY <1>3 DEF Turn, SetSlot
    <2>2. f.slot \in slots \cup {SlotMax, Unset} /\ f.named \in SUBSET (slots \cup {SlotMax})
      BY <1>2 DEF Forms
    <2>3. /\ s \in slots \cup {SlotMax, Unset} /\ nm \in SUBSET (slots \cup {SlotMax})
          /\ s < SlotMax => s \in slots \cap nm
      BY <1>1, <1>2, <1>3, <2>2 DEF Unset
    <2>4. (s < SlotMax) \in BOOLEAN
      OBVIOUS
    <2> HIDE DEF s, nm
    <2> DEFINE b == s < SlotMax
    <2>5. b \in BOOLEAN /\ (b => s \in slots \cap nm)
      BY <2>3, <2>4
    <2>6. g = [f EXCEPT !.slot = s, !.ok = b, !.named = nm]
      BY <2>1
    <2> HIDE DEF b
    <2>7. g \in Forms(slots) /\ g.ok = b /\ g.slot = s /\ g.named = nm
      BY <1>2, <2>3, <2>5, <2>6 DEF Forms
    <2> QED BY <2>5, <2>7 DEF Sound
  <1>4. CASE o[1] # "S"
    <2>1. \/ \E b \in BOOLEAN : g = [f EXCEPT !.ok = b] \/ g = [f EXCEPT !.arg = TRUE, !.ok = b]
          \/ \E i \in Images : g = [f EXCEPT !.afi = i]
          \/ g \in {[f EXCEPT !.async = TRUE], [f EXCEPT !.async = TRUE, !.prefetch = TRUE],
                    [f EXCEPT !.rescan = TRUE], f}
      <3>1. CASE o[1] = "I"
        BY <1>1, <3>1 DEF Turn
      <3>2. CASE o[1] \in {"r", "s"}
        <4>1. PICK t \in Times \cup {o[2]} : g = SetTime(f, t)
          BY <3>2 DEF Turn
        <4>2. (t >= MinTime) \in BOOLEAN
          OBVIOUS
        <4> QED BY <4>1, <4>2 DEF SetTime
      <3>3. CASE o[1] = "D"
        BY <3>3 DEF Turn
      <3>4. CASE o[1] = "port"
        BY <3>4 DEF Turn
      <3>5. CASE o[1] \in {"A", "P", "R", "h", "V", "?"}
        BY <3>5 DEF Turn
      <3>6. CASE o[1] \notin {"S", "I", "r", "s", "D", "port", "A", "P", "R", "h", "V", "?"}
        BY <3>6 DEF Turn
      <3> QED BY <1>4, <3>1, <3>2, <3>3, <3>4, <3>5, <3>6
    <2>2. g \in Forms(slots) /\ g.slot = f.slot /\ g.named = f.named
      BY <1>2, <2>1 DEF Forms
    <2> QED BY <1>2, <2>2 DEF Sound
  <1> QED BY <1>3, <1>4

\* Hence whatever number of options is given.
LEMMA TurnedSound ==
    ASSUME NEW c \in Commands, NEW slots \in SUBSET (0..(SlotMax - 1))
    PROVE  Turned(c, slots) \subseteq Sound(slots)
  <1> DEFINE U == SUBSET Sound(slots)
             Next1(X) == X \cup UNION {Turn(f, o) : f \in {g \in X : g.ok}, o \in Options(c, slots)}
             T == [X \in U |-> Next1(X)]
             t == CHOOSE t : t = [n \in 0..MaxArgs |-> IF n = 0 THEN {Blank}
                                                       ELSE Next1(t[n - 1])]
  <1>1. {Blank} \in U
    BY ToolAssumption DEF Sound, Forms, Blank, Unset
  <1>2. T \in [U -> U]
    <2> SUFFICES ASSUME NEW X \in U PROVE Next1(X) \subseteq Sound(slots)
      OBVIOUS
    <2> QED BY TurnSound
  <1>3. MaxArgs \in Nat
    BY ToolAssumption
  <1> HIDE DEF T, U
  <1>4. PICK g \in [0..MaxArgs -> U] :
             \A n \in 0..MaxArgs : g[n] = IF n = 0 THEN {Blank} ELSE T[g[n - 1]]
    <2> DEFINE B == {Blank}
    <2>1. B \in U
      BY <1>1
    <2> HIDE DEF B
    <2>2. \E g \in [0..MaxArgs -> U] : Iterates(g, MaxArgs, B, T)
      BY <1>2, <1>3, <2>1, Iterated
    <2> QED BY <2>2 DEF B, Iterates
  <1> HIDE DEF Next1
  <1>5. t = [n \in 0..MaxArgs |-> IF n = 0 THEN {Blank} ELSE Next1(t[n - 1])]
    <2> DEFINE Is(x) == x = [n \in 0..MaxArgs |-> IF n = 0 THEN {Blank} ELSE Next1(x[n - 1])]
    <2>1. ASSUME NEW n \in 0..MaxArgs
          PROVE  g[n] = IF n = 0 THEN {Blank} ELSE Next1(g[n - 1])
      <3>1. CASE n = 0
        BY <1>4, <3>1
      <3>2. CASE n # 0
        <4>1. n - 1 \in 0..MaxArgs
          BY <1>3, <3>2
        <4>2. g[n - 1] \in U
          BY <4>1
        <4>3. T[g[n - 1]] = Next1(g[n - 1])
          BY <4>2 DEF T
        <4> QED BY <1>4, <3>2, <4>3
      <3> QED BY <3>1, <3>2
    <2>2. Is(g)
      BY <2>1
    <2>3. t = CHOOSE x : Is(x)
      OBVIOUS
    <2> HIDE DEF t
    <2>4. Is(t)
      <3> HIDE DEF Is
      <3> QED BY <2>2, <2>3
    <2> QED BY <2>4
  <1> HIDE DEF t
  <1>6. Turned(c, slots) = t[MaxArgs]
    BY DEF Turned, t, Next1
  <1>7. ASSUME NEW X \in U PROVE Next1(X) \in U
    <2>1. T[X] = Next1(X)
      BY DEF T
    <2> QED BY <1>2, <2>1
  <1> DEFINE Good == {n \in Nat : n <= MaxArgs => t[n] \in U}
  <1>8. 0 \in Good
    BY <1>1, <1>3, <1>5
  <1>9. ASSUME NEW n \in Good PROVE n + 1 \in Good
    <2> SUFFICES ASSUME n + 1 <= MaxArgs PROVE t[n + 1] \in U
      OBVIOUS
    <2>1. n + 1 \in 0..MaxArgs /\ n + 1 # 0 /\ (n + 1) - 1 = n /\ n <= MaxArgs
      BY <1>3
    <2>2. t[n + 1] = Next1(t[n])
      BY <1>5, <2>1
    <2> QED BY <1>7, <2>1, <2>2
  <1>10. Good = Nat
    <2>1. Good \in SUBSET Nat
      OBVIOUS
    <2> HIDE DEF Good
    <2> QED BY <1>8, <1>9, <2>1, NatAll
  <1>11. t[MaxArgs] \in U
    BY <1>3, <1>10
  <1> QED BY <1>6, <1>11 DEF U

\* What a tool starts with: unless the command line is refused, its slot is one
\* that was named, and a load has an image.
LEMMA LinesSound ==
    ASSUME NEW p \in Proc, NEW c \in CmdsOf[p], NEW f \in CommandLines[p][c]
    PROVE  /\ c \in Commands /\ f \in Forms(SlotsOf[p]) /\ f \in Forms(0..(SlotMax - 1))
           /\ f.ok /\ c # "slots" => f.slot \in SlotsOf[p] /\ f.slot \in f.named
           /\ f.ok /\ c = "load" => f.afi \in Images
  <1> DEFINE slots == SlotsOf[p]
  <1>1. /\ c \in Commands /\ slots \in SUBSET (0..(SlotMax - 1)) /\ SlotMax \in Nat
    BY ToolAssumption
  <1>2. PICK g \in Turned(c, slots) :
             f = IF Complete(c, g) THEN [g EXCEPT !.arg = FALSE] ELSE Refused
    BY DEF CommandLines, Parsed
  <1> HIDE DEF slots
  <1>3. g \in Sound(slots) /\ g \in Forms(slots)
    BY <1>1, TurnedSound DEF Sound
  <1>4. /\ f \in Forms(slots)
        /\ f.ok /\ c # "slots" => f.slot \in slots /\ f.slot \in f.named
        /\ f.ok /\ c = "load" => f.afi \in Images
    <2>1. CASE Complete(c, g)
      <3>1. f = [g EXCEPT !.arg = FALSE]
        BY <1>2, <2>1
      <3>2. f \in Forms(slots) /\ f.ok = g.ok /\ f.slot = g.slot /\ f.named = g.named
            /\ f.afi = g.afi
        BY <1>3, <3>1 DEF Forms
      <3>3. g.afi \in Images \cup {NoImage}
        BY <1>3 DEF Forms
      <3> QED BY <1>3, <2>1, <3>2, <3>3 DEF Complete, Sound
    <2>2. CASE ~Complete(c, g)
      <3>1. f = Refused /\ ~Refused.ok
        BY <1>2, <2>2 DEF Refused, Blank
      <3>2. Refused \in Forms(slots)
        BY <1>1 DEF Refused, Blank, Forms
      <3> QED BY <3>1, <3>2
    <2> QED BY <2>1, <2>2
  <1>5. f \in Forms(0..(SlotMax - 1))
    BY <1>1, <1>4 DEF Forms
  <1> QED BY <1>1, <1>4, <1>5 DEF slots

----------------------------------------------------------------------------
(* The invariant.                                                          *)

\* No tool runs and every card shows what is in it at first.
LEMMA ToolInit == Init => ToolInv
  <1> SUFFICES ASSUME Init PROVE ToolInv
    OBVIOUS
  <1>1. /\ image = [c \in Cards |-> [cur |-> Cleared, next |-> NoImage]]
        /\ node = [c \in Cards |-> Ids[Cleared]]
        /\ walk = [p \in Proc |-> NoWalk] /\ tool = [p \in Proc |-> Off]
    BY DEF Init, SysInit
  <1>2. Off \in Tools /\ NoWalk \in Walks
    <2>1. Refused \in Forms(0..(SlotMax - 1))
      BY ToolAssumption DEF Refused, Blank, Forms, Unset
    <2> QED BY <2>1 DEF Off, NoWalk, Tools, Walks, Shown
  <1>3. TypeInv
    BY <1>1, <1>2 DEF TypeInv, Shown
  <1>4. ASSUME NEW q \in Proc
        PROVE  /\ PhaseOk(q, tool[q], walk[q]) /\ WalkOk(walk[q], node)
               /\ LoadOk(tool[q], walk[q], node, image)
    <2>1. tool[q] = Off /\ walk[q] = NoWalk
      BY <1>1
    <2> QED BY <2>1 DEF PhaseOk, WalkOk, LoadOk, Off, NoWalk, Syncs
  <1> QED BY <1>3, <1>4 DEF ToolInv

\* What the others may do to the cards of a process: bring back a device, with
\* the ids of the image, and end a load that is under way.
Gentle(slots, nd, nd2, im, im2) ==
    \A c \in (slots \cap Cards) \ SlowCards :
        /\ nd2[c] = nd[c] \/ (nd[c] = Absent /\ nd2[c] = Ids[im[c].cur])
        /\ im2[c] = im[c] \/ im[c].next # NoImage

\* It disturbs nothing that the invariant says of the process.
LEMMA GentleKeeps ==
    ASSUME NEW q \in Proc, NEW t \in Tools, NEW w \in Walks,
           NEW nd, NEW nd2, NEW im, NEW im2,
           PhaseOk(q, t, w), WalkOk(w, nd), LoadOk(t, w, nd, im),
           Gentle(SlotsOf[q], nd, nd2, im, im2)
    PROVE  WalkOk(w, nd2) /\ LoadOk(t, w, nd2, im2)
  <1>1. \A i \in Images \cup {Cleared} : Ids[i] # Absent
    BY AppPfAssumption
  <1>2. \A c \in (SlotsOf[q] \cap Cards) \ SlowCards :
            /\ nd[c] # Absent => nd2[c] = nd[c]
            /\ nd2[c] = Absent => nd[c] = Absent
            /\ nd[c] = Absent => nd2[c] \in {Absent, Ids[im[c].cur]}
            /\ im[c].next = NoImage => im2[c] = im[c]
    BY DEF Gentle
  <1> HIDE DEF Gentle
  <1>3. w.goal \in {"spec", "rescan", "check"} =>
            w.slot = t.opt.slot /\ t.opt.slot \in SlotsOf[q]
    <2>1. t.pc \in {"off", "attach", "slots", "serve", "before", "load", "poll", "rescan",
                    "spec", "show"}
      BY DEF Tools
    <2> QED BY <2>1 DEF PhaseOk, NoWalk
  <1>4. WalkOk(w, nd2)
    <2> SUFFICES ASSUME w.goal \in {"spec", "rescan", "check"}, w.slot \in SlotsOf[q]
                 PROVE  WalkOk(w, nd2)
      BY <1>3 DEF WalkOk
    <2> QED BY <1>2 DEF WalkOk
  <1>5. LoadOk(t, w, nd2, im2)
    <2> DEFINE s == t.opt.slot  i == Target(t)
    <2>1. t.pc = "off" /\ t.ret = "missing" /\ MaxRetries > 0 => s \notin Cards \ SlowCards
      BY DEF LoadOk
    <2>2. ASSUME Syncs(t)
          PROVE  /\ s \in SlotsOf[q] /\ i \in Images \cup {Cleared} /\ Ids[i] # Absent
      <3>1. s \in SlotsOf[q] /\ i \in Images \cup {Cleared}
        BY <2>2 DEF PhaseOk, Syncs, Target
      <3> QED BY <1>1, <3>1
    <2>3. Settled(i).next = NoImage /\ Settled(i).cur = i
      BY DEF Settled
    <2> DEFINE Claims(x, m) ==
                  /\ t.pc \in {"load", "poll"} =>
                        s \in Cards /\ x[s] = t.before /\ t.before # Absent
                  /\ t.pc \in {"rescan", "spec"} => s \in Cards /\ m[s] = Settled(i)
                  /\ t.pc = "spec" => x[s] = Ids[i]
                  /\ t.pc = "rescan" /\ w.pc = "rescan" => x[s] \in {Absent, Ids[i]}
                  /\ t.pc = "rescan" /\ w.goal = "check" => x[s] = Ids[i]
                  /\ t.pc = "show" =>
                        s \in Cards /\ x[s] # Absent /\ (t.seen => x[s] = Ids[i])
                  /\ t.pc = "off" /\ t.ret = "ok" =>
                        /\ s \in Cards /\ x[s] = t.shown /\ t.shown # Absent
                        /\ t.seen => t.shown = Ids[i]
    <2>4. ASSUME Syncs(t), s \notin SlowCards PROVE Claims(nd2, im2)
      <3>1. Claims(nd, im)
        BY <2>4 DEF LoadOk
      <3> HIDE DEF s, i
      <3> QED BY <1>2, <2>2, <2>3, <2>4, <3>1
    <2> QED BY <2>1, <2>4 DEF LoadOk
  <1> QED BY <1>4, <1>5

\* A step of one process keeps the invariant when it keeps what the invariant
\* says of that process and is gentle with the cards of the others.
LEMMA OneStep ==
    ASSUME ToolInv, TypeInv', NEW p \in Proc,
           \A q \in Proc \ {p} : tool'[q] = tool[q] /\ walk'[q] = walk[q],
           \A q \in Proc \ {p} : Gentle(SlotsOf[q], node, node', image, image'),
           PhaseOk(p, tool'[p], walk'[p]), WalkOk(walk'[p], node'),
           LoadOk(tool'[p], walk'[p], node', image')
    PROVE  ToolInv'
  <1>1. ASSUME NEW q \in Proc \ {p}
        PROVE  /\ PhaseOk(q, tool'[q], walk'[q]) /\ WalkOk(walk'[q], node')
               /\ LoadOk(tool'[q], walk'[q], node', image')
    <2>1. tool'[q] = tool[q] /\ walk'[q] = walk[q]
      OBVIOUS
    <2>2. tool[q] \in Tools /\ walk[q] \in Walks
      BY DEF ToolInv, TypeInv
    <2>3. /\ PhaseOk(q, tool[q], walk[q]) /\ WalkOk(walk[q], node)
          /\ LoadOk(tool[q], walk[q], node, image)
      BY DEF ToolInv
    <2> QED BY <2>1, <2>2, <2>3, GentleKeeps
  <1>2. \A q \in Proc : /\ PhaseOk(q, tool'[q], walk'[q]) /\ WalkOk(walk'[q], node')
                        /\ LoadOk(tool'[q], walk'[q], node', image')
    BY <1>1
  <1> QED BY <1>2 DEF ToolInv

\* Nothing could be gentler than to leave the cards alone; a rescan is gentle too.
LEMMA AreGentle ==
    ASSUME ToolInv, NEW slots
    PROVE  /\ Gentle(slots, node, node, image, image)
           /\ Gentle(slots, node, Rescanned, image, image)
  <1>1. DOMAIN node = Cards
    BY DEF ToolInv, TypeInv
  <1> QED BY <1>1 DEF Gentle, Rescanned

\* A step of a call of the PCI library.
LEMMA CallStep ==
    ASSUME ToolInv, NEW p \in Proc, NEW v \in Walks, walk' = [walk EXCEPT ![p] = v],
           UNCHANGED <<tool, image>>, node' \in [Cards -> Shown],
           \A q \in Proc \ {p} : Gentle(SlotsOf[q], node, node', image, image),
           PhaseOk(p, tool[p], v), WalkOk(v, node'), LoadOk(tool[p], v, node', image)
    PROVE  ToolInv'
  <1>1. walk \in [Proc -> Walks]
    BY DEF ToolInv, TypeInv
  <1>2. walk' \in [Proc -> Walks] /\ walk'[p] = v
        /\ \A q \in Proc \ {p} : walk'[q] = walk[q]
    BY <1>1
  <1>3. TypeInv'
    BY <1>2 DEF ToolInv, TypeInv, Shown
  <1> QED BY <1>2, <1>3, OneStep

\* Of a call that is under way: whose it is, and where.
LEMMA CallFacts ==
    ASSUME ToolInv, NEW p \in Proc, walk[p].pc # "idle"
    PROVE  /\ walk[p] \in Walks /\ tool[p] \in Tools
           /\ PhaseOk(p, tool[p], walk[p]) /\ WalkOk(walk[p], node)
           /\ LoadOk(tool[p], walk[p], node, image)
           /\ tool[p].pc \in {"attach", "slots", "before", "rescan", "spec", "show"}
           /\ walk[p].goal \in {"spec", "all", "rescan", "check"}
           /\ walk[p].goal # "all" => walk[p].slot \in SlotsOf[p]
           /\ walk[p].goal = "all" <=> tool[p].pc = "slots"
  <1>1. /\ walk[p] \in Walks /\ tool[p] \in Tools
        /\ PhaseOk(p, tool[p], walk[p]) /\ WalkOk(walk[p], node)
        /\ LoadOk(tool[p], walk[p], node, image)
    BY DEF ToolInv, TypeInv
  <1>2. tool[p].pc \in {"off", "attach", "slots", "serve", "before", "load", "poll", "rescan",
                        "spec", "show"}
    BY <1>1 DEF Tools
  <1> QED BY <1>1, <1>2 DEF PhaseOk, NoWalk

\* Every device is absent or shows the ids of an image, after a rescan too.
LEMMA DevicesShow ==
    ASSUME ToolInv
    PROVE  /\ node \in [Cards -> Shown] /\ Rescanned \in [Cards -> Shown]
           /\ \A c \in Cards : Rescanned[c] # Absent
           /\ \A c \in Cards : node[c] # Absent => Rescanned[c] = node[c]
           /\ \A c \in Cards : node[c] = Absent => Rescanned[c] = Ids[image[c].cur]
  <1>1. /\ node \in [Cards -> Shown]
        /\ \A c \in Cards : image[c].cur \in Images \cup {Cleared}
    BY DEF ToolInv, TypeInv
  <1>2. \A i \in Images \cup {Cleared} : Ids[i] # Absent /\ Ids[i] \in Shown
    BY AppPfAssumption DEF Shown
  <1> QED BY <1>1, <1>2 DEF Rescanned

\* An access to sysfs that fails ends a call anywhere.
LEMMA IoErrorKeeps ==
    ASSUME ToolInv, NEW p \in Proc, UNCHANGED tool, NEW from \in {"again", "res", "remove", "rescan"},
           IoError(p, from)
    PROVE  ToolInv'
  <1> DEFINE w == walk[p]  t == tool[p]  v == [w EXCEPT !.pc = "ioerror"]
  <1>1. /\ w.pc = from /\ walk' = [walk EXCEPT ![p] = v] /\ UNCHANGED <<image, node>>
        /\ node \in [Cards -> Shown]
    BY DEF IoError, Step, ToolInv, TypeInv
  <1>2. w.pc # "idle"
    BY <1>1
  <1>3. /\ w \in Walks /\ t \in Tools /\ PhaseOk(p, t, w) /\ WalkOk(w, node)
        /\ LoadOk(t, w, node, image)
    BY <1>2, CallFacts
  <1> HIDE DEF w, t
  <1>4. /\ v \in Walks /\ v.goal = w.goal /\ v.slot = w.slot /\ v.pc = "ioerror"
    BY <1>3 DEF Walks
  <1> HIDE DEF v
  <1>5. PhaseOk(p, t, v)
    BY <1>1, <1>3, <1>4 DEF PhaseOk, NoWalk
  <1>6. WalkOk(v, node)
    BY <1>1, <1>3, <1>4 DEF WalkOk
  <1>7. LoadOk(t, v, node, image)
    BY <1>1, <1>3, <1>4 DEF LoadOk
  <1> QED BY <1>1, <1>4, <1>5, <1>6, <1>7, CallStep, AreGentle DEF t

\* fpga_pci_check_app_pf_sysfs and the look-up of the ids and resources.
LEMMA LookUpKeeps ==
    ASSUME ToolInv, NEW p \in Proc, UNCHANGED tool,
           Exists(p) \/ Missing(p) \/ Recover(p) \/ ReadIds(p) \/ Resources(p)
    PROVE  ToolInv'
  <1> DEFINE w == walk[p]  t == tool[p]
  <1>1. w.pc # "idle"
    BY DEF Exists, Missing, Recover, ReadIds, Resources, Step, IoError
  <1>2. /\ w \in Walks /\ t \in Tools /\ PhaseOk(p, t, w) /\ WalkOk(w, node)
        /\ LoadOk(t, w, node, image)
        /\ w.goal \in {"spec", "all", "rescan", "check"}
        /\ w.goal # "all" => w.slot \in SlotsOf[p]
        /\ w.goal = "all" <=> t.pc = "slots"
    BY <1>1, CallFacts
  <1>3. /\ node \in [Cards -> Shown] /\ MaxRetries \in Nat /\ w.tries \in Nat
        /\ w.slot \in Nat /\ w.ids \in Shown
    BY <1>2, AppPfAssumption DEF ToolInv, TypeInv, Walks
  <1>4. CASE Exists(p)
    <2> DEFINE v == [w EXCEPT !.tries = 0,
                              !.pc = IF w.goal = "check" THEN "done" ELSE "ids"]
    <2>1. /\ w.pc = "exists" /\ w.slot \in Cards /\ node[w.slot] # Absent
          /\ walk' = [walk EXCEPT ![p] = v] /\ UNCHANGED <<image, node>>
      BY <1>4 DEF Exists, Step, Present
    <2>2. /\ v \in Walks /\ v.goal = w.goal /\ v.slot = w.slot /\ v.ids = w.ids
          /\ v.pc = IF w.goal = "check" THEN "done" ELSE "ids"
      BY <1>2 DEF Walks
    <2> HIDE DEF v, w, t
    <2>3. PhaseOk(p, t, v)
      BY <1>2, <2>1, <2>2 DEF PhaseOk, NoWalk
    <2>4. WalkOk(v, node)
      BY <1>2, <2>1, <2>2 DEF WalkOk
    <2>5. LoadOk(t, v, node, image)
      BY <1>2, <2>1, <2>2 DEF LoadOk
    <2> QED BY <1>3, <2>1, <2>2, <2>3, <2>4, <2>5, CallStep, AreGentle DEF t
  <1>5. CASE Missing(p)
    <2> DEFINE v == [w EXCEPT !.pc = IF w.tries >= MaxRetries THEN "failed" ELSE "again"]
    <2>1. /\ w.pc = "exists" /\ (w.slot \notin Cards \/ node[w.slot] = Absent)
          /\ walk' = [walk EXCEPT ![p] = v] /\ UNCHANGED <<image, node>>
      BY <1>5 DEF Missing, Step, Present
    <2>2. /\ v \in Walks /\ v.goal = w.goal /\ v.slot = w.slot /\ v.tries = w.tries
          /\ v.pc = IF w.tries >= MaxRetries THEN "failed" ELSE "again"
      BY <1>2 DEF Walks
    <2> HIDE DEF v, w, t
    <2>3. PhaseOk(p, t, v)
      BY <1>2, <2>1, <2>2 DEF PhaseOk, NoWalk
    <2>4. WalkOk(v, node)
      <3>1. ASSUME w.goal \in {"spec", "rescan", "check"}, w.slot \in Cards \ SlowCards
            PROVE  /\ w.goal # "check" /\ w.tries = 0
        BY <1>2, <2>1, <3>1 DEF WalkOk
      <3>2. w.goal = "check" /\ w.slot \notin SlowCards => w.slot \in Cards
        BY <1>2 DEF WalkOk
      <3>3. w.tries = 0 /\ MaxRetries > 0 => v.pc = "again"
        BY <1>3, <2>2
      <3> QED BY <2>2, <3>1, <3>2, <3>3 DEF WalkOk
    <2>5. LoadOk(t, v, node, image)
      BY <1>2, <2>1, <2>2 DEF LoadOk
    <2> QED BY <1>3, <2>1, <2>2, <2>3, <2>4, <2>5, CallStep, AreGentle DEF t
  <1>6. CASE Recover(p) /\ ~IoError(p, "again")
    <2> DEFINE n == w.tries + 1
               v == [w EXCEPT !.pc = "exists", !.tries = n]
    <2>1. /\ w.pc = "again" /\ walk' = [walk EXCEPT ![p] = v]
          /\ node' = Rescanned /\ UNCHANGED image
      BY <1>6 DEF Recover, Step
    <2>2. /\ v \in Walks /\ v.goal = w.goal /\ v.slot = w.slot /\ v.pc = "exists"
      <3>1. n \in Nat
        BY <1>3
      <3> HIDE DEF n, w
      <3> QED BY <1>2, <3>1 DEF Walks
    <2> HIDE DEF v, w, t
    <2>3. PhaseOk(p, t, v)
      BY <1>2, <2>1, <2>2 DEF PhaseOk, NoWalk
    <2>4. WalkOk(v, node')
      BY <1>2, <2>1, <2>2, DevicesShow DEF WalkOk
    <2>5. LoadOk(t, v, node', image)
      <3>1. LoadOk(t, w, node', image)
        BY <1>2, <2>1, GentleKeeps, AreGentle
      <3> QED BY <2>1, <2>2, <3>1 DEF LoadOk
    <2> QED BY <2>1, <2>2, <2>3, <2>4, <2>5, CallStep, AreGentle, DevicesShow DEF t
  <1>7. CASE ReadIds(p)
    <2> DEFINE here == w.slot \in Cards /\ node[w.slot] # Absent
    <2>1. /\ w.pc = "ids" /\ UNCHANGED <<image, node>>
          /\ \/ here /\ walk' = [walk EXCEPT ![p] = [w EXCEPT !.pc = "res", !.ids = node[w.slot]]]
             \/ walk' = [walk EXCEPT ![p] = [w EXCEPT !.tries = @ + 1]]
             \/ walk' = [walk EXCEPT ![p] = [w EXCEPT !.pc = IF here THEN "ioerror" ELSE "failed"]]
      BY <1>7 DEF ReadIds, Step, Present
    <2>2. PICK v \in Walks : /\ walk' = [walk EXCEPT ![p] = v]
                             /\ v.goal = w.goal /\ v.slot = w.slot
                             /\ \/ here /\ v.pc = "res" /\ v.ids = node[w.slot]
                                \/ v.pc = "ids"
                                \/ v.pc = IF here THEN "ioerror" ELSE "failed"
      <3>1. CASE here /\ walk' = [walk EXCEPT ![p] = [w EXCEPT !.pc = "res", !.ids = node[w.slot]]]
        <4> DEFINE v == [w EXCEPT !.pc = "res", !.ids = node[w.slot]]
        <4>1. v \in Walks /\ v.goal = w.goal /\ v.slot = w.slot /\ v.pc = "res"
              /\ v.ids = node[w.slot]
          BY <1>2, <1>3, <3>1 DEF Walks
        <4> QED BY <3>1, <4>1
      <3>2. CASE walk' = [walk EXCEPT ![p] = [w EXCEPT !.tries = @ + 1]]
        <4> DEFINE v == [w EXCEPT !.tries = @ + 1]
        <4>1. v \in Walks /\ v.goal = w.goal /\ v.slot = w.slot /\ v.pc = "ids"
          BY <1>2, <1>3, <2>1 DEF Walks
        <4> QED BY <3>2, <4>1
      <3>3. CASE walk' = [walk EXCEPT ![p] = [w EXCEPT !.pc = IF here THEN "ioerror" ELSE "failed"]]
        <4> DEFINE v == [w EXCEPT !.pc = IF here THEN "ioerror" ELSE "failed"]
        <4>1. v \in Walks /\ v.goal = w.goal /\ v.slot = w.slot
              /\ v.pc = IF here THEN "ioerror" ELSE "failed"
          BY <1>2, <2>1 DEF Walks
        <4> QED BY <3>3, <4>1
      <3> QED BY <2>1, <3>1, <3>2, <3>3
    <2> HIDE DEF w, t
    <2>3. PhaseOk(p, t, v)
      BY <1>2, <2>1, <2>2 DEF PhaseOk, NoWalk
    <2>4. WalkOk(v, node)
      BY <1>2, <2>1, <2>2 DEF WalkOk
    <2>5. LoadOk(t, v, node, image)
      BY <1>2, <2>1, <2>2 DEF LoadOk
    <2> QED BY <1>3, <2>1, <2>2, <2>3, <2>4, <2>5, CallStep, AreGentle DEF t
  <1>8. CASE Resources(p) /\ ~IoError(p, "res")
    <2>1. /\ w.pc = "res" /\ UNCHANGED <<image, node>>
          /\ walk' = [walk EXCEPT ![p] = IF w.slot \in Cards /\ node[w.slot] # Absent
                                         THEN SpecDone(w) ELSE [w EXCEPT !.pc = "failed"]]
      BY <1>8 DEF Resources, Step, Present
    <2> DEFINE v == IF w.slot \in Cards /\ node[w.slot] # Absent
                    THEN SpecDone(w) ELSE [w EXCEPT !.pc = "failed"]
    <2>2. /\ v \in Walks /\ v.goal = w.goal
          /\ v.goal = "all" => v.pc \in {"exists", "done", "failed"}
          /\ v.goal # "all" =>
                /\ v.slot = w.slot /\ v.ids = w.ids
                /\ v.pc = IF w.slot \in Cards /\ node[w.slot] # Absent
                          THEN IF w.goal = "rescan" THEN "remove" ELSE "done"
                          ELSE "failed"
      <3>1. CASE ~(w.slot \in Cards /\ node[w.slot] # Absent)
        <4>1. v = [w EXCEPT !.pc = "failed"]
          BY <3>1
        <4> QED BY <1>2, <3>1, <4>1 DEF Walks
      <3>2. CASE (w.slot \in Cards /\ node[w.slot] # Absent)
                 /\ w.goal = "all" /\ w.slot + 1 \in Cards
        <4>1. v = Enter("all", w.slot + 1)
          BY <3>2 DEF SpecDone
        <4>2. v = [pc |-> "exists", goal |-> "all", slot |-> w.slot + 1, tries |-> 0,
                   ids |-> Absent]
          BY <4>1 DEF Enter, NoWalk
        <4> HIDE DEF v
        <4> QED BY <1>3, <3>2, <4>2 DEF Walks, Shown
      <3>3. CASE (w.slot \in Cards /\ node[w.slot] # Absent)
                 /\ ~(w.goal = "all" /\ w.slot + 1 \in Cards)
        <4>1. v = [w EXCEPT !.pc = IF w.goal = "rescan" THEN "remove" ELSE "done", !.tries = 0]
          BY <3>3 DEF SpecDone
        <4> HIDE DEF v
        <4> QED BY <1>2, <3>3, <4>1 DEF Walks
      <3> QED BY <3>1, <3>2, <3>3
    <2>3. walk' = [walk EXCEPT ![p] = v]
      BY <2>1
    <2> HIDE DEF v, w, t
    <2>4. PhaseOk(p, t, v)
      BY <1>2, <2>1, <2>2 DEF PhaseOk, NoWalk
    <2>5. WalkOk(v, node)
      BY <1>2, <2>1, <2>2 DEF WalkOk
    <2>6. LoadOk(t, v, node, image)
      BY <1>2, <2>1, <2>2 DEF LoadOk
    <2> QED BY <1>3, <2>1, <2>2, <2>3, <2>4, <2>5, <2>6, CallStep, AreGentle DEF t
  <1>9. CASE IoError(p, "again") \/ IoError(p, "res")
    BY <1>9, IoErrorKeeps
  <1> QED BY <1>4, <1>5, <1>6, <1>7, <1>8, <1>9

\* What a call of the PCI library starts with.
LEMMA EnterIs ==
    ASSUME NEW goal, NEW slot
    PROVE  Enter(goal, slot) = [pc |-> "exists", goal |-> goal, slot |-> slot, tries |-> 0,
                                ids |-> Absent]
  <1>1. Enter(goal, slot) = [[[NoWalk EXCEPT !.pc = "exists"] EXCEPT !.goal = goal]
                                EXCEPT !.slot = slot]
    BY DEF Enter
  <1> QED BY <1>1 DEF NoWalk

\* The remove and the rescan of fpga_pci_rescan_slot_app_pfs.
LEMMA RescanKeeps ==
    ASSUME ToolInv, NEW p \in Proc, UNCHANGED tool, RemovePf(p) \/ Rescan(p)
    PROVE  ToolInv'
  <1> DEFINE w == walk[p]  t == tool[p]  s == walk[p].slot
  <1>1. w.pc \in {"remove", "rescan"}
    BY DEF RemovePf, Rescan, Step, IoError
  <1>2. /\ w \in Walks /\ t \in Tools /\ PhaseOk(p, t, w) /\ WalkOk(w, node)
        /\ LoadOk(t, w, node, image) /\ s \in SlotsOf[p]
        /\ t.pc \in {"attach", "slots", "before", "rescan", "spec", "show"}
    <2>1. w.pc # "idle"
      BY <1>1
    <2>2. w.goal = "rescan"
      BY <1>1, <2>1, CallFacts DEF PhaseOk
    <2> QED BY <2>1, <2>2, CallFacts
  <1>3. /\ w.goal = "rescan" /\ t.pc = "rescan" /\ s = t.opt.slot /\ s \in Cards
        /\ w.pc = "remove" /\ s \notin SlowCards => node[s] # Absent
    <2> HIDE DEF t
    <2>1. w.goal = "rescan"
      BY <1>1, <1>2 DEF PhaseOk
    <2>2. t.pc = "rescan"
      BY <1>2, <2>1 DEF PhaseOk
    <2>3. w.slot = t.opt.slot
      BY <1>2, <2>2 DEF PhaseOk
    <2>4. /\ w.slot \in Cards
          /\ w.pc = "remove" /\ w.slot \notin SlowCards => node[w.slot] # Absent
      BY <1>1, <1>2, <2>1 DEF WalkOk
    <2> QED BY <2>1, <2>2, <2>3, <2>4
  <1>4. Syncs(t) /\ s \notin SlowCards =>
            /\ image[s] = Settled(Target(t))
            /\ w.pc = "rescan" => node[s] \in {Absent, Ids[Target(t)]}
    BY <1>2, <1>3 DEF LoadOk
  <1>5. node \in [Cards -> Shown] /\ s \in Nat /\ w.ids \in Shown /\ Absent \in Shown
    BY <1>2 DEF ToolInv, TypeInv, Walks, Shown
  <1>6. CASE RemovePf(p) /\ ~IoError(p, "remove")
    <2> DEFINE v == [w EXCEPT !.pc = IF Present(s) THEN "rescan" ELSE "failed"]
    <2>1. /\ w.pc = "remove" /\ walk' = [walk EXCEPT ![p] = v] /\ UNCHANGED image
          /\ \/ node' = [node EXCEPT ![s] = Absent]
             \/ s \in SlowCards /\ UNCHANGED node
      BY <1>6 DEF RemovePf, Step
    <2>2. /\ v \in Walks /\ v.goal = "rescan" /\ v.slot = s /\ v.pc \in {"rescan", "failed"}
          /\ s \notin SlowCards => v.pc = "rescan"
      BY <1>2, <1>3, <2>1 DEF Walks, Present
    <2>3. node' \in [Cards -> Shown] /\ (s \notin SlowCards => node'[s] = Absent)
      BY <1>3, <1>5, <2>1
    <2>4. ASSUME NEW q \in Proc \ {p} PROVE Gentle(SlotsOf[q], node, node', image, image)
      <3>1. s \notin SlotsOf[q]
        BY <1>2, ToolAssumption
      <3> HIDE DEF s
      <3> QED BY <1>5, <2>1, <3>1 DEF Gentle
    <2> HIDE DEF v, w, t, s
    <2>5. PhaseOk(p, t, v)
      BY <1>2, <1>3, <2>2 DEF PhaseOk
    <2>6. WalkOk(v, node')
      BY <1>3, <2>2 DEF WalkOk
    <2>7. LoadOk(t, v, node', image)
      BY <1>3, <1>4, <2>2, <2>3 DEF LoadOk
    <2> QED BY <2>1, <2>2, <2>3, <2>4, <2>5, <2>6, <2>7, CallStep DEF t
  <1>7. CASE Rescan(p) /\ ~IoError(p, "rescan")
    <2> DEFINE v == Enter("check", s)
    <2>1. /\ w.pc = "rescan" /\ walk' = [walk EXCEPT ![p] = v]
          /\ node' = Rescanned /\ UNCHANGED image
      BY <1>7 DEF Rescan, Step
    <2> HIDE DEF w, t, s
    <2>2. v = [pc |-> "exists", goal |-> "check", slot |-> s, tries |-> 0, ids |-> Absent]
      BY EnterIs
    <2> HIDE DEF v
    <2>3. v \in Walks /\ v.goal = "check" /\ v.slot = s /\ v.pc = "exists" /\ v.tries = 0
      BY <1>5, <2>2 DEF Walks
    <2>4. node'[s] # Absent /\ node' \in [Cards -> Shown]
      BY <1>3, <2>1, DevicesShow
    <2>5. Syncs(t) /\ s \notin SlowCards => node'[s] = Ids[Target(t)]
      <3>1. Syncs(t) /\ s \notin SlowCards => image[s].cur = Target(t)
        BY <1>4 DEF Settled
      <3>2. Syncs(t) /\ s \notin SlowCards => node[s] \in {Absent, Ids[Target(t)]}
        BY <1>4, <2>1
      <3>3. /\ node[s] # Absent => node'[s] = node[s]
            /\ node[s] = Absent => node'[s] = Ids[image[s].cur]
        BY <1>3, <2>1, DevicesShow
      <3> QED BY <3>1, <3>2, <3>3
    <2>6. PhaseOk(p, t, v)
      BY <1>2, <1>3, <2>3 DEF PhaseOk
    <2>7. WalkOk(v, node')
      BY <1>3, <2>3, <2>4 DEF WalkOk
    <2>8. LoadOk(t, v, node', image)
      BY <1>3, <1>4, <2>3, <2>5 DEF LoadOk
    <2> QED BY <2>1, <2>3, <2>4, <2>6, <2>7, <2>8, CallStep, AreGentle DEF t
  <1>8. CASE IoError(p, "remove") \/ IoError(p, "rescan")
    BY <1>8, IoErrorKeeps
  <1> QED BY <1>6, <1>7, <1>8

\* A step of a tool: it touches no device, and no card but that of its slot.
LEMMA HostStep ==
    ASSUME ToolInv, NEW p \in Proc, NEW t2 \in Tools, NEW v \in Walks,
           tool' = [tool EXCEPT ![p] = t2], walk' = [walk EXCEPT ![p] = v],
           UNCHANGED node,
           image' = image \/ \E s \in SlotsOf[p] \cap Cards, i \in Images \cup {Cleared} :
                                image' = [image EXCEPT ![s].next = i],
           PhaseOk(p, t2, v), WalkOk(v, node), LoadOk(t2, v, node, image')
    PROVE  ToolInv'
  <1>1. /\ walk \in [Proc -> Walks] /\ tool \in [Proc -> Tools] /\ node \in [Cards -> Shown]
        /\ image \in [Cards -> [cur : Images \cup {Cleared},
                                next : Images \cup {Cleared, NoImage}]]
    BY DEF ToolInv, TypeInv
  <1>2. /\ walk' \in [Proc -> Walks] /\ walk'[p] = v
        /\ tool' \in [Proc -> Tools] /\ tool'[p] = t2
        /\ \A q \in Proc \ {p} : tool'[q] = tool[q] /\ walk'[q] = walk[q]
    BY <1>1
  <1>3. /\ image' \in [Cards -> [cur : Images \cup {Cleared},
                                 next : Images \cup {Cleared, NoImage}]]
        /\ \A c \in Cards \ SlotsOf[p] : image'[c] = image[c]
    BY <1>1
  <1>4. TypeInv'
    BY <1>1, <1>2, <1>3 DEF TypeInv, Shown
  <1>5. ASSUME NEW q \in Proc \ {p} PROVE Gentle(SlotsOf[q], node, node', image, image')
    <2>1. SlotsOf[q] \cap SlotsOf[p] = {}
      BY ToolAssumption
    <2> QED BY <1>3, <2>1 DEF Gentle
  <1> QED BY <1>2, <1>4, <1>5, OneStep

\* What the invariant says of a tool that is running.
LEMMA RunFacts ==
    ASSUME ToolInv, NEW p \in Proc
    PROVE  /\ walk[p] \in Walks /\ tool[p] \in Tools
           /\ PhaseOk(p, tool[p], walk[p]) /\ WalkOk(walk[p], node)
           /\ LoadOk(tool[p], walk[p], node, image)
           /\ IsSync(p) = Syncs(tool[p]) /\ Wanted(p) = Target(tool[p])
           /\ Slots(p) = tool[p].opt.slot
           /\ NoWalk \in Walks /\ Absent \in Shown
  <1>1. NoWalk \in Walks /\ Absent \in Shown
    BY DEF NoWalk, Walks, Shown
  <1> QED BY <1>1 DEF ToolInv, TypeInv, IsSync, Syncs, Wanted, Target, Opt, Slots

LEMMA RefusedIs == Refused \in Forms(0..(SlotMax - 1))
  BY ToolAssumption DEF Refused, Blank, Forms, Unset

\* Of most tools that have ended only the exit code is left.
LEMMA OffIs ==
    ASSUME NEW ret \in {"none", "fail", "ok"}, NEW t, t = [Off EXCEPT !.ret = ret]
    PROVE  t \in Tools /\ t.pc = "off" /\ t.cmd = "none" /\ t.ret = ret
  BY RefusedIs DEF Off, Tools, Shown

\* A tool ends.
LEMMA EndStep ==
    ASSUME ToolInv, NEW p \in Proc, NEW ret \in {"none", "fail", "ok"}, End(p, ret),
           UNCHANGED node,
           image' = image \/ \E s \in SlotsOf[p] \cap Cards, i \in Images \cup {Cleared} :
                                image' = [image EXCEPT ![s].next = i]
    PROVE  ToolInv'
  <1> DEFINE t2 == [Off EXCEPT !.ret = ret]
  <1>1. NoWalk \in Walks /\ Absent \in Shown
    BY RunFacts
  <1>2. tool' = [tool EXCEPT ![p] = t2] /\ walk' = [walk EXCEPT ![p] = NoWalk]
    BY DEF End
  <1>3. t2 \in Tools /\ t2.pc = "off" /\ t2.cmd = "none" /\ t2.ret = ret
    BY OffIs
  <1> HIDE DEF t2
  <1>4. PhaseOk(p, t2, NoWalk)
    BY <1>3 DEF PhaseOk, NoWalk
  <1>5. WalkOk(NoWalk, node)
    BY DEF WalkOk, NoWalk
  <1>6. LoadOk(t2, NoWalk, node, image')
    BY <1>3 DEF LoadOk, Syncs
  <1> QED BY <1>1, <1>2, <1>3, <1>4, <1>5, <1>6, HostStep

\* A tool calls the PCI library.
LEMMA CallKeeps ==
    ASSUME ToolInv, NEW p \in Proc, NEW pc \in {"before", "spec", "show", "rescan"}, NEW goal,
           Call(p, pc, goal), UNCHANGED <<image, node>>,
           goal = IF pc = "rescan" THEN "rescan" ELSE "spec",
           tool[p].cmd \notin {"none", "slots"},
           tool[p].opt.slot \in tool[p].opt.named,
           pc \in {"before", "spec"} => Syncs(tool[p]),
           pc = "before" => ~tool[p].seen,
           Syncs(tool[p]) /\ tool[p].opt.slot \notin SlowCards =>
               LET c == tool[p].opt.slot  i == Target(tool[p])
               IN  /\ pc \in {"rescan", "spec"} => c \in Cards /\ image[c] = Settled(i)
                   /\ pc = "spec" => node[c] = Ids[i]
                   /\ pc = "show" => c \in Cards /\ node[c] # Absent
                                     /\ (tool[p].seen => node[c] = Ids[i])
    PROVE  ToolInv'
  <1> DEFINE t == tool[p]
             s == t.opt.slot
             t2 == [t EXCEPT !.pc = pc]
             v == Enter(goal, s)
  <1>1. t \in Tools /\ PhaseOk(p, t, walk[p]) /\ Absent \in Shown /\ Slots(p) = s
    BY RunFacts
  <1>2. tool' = [tool EXCEPT ![p] = t2] /\ walk' = [walk EXCEPT ![p] = v]
    BY <1>1 DEF Call
  <1>3. s \in SlotsOf[p] /\ s \in Nat
    BY <1>1, ToolAssumption DEF PhaseOk
  <1>4. v = [pc |-> "exists", goal |-> goal, slot |-> s, tries |-> 0, ids |-> Absent]
    BY EnterIs
  <1> DEFINE i == Target(t)
  <1>5. /\ t.cmd \notin {"none", "slots"} /\ s \in t.opt.named
        /\ pc \in {"before", "spec"} => Syncs(t)
        /\ pc = "before" => ~t.seen
        /\ Syncs(t) /\ s \notin SlowCards =>
              /\ pc \in {"rescan", "spec"} => s \in Cards /\ image[s] = Settled(i)
              /\ pc = "spec" => node[s] = Ids[i]
              /\ pc = "show" => s \in Cards /\ node[s] # Absent /\ (t.seen => node[s] = Ids[i])
    OBVIOUS
  <1> HIDE DEF t
  <1>6. t2 \in Tools /\ t2.opt = t.opt /\ t2.cmd = t.cmd /\ t2.pc = pc /\ t2.seen = t.seen
    BY <1>1 DEF Tools
  <1>7. Syncs(t2) = Syncs(t) /\ Target(t2) = i
    BY <1>6 DEF Syncs, Target
  <1>8. v \in Walks
    BY <1>1, <1>3, <1>4 DEF Walks
  <1>9. v.pc = "exists" /\ v.goal = goal /\ v.slot = s /\ v.tries = 0
    BY <1>4
  <1> HIDE DEF t2, v, i, s
  <1>10. PhaseOk(p, t2, v)
    <2>1. t2.opt.slot = s /\ t2.opt.named = t.opt.named /\ t2.opt.afi = t.opt.afi
      BY <1>6 DEF s
    <2>2. Syncs(t2) => t2.cmd \in {"load", "clear"}
      BY DEF Syncs
    <2>3. t2.cmd = "load" => t2.opt.afi \in Images
      BY <1>1, <1>6 DEF PhaseOk
    <2> QED BY <1>3, <1>5, <1>6, <1>7, <1>9, <2>1, <2>2, <2>3 DEF PhaseOk
  <1>11. WalkOk(v, node)
    BY <1>9 DEF WalkOk
  <1>12. LoadOk(t2, v, node, image)
    <2>1. t2.opt.slot = s
      BY <1>6 DEF s
    <2> QED BY <1>5, <1>6, <1>7, <1>9, <2>1 DEF LoadOk
  <1> QED BY <1>2, <1>6, <1>8, <1>10, <1>11, <1>12, HostStep

\* A tool starts on a command line, or refuses it.
LEMMA StartKeeps ==
    ASSUME ToolInv, NEW p \in Proc, Start(p)
    PROVE  ToolInv'
  <1>1. /\ tool[p].pc = "off" /\ UNCHANGED <<image, node>> /\ NoWalk \in Walks
        /\ Absent \in Shown /\ walk \in [Proc -> Walks]
    BY RunFacts DEF Start, At, ToolInv, TypeInv
  <1>2. walk[p] = NoWalk
    BY <1>1, RunFacts DEF PhaseOk
  <1>3. WalkOk(NoWalk, node)
    BY DEF WalkOk, NoWalk
  <1> DEFINE Starts(c, f) ==
             IF ~f.ok
             THEN End(p, "fail")
             ELSE /\ tool' = [tool EXCEPT ![p] = [Off EXCEPT !.cmd = c, !.opt = f,
                                 !.pc = IF c = "slots" THEN "slots" ELSE "attach"]]
                  /\ walk' = [walk EXCEPT ![p] =
                                 IF c = "slots" THEN Enter("all", 0) ELSE Enter("spec", f.slot)]
  <1>4. PICK c \in CmdsOf[p] : \E f \in CommandLines[p][c] : Starts(c, f)
    BY DEF Start
  <1>5. PICK f \in CommandLines[p][c] : Starts(c, f)
    BY <1>4
  <1>6. /\ c \in Commands /\ f \in Forms(0..(SlotMax - 1))
        /\ f.ok /\ c # "slots" => f.slot \in SlotsOf[p] /\ f.slot \in f.named
        /\ f.ok /\ c = "load" => f.afi \in Images
    BY LinesSound
  <1>7. Off \in Tools /\ Off.cmd = "none" /\ ~Off.seen
    BY <1>1, RefusedIs DEF Off, Tools
  <1>8. CASE ~f.ok
    BY <1>1, <1>5, <1>8, EndStep
  <1>9. CASE f.ok
    <2> DEFINE goal == IF c = "slots" THEN "all" ELSE "spec"
               s == IF c = "slots" THEN 0 ELSE f.slot
               v == Enter(goal, s)
               pc == IF c = "slots" THEN "slots" ELSE "attach"
               t2 == [Off EXCEPT !.cmd = c, !.opt = f, !.pc = pc]
    <2>1. tool' = [tool EXCEPT ![p] = t2] /\ walk' = [walk EXCEPT ![p] = v]
      BY <1>5, <1>9
    <2>2. s \in Nat /\ (c # "slots" => s = f.slot)
      BY <1>6, <1>9, ToolAssumption
    <2>3. v = [pc |-> "exists", goal |-> goal, slot |-> s, tries |-> 0, ids |-> Absent]
      BY EnterIs
    <2>4. goal \in {"all", "spec"} /\ (goal = "all" <=> c = "slots")
      OBVIOUS
    <2>5. pc \in {"slots", "attach"} /\ (pc = "slots" <=> c = "slots")
      OBVIOUS
    <2> HIDE DEF goal, s, v, pc
    <2>6. v \in Walks /\ v.pc = "exists" /\ v.goal = goal /\ v.slot = s /\ v.tries = 0
      BY <1>1, <2>2, <2>3, <2>4 DEF Walks
    <2>7. t2 \in Tools /\ t2.pc = pc /\ t2.cmd = c /\ t2.opt = f /\ ~t2.seen
      BY <1>6, <1>7, <2>5 DEF Tools
    <2> HIDE DEF t2
    <2>8. PhaseOk(p, t2, v)
      BY <1>6, <1>9, <2>2, <2>4, <2>5, <2>6, <2>7 DEF PhaseOk, Commands
    <2>9. WalkOk(v, node)
      BY <2>4, <2>6 DEF WalkOk
    <2>10. LoadOk(t2, v, node, image)
      BY <2>5, <2>7 DEF LoadOk
    <2> QED BY <1>1, <2>1, <2>6, <2>7, <2>8, <2>9, <2>10, HostStep
  <1> QED BY <1>6, <1>8, <1>9

\* A tool that ends without a word from the shell.
LEMMA EndKeeps ==
    ASSUME ToolInv, NEW p \in Proc, Failed(p) \/ Fails(p) \/ Simple(p) \/ Kill(p)
    PROVE  ToolInv'
  <1> DEFINE w == walk[p]  t == tool[p]
  <1>1. /\ w \in Walks /\ t \in Tools /\ PhaseOk(p, t, w) /\ WalkOk(w, node)
        /\ LoadOk(t, w, node, image) /\ NoWalk \in Walks /\ Absent \in Shown
    BY RunFacts
  <1>2. CASE /\ ~At(p, "slots") /\ w.pc = "failed" /\ UNCHANGED <<image, node>>
             /\ tool' = [tool EXCEPT ![p] = [Off EXCEPT !.ret = "missing", !.opt.slot = Slots(p)]]
             /\ walk' = [walk EXCEPT ![p] = NoWalk]
    <2> DEFINE s == t.opt.slot
               o == [Refused EXCEPT !.slot = s]
               t2 == [Off EXCEPT !.ret = "missing", !.opt = o]
    <2>1. w.pc # "idle" /\ t.pc # "slots"
      BY <1>2 DEF At
    <2>2. /\ w.goal \in {"spec", "rescan", "check"}
          /\ t.pc \in {"attach", "before", "rescan", "spec", "show"}
      BY <2>1, CallFacts
    <2>3. w.slot = s
      BY <1>1, <2>2 DEF PhaseOk
    <2>4. MaxRetries > 0 => s \notin Cards \ SlowCards
      BY <1>1, <1>2, <2>2, <2>3 DEF WalkOk
    <2>5. tool' = [tool EXCEPT ![p] = t2]
      BY <1>2 DEF Slots, Opt, Off
    <2>6. s \in 0..(SlotMax - 1) \cup {SlotMax, Unset}
      BY <1>1 DEF Tools, Forms
    <2> HIDE DEF s, t, w
    <2>7. o \in Forms(0..(SlotMax - 1)) /\ o.slot = s
      BY <2>6, RefusedIs DEF Forms
    <2> HIDE DEF o
    <2>8. /\ t2 \in Tools /\ t2.pc = "off" /\ t2.cmd = "none" /\ t2.ret = "missing"
          /\ t2.opt = o
      BY <1>1, <2>7 DEF Tools, Off
    <2> HIDE DEF t2
    <2>9. PhaseOk(p, t2, NoWalk)
      BY <2>8 DEF PhaseOk, NoWalk
    <2>10. LoadOk(t2, NoWalk, node, image)
      BY <2>4, <2>7, <2>8 DEF LoadOk, Syncs
    <2>11. WalkOk(NoWalk, node)
      BY DEF WalkOk, NoWalk
    <2> QED BY <1>1, <1>2, <2>5, <2>8, <2>9, <2>10, <2>11, HostStep
  <1>3. CASE /\ UNCHANGED <<image, node>>
             /\ \E ret \in {"none", "fail", "ok"} : End(p, ret)
    BY <1>3, EndStep
  <1> QED BY <1>2, <1>3 DEF Failed, Fails, Simple, Kill

\* The steps of a load or clear up to its command, and the start of the virtual
\* JTAG server: the device is there, with the ids that were read.
LEMMA UpToLoadKeeps ==
    ASSUME ToolInv, NEW p \in Proc, Serve(p) \/ Before(p)
    PROVE  ToolInv'
  <1> DEFINE w == walk[p]  t == tool[p]
  <1>1. /\ w \in Walks /\ t \in Tools /\ PhaseOk(p, t, w) /\ WalkOk(w, node)
        /\ LoadOk(t, w, node, image) /\ IsSync(p) = Syncs(t)
        /\ NoWalk \in Walks /\ WalkOk(NoWalk, node)
    BY RunFacts DEF WalkOk, NoWalk
  <1>2. ASSUME NEW pc \in {"serve", "load"}, tool' = [tool EXCEPT ![p].pc = pc],
               walk' = [walk EXCEPT ![p] = NoWalk], UNCHANGED <<image, node>>,
               ~Syncs(t), t.pc = "attach", pc = "load" => t.cmd \in {"load", "clear"}
        PROVE  ToolInv'
    <2> DEFINE t2 == [t EXCEPT !.pc = pc]
    <2>1. tool' = [tool EXCEPT ![p] = t2]
      BY <1>2
    <2>2. ~Syncs(t) /\ t.pc = "attach" /\ (pc = "load" => t.cmd \in {"load", "clear"})
      BY <1>2
    <2> HIDE DEF t, w
    <2>3. t2 \in Tools /\ t2.pc = pc /\ t2.cmd = t.cmd /\ t2.opt = t.opt /\ t2.seen = t.seen
      BY <1>1 DEF Tools
    <2>4. ~Syncs(t2)
      BY <2>2, <2>3 DEF Syncs
    <2> HIDE DEF t2
    <2>5. PhaseOk(p, t2, NoWalk)
      BY <1>1, <2>2, <2>3 DEF PhaseOk, NoWalk
    <2>6. LoadOk(t2, NoWalk, node, image)
      BY <2>3, <2>4 DEF LoadOk
    <2> QED BY <1>1, <1>2, <2>1, <2>3, <2>5, <2>6, HostStep
  <1>3. CASE Serve(p)
    <2>1. /\ t.pc = "attach" /\ t.cmd = "vjtag" /\ tool' = [tool EXCEPT ![p].pc = "serve"]
          /\ walk' = [walk EXCEPT ![p] = NoWalk] /\ UNCHANGED <<image, node>>
      BY <1>3 DEF Serve, Done, At, Goto
    <2>2. ~Syncs(t)
      BY <2>1 DEF Syncs
    <2> QED BY <1>2, <2>1, <2>2
  <1>4. CASE Done(p, "attach") /\ IsSync(p) /\ Call(p, "before", "spec")
             /\ UNCHANGED <<image, node>>
    <2>1. t.pc = "attach" /\ Syncs(t)
      BY <1>1, <1>4 DEF Done, At
    <2>2. t.cmd \notin {"none", "slots"} /\ t.opt.slot \in t.opt.named /\ ~t.seen
      BY <1>1, <2>1 DEF PhaseOk
    <2> QED BY <1>4, <2>1, <2>2, CallKeeps
  <1>5. CASE /\ Done(p, "attach") /\ tool[p].cmd \in {"load", "clear"} /\ ~IsSync(p)
             /\ Goto(p, "load") /\ UNCHANGED <<image, node>>
    BY <1>1, <1>2, <1>5 DEF Done, At, Goto
  <1>6. CASE /\ Done(p, "before")
             /\ tool' = [tool EXCEPT ![p].pc = "load", ![p].before = walk[p].ids]
             /\ walk' = [walk EXCEPT ![p] = NoWalk] /\ UNCHANGED <<image, node>>
    <2> DEFINE t2 == [t EXCEPT !.pc = "load", !.before = w.ids]
    <2>1. t.pc = "before" /\ w.pc = "done"
      BY <1>6 DEF Done, At
    <2>2. tool' = [tool EXCEPT ![p] = t2]
      BY <1>6
    <2>3. w.ids \in Shown
      BY <1>1 DEF Walks
    <2> HIDE DEF t, w
    <2>4. /\ t2 \in Tools /\ t2.pc = "load" /\ t2.cmd = t.cmd /\ t2.opt = t.opt
          /\ t2.before = w.ids /\ t2.seen = t.seen
      BY <1>1, <2>3 DEF Tools
    <2>5. w.goal = "spec" /\ w.slot = t.opt.slot
      BY <1>1, <2>1 DEF PhaseOk
    <2>6. /\ w.slot \in Cards
          /\ w.slot \notin SlowCards => node[w.slot] # Absent /\ w.ids = node[w.slot]
      BY <1>1, <2>1, <2>5 DEF WalkOk
    <2> HIDE DEF t2
    <2>7. PhaseOk(p, t2, NoWalk)
      BY <1>1, <2>1, <2>4 DEF PhaseOk, NoWalk
    <2>8. LoadOk(t2, NoWalk, node, image)
      BY <2>4, <2>5, <2>6 DEF LoadOk
    <2> QED BY <1>1, <1>6, <2>2, <2>4, <2>7, <2>8, HostStep
  <1> QED BY <1>3, <1>4, <1>5, <1>6 DEF Before

\* The command to the shell changes only the image of the tool's own card.
LEMMA LoadKeeps ==
    ASSUME ToolInv, NEW p \in Proc, Load(p)
    PROVE  ToolInv'
  <1> DEFINE t == tool[p]  s == t.opt.slot
  <1>1. /\ t \in Tools /\ PhaseOk(p, t, walk[p]) /\ LoadOk(t, walk[p], node, image)
        /\ IsSync(p) = Syncs(t) /\ Wanted(p) = Target(t) /\ Slots(p) = s
        /\ NoWalk \in Walks /\ WalkOk(NoWalk, node)
    BY RunFacts DEF WalkOk, NoWalk
  <1>2. /\ t.pc = "load" /\ s \in Cards /\ UNCHANGED node
        /\ image' = image \/ image' = [image EXCEPT ![s].next = Target(t)]
        /\ IF Syncs(t) THEN Goto(p, "poll") ELSE End(p, "ok")
    BY <1>1 DEF Load, At
  <1>3. s \in SlotsOf[p] /\ Target(t) \in Images \cup {Cleared} /\ t.cmd \in {"load", "clear"}
    BY <1>1, <1>2 DEF PhaseOk, Target
  <1>4. image' = image \/ \E c \in SlotsOf[p] \cap Cards, i \in Images \cup {Cleared} :
                              image' = [image EXCEPT ![c].next = i]
    BY <1>2, <1>3
  <1>5. CASE ~Syncs(t)
    BY <1>2, <1>4, <1>5, EndStep
  <1>6. CASE Syncs(t)
    <2> DEFINE t2 == [t EXCEPT !.pc = "poll"]
    <2>1. tool' = [tool EXCEPT ![p] = t2] /\ walk' = [walk EXCEPT ![p] = NoWalk]
      BY <1>2, <1>6 DEF Goto
    <2> HIDE DEF t
    <2>2. t2 \in Tools /\ t2.pc = "poll" /\ t2.cmd = t.cmd /\ t2.opt = t.opt
          /\ t2.before = t.before /\ t2.seen = t.seen
      BY <1>1 DEF Tools
    <2> HIDE DEF t2
    <2>3. Syncs(t2)
      BY <1>6, <2>2 DEF Syncs
    <2>4. PhaseOk(p, t2, NoWalk)
      BY <1>1, <1>2, <2>2, <2>3 DEF PhaseOk, NoWalk
    <2>5. LoadOk(t2, NoWalk, node, image')
      BY <1>1, <1>2, <1>6, <2>2 DEF LoadOk
    <2> QED BY <1>1, <1>2, <1>4, <2>1, <2>2, <2>4, <2>5, HostStep
  <1> QED BY <1>5, <1>6

\* After the load, and describe: the rescan if there is one, the looks at the
\* slot and the answer that is printed.
LEMMA AfterLoadKeeps ==
    ASSUME ToolInv, NEW p \in Proc,
           Loaded(p) \/ Unseen(p) \/ Describe(p) \/ LookAgain(p)
    PROVE  ToolInv'
  <1> DEFINE w == walk[p]  t == tool[p]  s == t.opt.slot  i == Target(t)
  <1>1. /\ w \in Walks /\ t \in Tools /\ PhaseOk(p, t, w) /\ WalkOk(w, node)
        /\ LoadOk(t, w, node, image) /\ IsSync(p) = Syncs(t) /\ Wanted(p) = i
        /\ Slots(p) = s /\ Absent \in Shown
    BY RunFacts
  <1>2. CASE Loaded(p)
    <2>1. PICK goal \in {"rescan", "spec"} :
              /\ goal = "spec" => Ids[i] = t.before
              /\ tool' = [tool EXCEPT ![p] = [t EXCEPT !.pc = goal, !.before = Absent, !.seen = TRUE]]
              /\ walk' = [walk EXCEPT ![p] = Enter(goal, s)]
      BY <1>1, <1>2 DEF Loaded
    <2>2. t.pc = "poll" /\ image[s] = Settled(i) /\ UNCHANGED <<image, node>>
      BY <1>1, <1>2 DEF Loaded, At, Settled
    <2>3. /\ t.cmd \in {"load", "clear"} /\ s \in t.opt.named /\ Syncs(t)
          /\ s \in SlotsOf[p] /\ s \in Nat
      BY <1>1, <2>2, ToolAssumption DEF PhaseOk
    <2>4. s \notin SlowCards => s \in Cards /\ node[s] = t.before
      BY <1>1, <2>2, <2>3 DEF LoadOk
    <2> DEFINE t2 == [t EXCEPT !.pc = goal, !.before = Absent, !.seen = TRUE]
               v == Enter(goal, s)
    <2> HIDE DEF t, w, i
    <2>5. v = [pc |-> "exists", goal |-> goal, slot |-> s, tries |-> 0, ids |-> Absent]
      BY EnterIs
    <2>6. t2 \in Tools /\ t2.opt = t.opt /\ t2.cmd = t.cmd /\ t2.pc = goal
      BY <1>1 DEF Tools
    <2>7. Syncs(t2) /\ Target(t2) = i
      BY <2>3, <2>6 DEF Syncs, Target, i
    <2>8. v \in Walks /\ v.pc = "exists" /\ v.goal = goal /\ v.slot = s /\ v.tries = 0
      BY <1>1, <2>3, <2>5 DEF Walks
    <2>9. tool' = [tool EXCEPT ![p] = t2] /\ walk' = [walk EXCEPT ![p] = v]
      BY <2>1
    <2> HIDE DEF t2, v
    <2>10. PhaseOk(p, t2, v)
      BY <1>1, <2>3, <2>6, <2>7, <2>8 DEF PhaseOk
    <2>11. WalkOk(v, node)
      BY <2>8 DEF WalkOk
    <2>12. LoadOk(t2, v, node, image)
      BY <2>1, <2>2, <2>4, <2>6, <2>7, <2>8 DEF LoadOk
    <2> QED BY <2>2, <2>6, <2>8, <2>9, <2>10, <2>11, <2>12, HostStep
  <1>3. CASE Describe(p)
    <2>1. /\ t.pc = "attach" /\ t.cmd = "describe" /\ UNCHANGED <<image, node>>
          /\ Call(p, "rescan", "rescan") \/ Call(p, "show", "spec")
      BY <1>3 DEF Describe, Done, At
    <2>2. ~Syncs(t)
      BY <2>1 DEF Syncs
    <2>3. t.cmd \notin {"none", "slots"} /\ s \in t.opt.named
      BY <1>1, <2>1 DEF PhaseOk
    <2>4. CASE Call(p, "rescan", "rescan")
      BY <2>1, <2>2, <2>3, <2>4, CallKeeps
    <2>5. CASE Call(p, "show", "spec")
      BY <2>1, <2>2, <2>3, <2>5, CallKeeps
    <2> QED BY <2>1, <2>4, <2>5
  <1>4. CASE Done(p, "rescan") /\ Call(p, IF IsSync(p) THEN "spec" ELSE "show", "spec")
             /\ UNCHANGED <<image, node>>
    <2>1. t.pc = "rescan" /\ w.pc = "done"
      BY <1>4 DEF Done, At
    <2>2. t.cmd \notin {"none", "slots"} /\ s \in t.opt.named /\ w.goal = "check"
      BY <1>1, <2>1 DEF PhaseOk
    <2>3. Syncs(t) /\ s \notin SlowCards =>
              s \in Cards /\ image[s] = Settled(i) /\ node[s] = Ids[i]
      BY <1>1, <2>1, <2>2 DEF LoadOk
    <2>4. CASE Syncs(t)
      <3>1. Call(p, "spec", "spec")
        BY <1>1, <1>4, <2>4
      <3> QED BY <1>4, <2>2, <2>3, <2>4, <3>1, CallKeeps
    <2>5. CASE ~Syncs(t)
      <3>1. Call(p, "show", "spec")
        BY <1>1, <1>4, <2>5
      <3> QED BY <1>4, <2>2, <2>5, <3>1, CallKeeps
    <2> QED BY <2>4, <2>5
  <1>5. CASE Done(p, "spec") /\ Call(p, "show", "spec") /\ UNCHANGED <<image, node>>
    <2>1. t.pc = "spec" /\ w.pc = "done"
      BY <1>5 DEF Done, At
    <2>2. t.cmd \notin {"none", "slots"} /\ s \in t.opt.named /\ Syncs(t)
      BY <1>1, <2>1 DEF PhaseOk
    <2>3. s \notin SlowCards => s \in Cards /\ node[s] = Ids[i] /\ node[s] # Absent
      <3>1. s \notin SlowCards => s \in Cards /\ node[s] = Ids[i]
        BY <1>1, <2>1, <2>2 DEF LoadOk
      <3>2. w.goal = "spec" /\ w.slot = s
        BY <1>1, <2>1 DEF PhaseOk
      <3>3. s \notin SlowCards => node[s] # Absent
        BY <1>1, <2>1, <3>2 DEF WalkOk
      <3> QED BY <3>1, <3>3
    <2> QED BY <1>5, <2>2, <2>3, CallKeeps
  <1>6. CASE Unseen(p)
    <2>1. t.pc = "poll" /\ Call(p, "show", "spec") /\ UNCHANGED <<image, node>>
      BY <1>6 DEF Unseen, At
    <2>2. t.cmd \notin {"none", "slots"} /\ s \in t.opt.named /\ Syncs(t) /\ ~t.seen
      BY <1>1, <2>1 DEF PhaseOk
    <2>3. s \notin SlowCards => s \in Cards /\ node[s] # Absent
      BY <1>1, <2>1, <2>2 DEF LoadOk
    <2> QED BY <2>1, <2>2, <2>3, CallKeeps
  <1> QED BY <1>2, <1>3, <1>4, <1>5, <1>6 DEF LookAgain

\* What is printed was read from the device of the slot, which has not changed.
LEMMA ShowKeeps ==
    ASSUME ToolInv, NEW p \in Proc, Show(p)
    PROVE  ToolInv'
  <1> DEFINE w == walk[p]  t == tool[p]
             o == [t.opt EXCEPT !.named = {}]
             t2 == [t EXCEPT !.pc = "off", !.ret = "ok", !.before = Absent, !.opt = o,
                             !.shown = w.ids]
  <1>1. /\ w \in Walks /\ t \in Tools /\ PhaseOk(p, t, w) /\ WalkOk(w, node)
        /\ LoadOk(t, w, node, image) /\ NoWalk \in Walks /\ WalkOk(NoWalk, node)
        /\ Absent \in Shown
    BY RunFacts DEF WalkOk, NoWalk
  <1>2. /\ t.pc = "show" /\ w.pc = "done" /\ tool' = [tool EXCEPT ![p] = t2]
        /\ walk' = [walk EXCEPT ![p] = NoWalk] /\ UNCHANGED <<image, node>>
    BY DEF Show, Done, At
  <1>3. w.ids \in Shown
    BY <1>1 DEF Walks
  <1> HIDE DEF t, w
  <1>4. /\ o \in Forms(0..(SlotMax - 1)) /\ o.slot = t.opt.slot /\ o.afi = t.opt.afi
        /\ o.async = t.opt.async
    <2>1. t.opt \in Forms(0..(SlotMax - 1))
      BY <1>1 DEF Tools
    <2> QED BY <2>1 DEF Forms
  <1> HIDE DEF o
  <1>5. /\ t2 \in Tools /\ t2.opt = o /\ t2.cmd = t.cmd /\ t2.pc = "off" /\ t2.ret = "ok"
        /\ t2.shown = w.ids /\ t2.seen = t.seen
    BY <1>1, <1>3, <1>4 DEF Tools
  <1> HIDE DEF t2
  <1>6. Syncs(t2) = Syncs(t) /\ Target(t2) = Target(t)
    BY <1>4, <1>5 DEF Syncs, Target
  <1>7. w.goal = "spec" /\ w.slot = t.opt.slot
    BY <1>1, <1>2 DEF PhaseOk
  <1>8. w.slot \notin SlowCards => w.ids = node[w.slot] /\ node[w.slot] # Absent
    BY <1>1, <1>2, <1>7 DEF WalkOk
  <1>9. Syncs(t) /\ t.opt.slot \notin SlowCards =>
            t.opt.slot \in Cards /\ (t.seen => node[t.opt.slot] = Ids[Target(t)])
    BY <1>1, <1>2 DEF LoadOk
  <1>10. PhaseOk(p, t2, NoWalk)
    BY <1>1, <1>4, <1>5 DEF PhaseOk, NoWalk
  <1>11. LoadOk(t2, NoWalk, node, image)
    BY <1>4, <1>5, <1>6, <1>7, <1>8, <1>9 DEF LoadOk
  <1> QED BY <1>1, <1>2, <1>5, <1>10, <1>11, HostStep

\* The shell ends a load: whose card it is has settled nothing yet.
LEMMA SettleKeeps ==
    ASSUME ToolInv, NEW c \in Cards, Settle(c)
    PROVE  ToolInv'
  <1>1. PICK i \in {image[c].next, Cleared} :
             image' = [image EXCEPT ![c] = [cur |-> i, next |-> NoImage]]
    BY DEF Settle
  <1>2. image[c].next # NoImage /\ UNCHANGED <<node, walk, tool>>
    BY DEF Settle
  <1>3. image \in [Cards -> [cur : Images \cup {Cleared}, next : Images \cup {Cleared, NoImage}]]
    BY DEF ToolInv, TypeInv
  <1>4. /\ image' \in [Cards -> [cur : Images \cup {Cleared},
                                 next : Images \cup {Cleared, NoImage}]]
        /\ \A d \in Cards : image'[d] = image[d] \/ image[d].next # NoImage
    BY <1>1, <1>2, <1>3
  <1>5. TypeInv'
    BY <1>2, <1>4 DEF ToolInv, TypeInv, Shown
  <1>6. ASSUME NEW q \in Proc
        PROVE  WalkOk(walk[q], node) /\ LoadOk(tool[q], walk[q], node, image')
               /\ PhaseOk(q, tool[q], walk[q])
    <2>1. Gentle(SlotsOf[q], node, node, image, image')
      BY <1>4 DEF Gentle
    <2> QED BY <2>1, RunFacts, GentleKeeps
  <1> QED BY <1>2, <1>5, <1>6 DEF ToolInv

\* A slow driver is done: of its card nothing is claimed.
LEMMA GoneKeeps ==
    ASSUME ToolInv, NEW c \in SlowCards, Gone(c), UNCHANGED tool
    PROVE  ToolInv'
  <1>1. node' = [node EXCEPT ![c] = Absent] /\ UNCHANGED <<image, walk>>
    BY DEF Gone
  <1>2. node \in [Cards -> Shown] /\ Absent \in Shown
    BY DEF ToolInv, TypeInv, Shown
  <1>3. node' \in [Cards -> Shown] /\ \A d \in Cards \ SlowCards : node'[d] = node[d]
    BY <1>1, <1>2
  <1>4. TypeInv'
    BY <1>1, <1>3 DEF ToolInv, TypeInv, Shown
  <1>5. ASSUME NEW q \in Proc
        PROVE  WalkOk(walk[q], node') /\ LoadOk(tool[q], walk[q], node', image)
               /\ PhaseOk(q, tool[q], walk[q])
    <2>1. Gentle(SlotsOf[q], node, node', image, image)
      BY <1>3 DEF Gentle
    <2> QED BY <2>1, RunFacts, GentleKeeps
  <1> QED BY <1>1, <1>4, <1>5 DEF ToolInv

----------------------------------------------------------------------------
(* The theorems.                                                           *)

\* Every step keeps the invariant.
LEMMA ToolStep == ToolInv /\ [Next]_vars => ToolInv'
  <1> SUFFICES ASSUME ToolInv, [Next]_vars PROVE ToolInv'
    OBVIOUS
  <1>1. ASSUME NEW p \in Proc, Start(p) PROVE ToolInv'
    BY <1>1, StartKeeps
  <1>2. ASSUME NEW p \in Proc, Walk(p), UNCHANGED tool PROVE ToolInv'
    BY <1>2, LookUpKeeps, RescanKeeps DEF Walk
  <1>3. ASSUME NEW p \in Proc, Failed(p) \/ Fails(p) \/ Simple(p) \/ Kill(p) PROVE ToolInv'
    BY <1>3, EndKeeps
  <1>4. ASSUME NEW p \in Proc, Serve(p) \/ Before(p) PROVE ToolInv'
    BY <1>4, UpToLoadKeeps
  <1>5. ASSUME NEW p \in Proc, Load(p) PROVE ToolInv'
    BY <1>5, LoadKeeps
  <1>6. ASSUME NEW p \in Proc, Loaded(p) \/ Unseen(p) \/ Describe(p) \/ LookAgain(p) PROVE ToolInv'
    BY <1>6, AfterLoadKeeps
  <1>7. ASSUME NEW p \in Proc, Show(p) PROVE ToolInv'
    BY <1>7, ShowKeeps
  <1>8. ASSUME NEW c \in Cards, Settle(c) PROVE ToolInv'
    BY <1>8, SettleKeeps
  <1>9. ASSUME NEW c \in SlowCards, Gone(c), UNCHANGED tool PROVE ToolInv'
    BY <1>9, GoneKeeps
  <1>10. CASE UNCHANGED vars
    BY <1>10 DEF vars, sysVars, ToolInv, TypeInv, Shown
  <1> QED BY <1>1, <1>2, <1>3, <1>4, <1>5, <1>6, <1>7, <1>8, <1>9, <1>10 DEF Next, Run

\* Hence it always holds.
LEMMA ToolInvariant == Spec => []ToolInv
  <1> QED BY ToolInit, ToolStep, PTL DEF Spec

\* No slot is touched that the command line did not name, however many options
\* it had and whatever could not be read: SetSlot leaves the slot alone when
\* string_to_uint fails, and the parsers refuse a slot that is still unset.
THEOREM NamedSlotsOnly == Spec => []OnlyNamedSlots
  <1>1. ToolInv => OnlyNamedSlots
    BY RunFacts DEF OnlyNamedSlots, PhaseOk, At, Slots, Opt
  <1> QED BY <1>1, ToolInvariant, PTL

\* No tool misses the PF of its own slot, whatever the other processes remove and
\* rescan and whichever access to sysfs failed or was cut short before, as soon
\* as fpga_pci_check_app_pf_sysfs tries at all: the code's
\* FPGA_CHECK_APP_PF_MAX_RETRIES is 3.
THEOREM OwnPfIsFound ==
    ASSUME MaxRetries > 0
    PROVE  Spec => []OwnSlotFound
  <1>1. ToolInv => OwnSlotFound
    BY RunFacts DEF OwnSlotFound, LoadOk, At
  <1> QED BY <1>1, ToolInvariant, PTL

\* A synchronous load or clear that succeeds has printed the ids in sysfs, and if
\* the library saw the load end they are those of the image it was asked for,
\* whatever the others do.
THEOREM LoadShowsItsImage == Spec => []ShowsTheImage
  <1>1. ToolInv => ShowsTheImage
    <2> SUFFICES ASSUME ToolInv, NEW p \in Proc, At(p, "off"), tool[p].ret = "ok",
                        IsSync(p), Slots(p) \notin SlowCards
                 PROVE  /\ tool[p].shown = node[Slots(p)]
                        /\ tool[p].seen => tool[p].shown = Ids[Wanted(p)]
      BY DEF ShowsTheImage
    <2> QED BY RunFacts DEF LoadOk, At
  <1> QED BY <1>1, ToolInvariant, PTL

----------------------------------------------------------------------------
(* Every tool runs down.                                                   *)

\* fpga_pci_check_app_pf_sysfs asks for a rescan only while it may look again.
AgainInv == \A q \in Proc : walk[q].pc = "again" => walk[q].tries < MaxRetries

\* What is left of a limit when a counter goes up.
LEMMA CountsUp ==
    ASSUME NEW m \in Nat, NEW h \in Nat, NEW g \in Nat, g < h, h <= m
    PROVE  0 <= m - h /\ m - h < m - g
  OBVIOUS

\* Rank at work: what a step may do to the places, the card and the retries.
LEMMA RankBelow ==
    ASSUME NEW t \in Tools, NEW w \in Walks, NEW t2 \in Tools, NEW w2 \in Walks,
           \/ Place[t2.pc] < Place[t.pc]
           \/ t2.pc = t.pc /\ w.goal # "check" /\ w2.goal = "check"
           \/ /\ t2.pc = t.pc /\ w.goal = "all" /\ w2.goal = "all"
              /\ w2.slot = w.slot + 1 /\ w2.slot \in Cards
           \/ /\ t2.pc = t.pc /\ w2.goal = w.goal /\ w2.slot = w.slot
              /\ WalkPlace[w2.pc] < WalkPlace[w.pc]
           \/ /\ t2.pc = t.pc /\ w2.goal = w.goal /\ w2.slot = w.slot
              /\ WalkPlace[w2.pc] = WalkPlace[w.pc]
              /\ w.tries < w2.tries /\ w2.tries <= MaxRetries
           \/ /\ t2.pc = t.pc /\ w2.goal = w.goal /\ w2.slot = w.slot /\ w2.tries = w.tries
              /\ w.pc = "exists" /\ w2.pc = "again"
    PROVE  Below(Rank(t2, w2), Rank(t, w))
  <1> DEFINE g(u) == IF u.goal = "check" THEN 0 ELSE 1
             e(u) == IF u.pc = "exists" THEN 1 ELSE 0
             a1 == Place[t2.pc]   b1 == Place[t.pc]
             a2 == g(w2)          b2 == g(w)
             a3 == CardsLeft(w2)  b3 == CardsLeft(w)
             a4 == WalkPlace[w2.pc]  b4 == WalkPlace[w.pc]
             a5 == MaxRetries - w2.tries  b5 == MaxRetries - w.tries
             a6 == e(w2)          b6 == e(w)
  <1>1. /\ a1 \in Nat /\ b1 \in Nat /\ a2 \in Nat /\ b2 \in Nat
        /\ a4 \in Nat /\ b4 \in Nat /\ a6 \in Nat /\ b6 \in Nat
    BY DEF Tools, Walks, Place, WalkPlace
  <1>2. /\ w.tries \in Nat /\ w2.tries \in Nat /\ w.slot \in Nat /\ w2.slot \in Nat
        /\ MaxRetries \in Nat /\ LastCard \in Nat /\ Cards = 0..LastCard
    BY AppPfAssumption DEF Walks
  <1>3. a3 \in Int /\ b3 \in Int /\ a5 \in Int /\ b5 \in Int
    BY <1>2 DEF CardsLeft
  <1>4. w.tries < w2.tries /\ w2.tries <= MaxRetries => 0 <= a5 /\ a5 < b5
    BY <1>2, CountsUp
  <1>5. /\ w2.tries = w.tries => a5 = b5
        /\ w2.goal = w.goal => a2 = b2
        /\ w2.goal = w.goal /\ w2.slot = w.slot => a3 = b3
        /\ w.goal # "check" /\ w2.goal = "check" => a2 < b2
        /\ w.pc = "exists" /\ w2.pc = "again" => a6 < b6 /\ a4 = b4
    BY DEF CardsLeft, WalkPlace
  <1>6. w.goal = "all" /\ w2.goal = "all" /\ w2.slot = w.slot + 1 /\ w2.slot \in Cards
            => 0 <= a3 /\ a3 < b3
    BY <1>2 DEF CardsLeft
  <1>7. t2.pc = t.pc => a1 = b1
    OBVIOUS
  <1>8. Rank(t2, w2) = <<a1, a2, a3, a4, a5, a6>> /\ Rank(t, w) = <<b1, b2, b3, b4, b5, b6>>
    BY DEF Rank
  <1>9. \/ a1 < b1
        \/ a1 = b1 /\ a2 < b2
        \/ a1 = b1 /\ a2 = b2 /\ 0 <= a3 /\ a3 < b3
        \/ a1 = b1 /\ a2 = b2 /\ a3 = b3 /\ a4 < b4
        \/ a1 = b1 /\ a2 = b2 /\ a3 = b3 /\ a4 = b4 /\ 0 <= a5 /\ a5 < b5
        \/ a1 = b1 /\ a2 = b2 /\ a3 = b3 /\ a4 = b4 /\ a5 = b5 /\ a6 < b6
    BY <1>4, <1>5, <1>6, <1>7
  <1> HIDE DEF a1, a2, a3, a4, a5, a6, b1, b2, b3, b4, b5, b6
  <1> DEFINE r == <<a1, a2, a3, a4, a5, a6>>
             s == <<b1, b2, b3, b4, b5, b6>>
             Falls(i) == r[i] \in 0..(s[i] - 1) /\ \A j \in 1..(i - 1) : r[j] = s[j]
  <1>10. DOMAIN s = 1..6
    OBVIOUS
  <1>11. Falls(1) \/ Falls(2) \/ Falls(3) \/ Falls(4) \/ Falls(5) \/ Falls(6)
    BY <1>1, <1>3, <1>9
  <1>12. \E i \in DOMAIN s : Falls(i)
    <2> HIDE DEF Falls, s
    <2> QED BY <1>10, <1>11
  <1> QED BY <1>8, <1>12 DEF Below

\* A step of one process leaves the tools and the calls of the others alone.
LEMMA OthersRest ==
    ASSUME ToolInv, NEW q \in Proc, Start(q) \/ Run(q) \/ Kill(q), NEW p \in Proc, p # q
    PROVE  UNCHANGED <<tool[p], walk[p]>>
  <1>1. tool \in [Proc -> Tools] /\ walk \in [Proc -> Walks]
    BY DEF ToolInv, TypeInv
  <1>2. CASE Start(q)
    BY <1>1, <1>2 DEF Start, End
  <1>3. CASE Walk(q) /\ UNCHANGED tool
    BY <1>1, <1>3 DEF Walk, Exists, Missing, Recover, ReadIds, Resources, RemovePf, Rescan,
                       Step, IoError
  <1>4. CASE Failed(q) \/ Fails(q) \/ Simple(q) \/ Kill(q) \/ Show(q)
    BY <1>1, <1>4 DEF Failed, Fails, Simple, Kill, Show, End
  <1>5. CASE \/ Serve(q) \/ Before(q) \/ Load(q) \/ Loaded(q) \/ Unseen(q) \/ Describe(q)
             \/ LookAgain(q)
    BY <1>1, <1>5 DEF Serve, Before, Load, Loaded, Unseen, Describe, LookAgain, Goto, Call, End
  <1> QED BY <1>2, <1>3, <1>4, <1>5 DEF Run

\* A step of the PCI library.
LEMMA WalkRunsDown ==
    ASSUME ToolInv, ToolInv', AgainInv, NEW p \in Proc, Walk(p), UNCHANGED tool
    PROVE  /\ Below(Rank(tool[p], walk[p])', Rank(tool[p], walk[p]))
           /\ walk'[p].pc = "again" => walk'[p].tries < MaxRetries
  <1> DEFINE w == walk[p]  w2 == walk'[p]  t == tool[p]  t2 == tool'[p]
             Nearer == \/ w.goal # "check" /\ w2.goal = "check"
                       \/ /\ w.goal = "all" /\ w2.goal = "all"
                          /\ w2.slot = w.slot + 1 /\ w2.slot \in Cards
                       \/ /\ w2.goal = w.goal /\ w2.slot = w.slot
                          /\ WalkPlace[w2.pc] < WalkPlace[w.pc]
                       \/ /\ w2.goal = w.goal /\ w2.slot = w.slot
                          /\ WalkPlace[w2.pc] = WalkPlace[w.pc]
                          /\ w.tries < w2.tries /\ w2.tries <= MaxRetries
                       \/ /\ w2.goal = w.goal /\ w2.slot = w.slot /\ w2.tries = w.tries
                          /\ w.pc = "exists" /\ w2.pc = "again"
             Looks == w2.pc = "again" => w2.tries < MaxRetries
  <1>1. /\ w \in Walks /\ w2 \in Walks /\ t \in Tools /\ t2 \in Tools /\ PhaseOk(p, t, w)
        /\ walk \in [Proc -> Walks] /\ t2 = t
    BY DEF ToolInv, TypeInv
  <1>2. w.tries \in Nat /\ w.slot \in Nat /\ MaxRetries \in Nat
    BY <1>1, AppPfAssumption DEF Walks
  <1>3. w.pc = "again" => w.tries < MaxRetries
    BY DEF AgainInv
  <1>4. Nearer /\ Looks
    <2>1. CASE Exists(p)
      <3>1. /\ w.pc = "exists"
            /\ w2 = [w EXCEPT !.tries = 0, !.pc = IF w.goal = "check" THEN "done" ELSE "ids"]
        BY <1>1, <2>1 DEF Exists, Step
      <3> HIDE DEF w, w2
      <3> QED BY <1>1, <3>1 DEF Walks, WalkPlace
    <2>2. CASE Missing(p)
      <3>1. /\ w.pc = "exists"
            /\ w2 = [w EXCEPT !.pc = IF w.tries >= MaxRetries THEN "failed" ELSE "again"]
        BY <1>1, <2>2 DEF Missing, Step
      <3> HIDE DEF w, w2
      <3> QED BY <1>1, <1>2, <3>1 DEF Walks, WalkPlace
    <2>3. CASE Recover(p) /\ ~IoError(p, "again")
      <3>1. w.pc = "again" /\ w2 = [w EXCEPT !.pc = "exists", !.tries = w.tries + 1]
        BY <1>1, <2>3 DEF Recover, Step
      <3> HIDE DEF w, w2
      <3> QED BY <1>1, <1>2, <1>3, <3>1 DEF Walks, WalkPlace
    <2>4. CASE ReadIds(p)
      <3>1. /\ w.pc = "ids"
            /\ \/ w2 = [w EXCEPT !.pc = "res", !.ids = node[w.slot]]
               \/ w2 = [w EXCEPT !.pc = IF Present(w.slot) THEN "ioerror" ELSE "failed"]
               \/ w.tries < MaxRetries /\ w2 = [w EXCEPT !.tries = w.tries + 1]
        BY <1>1, <2>4 DEF ReadIds, Step
      <3> HIDE DEF w, w2
      <3>2. CASE w2 = [w EXCEPT !.pc = "res", !.ids = node[w.slot]]
        <4>1. w2.pc = "res" /\ w2.goal = w.goal /\ w2.slot = w.slot
          BY <1>1, <3>2 DEF Walks
        <4> QED BY <3>1, <4>1 DEF WalkPlace
      <3>3. CASE w2 = [w EXCEPT !.pc = IF Present(w.slot) THEN "ioerror" ELSE "failed"]
        <4>1. w2.pc \in {"ioerror", "failed"} /\ w2.goal = w.goal /\ w2.slot = w.slot
          BY <1>1, <3>3 DEF Walks
        <4> QED BY <3>1, <4>1 DEF WalkPlace
      <3>4. CASE w.tries < MaxRetries /\ w2 = [w EXCEPT !.tries = w.tries + 1]
        <4>1. /\ w2.pc = "ids" /\ w2.goal = w.goal /\ w2.slot = w.slot
              /\ w2.tries = w.tries + 1
          BY <1>1, <3>1, <3>4 DEF Walks
        <4> QED BY <1>2, <3>1, <3>4, <4>1 DEF WalkPlace
      <3> QED BY <3>1, <3>2, <3>3, <3>4
    <2>5. CASE Resources(p) /\ ~IoError(p, "res")
      <3>1. /\ w.pc = "res"
            /\ \/ /\ w.goal = "all" /\ w.slot + 1 \in Cards
                  /\ w2 = Enter("all", w.slot + 1)
               \/ w2 = [w EXCEPT !.pc = "failed"]
               \/ w2 = [w EXCEPT !.pc = IF w.goal = "rescan" THEN "remove" ELSE "done",
                                 !.tries = 0]
        BY <1>1, <2>5 DEF Resources, Step, SpecDone
      <3>2. Enter("all", w.slot + 1) = [pc |-> "exists", goal |-> "all",
                                        slot |-> w.slot + 1, tries |-> 0, ids |-> Absent]
        BY EnterIs
      <3> HIDE DEF w, w2
      <3>3. CASE w.goal = "all" /\ w.slot + 1 \in Cards /\ w2 = Enter("all", w.slot + 1)
        BY <3>2, <3>3
      <3>4. CASE w2 = [w EXCEPT !.pc = "failed"]
        <4>1. w2.pc = "failed" /\ w2.goal = w.goal /\ w2.slot = w.slot
          BY <1>1, <3>4 DEF Walks
        <4> QED BY <3>1, <4>1 DEF WalkPlace
      <3>5. CASE w2 = [w EXCEPT !.pc = IF w.goal = "rescan" THEN "remove" ELSE "done",
                                !.tries = 0]
        <4>1. w2.pc \in {"remove", "done"} /\ w2.goal = w.goal /\ w2.slot = w.slot
          BY <1>1, <3>5 DEF Walks
        <4> QED BY <3>1, <4>1 DEF WalkPlace
      <3> QED BY <3>1, <3>3, <3>4, <3>5
    <2>6. CASE RemovePf(p) /\ ~IoError(p, "remove")
      <3>1. /\ w.pc = "remove"
            /\ w2 = [w EXCEPT !.pc = IF Present(w.slot) THEN "rescan" ELSE "failed"]
        BY <1>1, <2>6 DEF RemovePf, Step
      <3> HIDE DEF w, w2
      <3> QED BY <1>1, <3>1 DEF Walks, WalkPlace
    <2>7. CASE Rescan(p) /\ ~IoError(p, "rescan")
      <3>1. w.pc = "rescan" /\ w2 = Enter("check", w.slot)
        BY <1>1, <2>7 DEF Rescan, Step
      <3>2. w2.pc = "exists" /\ w2.goal = "check"
        BY <3>1, EnterIs
      <3>3. w.goal = "rescan"
        BY <1>1, <3>1 DEF PhaseOk
      <3> HIDE DEF w, w2
      <3> QED BY <3>2, <3>3
    <2>8. CASE \E from \in {"again", "res", "remove", "rescan"} : IoError(p, from)
      <3>1. w.pc \in {"again", "res", "remove", "rescan"} /\ w2 = [w EXCEPT !.pc = "ioerror"]
        BY <1>1, <2>8 DEF IoError, Step
      <3> HIDE DEF w, w2
      <3> QED BY <1>1, <3>1 DEF Walks, WalkPlace
    <2> QED BY <2>1, <2>2, <2>3, <2>4, <2>5, <2>6, <2>7, <2>8 DEF Walk
  <1> HIDE DEF w, w2, t, t2
  <1>5. Below(Rank(t2, w2), Rank(t, w))
    BY <1>1, <1>4, RankBelow
  <1> QED BY <1>4, <1>5 DEF w, w2, t, t2

\* A tool that ends is in no call.
LEMMA EndEnds ==
    ASSUME ToolInv, NEW p \in Proc, NEW ret \in {"none", "fail", "ok"}, End(p, ret)
    PROVE  tool'[p].pc = "off" /\ walk'[p] = NoWalk
  <1>1. tool \in [Proc -> Tools] /\ walk \in [Proc -> Walks]
    BY DEF ToolInv, TypeInv
  <1> QED BY <1>1, OffIs DEF End

\* A step of the tool itself ends it or takes it to a later place.
LEMMA RunRunsDown ==
    ASSUME ToolInv, ToolInv', NEW p \in Proc, ~At(p, "off"),
           \/ Failed(p) \/ Fails(p) \/ Simple(p) \/ Serve(p) \/ Before(p) \/ Load(p)
           \/ Loaded(p) \/ Unseen(p) \/ Describe(p) \/ LookAgain(p) \/ Show(p) \/ Kill(p)
    PROVE  /\ \/ At(p, "off")'
              \/ Below(Rank(tool[p], walk[p])', Rank(tool[p], walk[p]))
           /\ walk'[p].pc # "again"
  <1> DEFINE w == walk[p]  w2 == walk'[p]  t == tool[p]  t2 == tool'[p]
  <1>1. /\ w \in Walks /\ w2 \in Walks /\ t \in Tools /\ t2 \in Tools
        /\ tool \in [Proc -> Tools] /\ walk \in [Proc -> Walks]
    BY DEF ToolInv, TypeInv
  <1>2. (t2.pc = "off" \/ Place[t2.pc] < Place[t.pc]) /\ w2.pc \in {"idle", "exists"}
    <2>1. CASE \E ret \in {"none", "fail", "ok"} : End(p, ret)
      BY <2>1, EndEnds DEF NoWalk
    <2>2. CASE /\ tool' = [tool EXCEPT ![p] = [Off EXCEPT !.ret = "missing", !.opt.slot = Slots(p)]]
               /\ walk' = [walk EXCEPT ![p] = NoWalk]
      <3>1. t2.pc = "off" /\ w2 = NoWalk
        BY <1>1, <2>2 DEF Off
      <3> QED BY <3>1 DEF NoWalk
    <2>3. CASE Show(p)
      <3> DEFINE o == [t.opt EXCEPT !.named = {}]
                 u == [t EXCEPT !.pc = "off", !.ret = "ok", !.before = Absent, !.opt = o,
                                !.shown = w.ids]
      <3>1. tool' = [tool EXCEPT ![p] = u] /\ walk' = [walk EXCEPT ![p] = NoWalk]
        BY <2>3 DEF Show
      <3>2. u.pc = "off"
        <4> HIDE DEF t, o
        <4> QED BY <1>1 DEF Tools
      <3> HIDE DEF u
      <3> QED BY <1>1, <3>1, <3>2 DEF NoWalk
    <2>4. CASE Serve(p)
      <3>1. t.pc = "attach" /\ t2.pc = "serve" /\ w2 = NoWalk
        BY <1>1, <2>4 DEF Serve, Goto, Done, At, Tools
      <3> QED BY <3>1 DEF Place, NoWalk
    <2>5. CASE Before(p)
      <3>1. /\ \/ t.pc = "attach" /\ t2.pc \in {"before", "load"}
               \/ t.pc = "before" /\ t2.pc = "load"
            /\ w2.pc \in {"idle", "exists"}
        BY <1>1, <2>5, EnterIs DEF Before, Goto, Call, Done, At, Tools, NoWalk
      <3> QED BY <3>1 DEF Place
    <2>6. CASE Load(p)
      <3>1. CASE End(p, "ok")
        BY <3>1, EndEnds DEF NoWalk
      <3>2. CASE Goto(p, "poll")
        <4>1. t.pc = "load" /\ t2.pc = "poll" /\ w2 = NoWalk
          BY <1>1, <2>6, <3>2 DEF Load, Goto, At, Tools
        <4> QED BY <4>1 DEF Place, NoWalk
      <3> QED BY <2>6, <3>1, <3>2 DEF Load
    <2>7. CASE Loaded(p)
      <3> DEFINE u(goal) == [t EXCEPT !.pc = goal, !.before = Absent, !.seen = TRUE]
      <3>1. PICK goal \in {"rescan", "spec"} : tool' = [tool EXCEPT ![p] = u(goal)]
                                             /\ walk' = [walk EXCEPT ![p] = Enter(goal, Slots(p))]
        BY <2>7 DEF Loaded
      <3>2. u(goal).pc = goal
        <4> HIDE DEF t
        <4> QED BY <1>1 DEF Tools
      <3>3. Enter(goal, Slots(p)).pc = "exists"
        BY EnterIs
      <3>4. t.pc = "poll"
        BY <2>7 DEF Loaded, At
      <3> HIDE DEF u
      <3>5. t2.pc = goal /\ w2.pc = "exists"
        BY <1>1, <3>1, <3>2, <3>3
      <3> QED BY <3>4, <3>5 DEF Place
    <2>10. CASE Unseen(p)
      <3>1. t.pc = "poll" /\ t2.pc = "show" /\ w2.pc = "exists"
        BY <1>1, <2>10, EnterIs DEF Unseen, Call, At, Tools
      <3> QED BY <3>1 DEF Place
    <2>8. CASE Describe(p)
      <3>1. t.pc = "attach" /\ t2.pc \in {"rescan", "show"} /\ w2.pc = "exists"
        BY <1>1, <2>8, EnterIs DEF Describe, Call, Done, At, Tools
      <3> QED BY <3>1 DEF Place
    <2>9. CASE LookAgain(p)
      <3>1. /\ \/ t.pc = "rescan" /\ t2.pc \in {"spec", "show"}
               \/ t.pc = "spec" /\ t2.pc = "show"
            /\ w2.pc = "exists"
        BY <1>1, <2>9, EnterIs DEF LookAgain, Call, Done, At, Tools
      <3> QED BY <3>1 DEF Place
    <2> QED BY <2>1, <2>2, <2>3, <2>4, <2>5, <2>6, <2>7, <2>8, <2>9, <2>10
            DEF Failed, Fails, Simple, Kill
  <1> HIDE DEF w, w2, t, t2
  <1>3. t2.pc = "off" \/ Below(Rank(t2, w2), Rank(t, w))
    BY <1>1, <1>2, RankBelow
  <1> QED BY <1>2, <1>3 DEF At, w, w2, t, t2

LEMMA AgainInit == Init => AgainInv
  BY DEF Init, SysInit, NoWalk, AgainInv

LEMMA AgainStep == ToolInv /\ ToolInv' /\ AgainInv /\ [Next]_vars => AgainInv'
  <1> SUFFICES ASSUME ToolInv, ToolInv', AgainInv, [Next]_vars, NEW q \in Proc,
                      walk'[q].pc = "again"
               PROVE  walk'[q].tries < MaxRetries
    BY DEF AgainInv
  <1>1. walk \in [Proc -> Walks] /\ (walk[q].pc = "again" => walk[q].tries < MaxRetries)
    BY DEF ToolInv, TypeInv, AgainInv
  <1>2. CASE UNCHANGED walk[q]
    BY <1>1, <1>2
  <1>3. CASE Walk(q) /\ UNCHANGED tool
    BY <1>3, WalkRunsDown
  <1>4. CASE Start(q)
    BY <1>1, <1>4, EnterIs DEF Start, End, NoWalk
  <1>5. CASE \/ Failed(q) \/ Fails(q) \/ Simple(q) \/ Serve(q) \/ Before(q) \/ Load(q)
             \/ Loaded(q) \/ Unseen(q) \/ Describe(q) \/ LookAgain(q) \/ Show(q) \/ Kill(q)
    <2>1. At(q, "off") => Kill(q) = FALSE /\ walk[q].pc = "idle"
      BY DEF Kill, ToolInv, PhaseOk, At, NoWalk
    <2>2. At(q, "off") => FALSE
      BY <1>5, <2>1 DEF Failed, Fails, Simple, Serve, Before, Load, Loaded, Unseen,
                        Describe, LookAgain, Show, Done, At
    <2> QED BY <1>5, <2>2, RunRunsDown
  <1>6. CASE \E p \in Proc : p # q /\ (Start(p) \/ Run(p) \/ Kill(p))
    BY <1>2, <1>6, OthersRest
  <1>7. CASE (\E c \in Cards : Settle(c) \/ Gone(c)) \/ UNCHANGED vars
    BY <1>2, <1>7 DEF Settle, Gone, vars, sysVars
  <1> QED BY <1>3, <1>4, <1>5, <1>6, <1>7, AppPfAssumption DEF Next, Run

LEMMA RunsDownStep ==
    ASSUME ToolInv, ToolInv', AgainInv, Next, NEW p \in Proc, ~At(p, "off")
    PROVE  \/ At(p, "off")'
           \/ Below(Rank(tool[p], walk[p])', Rank(tool[p], walk[p]))
           \/ UNCHANGED <<tool[p], walk[p]>>
  <1>1. CASE Walk(p) /\ UNCHANGED tool
    BY <1>1, WalkRunsDown
  <1>2. CASE \/ Failed(p) \/ Fails(p) \/ Simple(p) \/ Serve(p) \/ Before(p) \/ Load(p)
             \/ Loaded(p) \/ Unseen(p) \/ Describe(p) \/ LookAgain(p) \/ Show(p) \/ Kill(p)
    BY <1>2, RunRunsDown
  <1>3. CASE Start(p)
    BY <1>3 DEF Start
  <1>4. CASE \E q \in Proc : q # p /\ (Start(q) \/ Run(q) \/ Kill(q))
    BY <1>4, OthersRest
  <1>5. CASE \E c \in Cards : Settle(c) \/ (Gone(c) /\ UNCHANGED tool)
    BY <1>5 DEF Settle, Gone
  <1> QED BY <1>1, <1>2, <1>3, <1>4, <1>5, AppPfAssumption DEF Next, Run

\* Every step of a tool but its last lowers its rank, and no step of another tool
\* raises it: the retries of fpga_pci_check_app_pf_sysfs and fpga_pci_mbox2app are
\* bounded together, although the devices they wait for may come and go for ever.
THEOREM ToolsRunDown == Spec => ToolRunsDown
  <1>1. Init => AgainInv
    BY AgainInit
  <1>2. ToolInv /\ ToolInv' /\ AgainInv /\ [Next]_vars => AgainInv'
    BY AgainStep
  <1>3. ToolInv /\ ToolInv' /\ AgainInv /\ [Next]_vars =>
            [\A p \in Proc : ~At(p, "off") =>
                 \/ At(p, "off")'
                 \/ Below(Rank(tool[p], walk[p])', Rank(tool[p], walk[p]))
                 \/ UNCHANGED <<tool[p], walk[p]>>]_vars
    BY RunsDownStep
  <1> QED BY <1>1, <1>2, <1>3, ToolInvariant, PTL DEF Spec, ToolRunsDown

=============================================================================
