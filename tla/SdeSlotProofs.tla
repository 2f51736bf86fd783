----------------------------- MODULE SdeSlotProofs -----------------------------
(***************************************************************************)
(* SdeSlot for any number of descriptors, resources, initialisations and   *)
(* mappings of the application: an initialised slot has all its memory and *)
(* every BAR that the PCI library's table had room for, closing it frees   *)
(* what it owns and nothing of the application's, and a configured card    *)
(* knows no address but of memory that is still mapped.                    *)
(***************************************************************************)
EXTENDS SdeSlot, SequenceTheorems, NaturalsInduction, WellFoundedInduction,
        TLAPS

Kinds == {"free", "app", "map", "arr", "bar"}

\* What the slot's direction and layout use, and what the library has live.
Used == InSeq(InitFields(dir, layout))
LibLive == {i \in Ids : live[i] \notin {"free", "app"}}

Distinct(q) == \A j, k \in DOMAIN q : q[j] = q[k] => j = k

\* A BAR whose attach came to one of these.
Got(f, how) == \E i \in 1..3 : f = Bar(i) /\ got[i] \in how

TypeInv ==
    /\ live \in [Ids -> Kinds] /\ field \in [Fields -> Ids \cup {None}]
    /\ dir \in Examples /\ layout \in Layouts
    /\ todo \in Seq(Fields) /\ Distinct(todo)
    /\ pc \in {"closed", "failed", "open", "init"}
    /\ got \in [1..3 -> {"none", "good", "full", "failed"}]
    /\ ready \in {"no", "reset", "cfg"}
    /\ told \subseteq Ids /\ lost \subseteq Ids

\* What sde_mgmt_init still has to fill is empty, the rest is filled but for
\* the attaches that gave no handle.
InitInv == pc = "init" =>
    /\ InSeq(todo) \subseteq Used
    /\ \A f \in InSeq(todo) : field[f] = None
    /\ \A f \in Used \ InSeq(todo) :
           field[f] # None \/ Got(f, {"full", "failed"})

\* Until the slot is closed or its initialisation fails no address is stale
\* or shared.
WholeInv == pc \in {"init", "open"} =>
    /\ \A f \in Fields : field[f] # None => f \in Used /\ live[field[f]] = Kind(f)
    /\ \A f, g \in Fields : field[f] # None /\ field[f] = field[g] => f = g
    /\ lost \cap Owned = {}

OpenInv == pc = "open" =>
    hwInit /\ init /\ \A f \in Used : field[f] # None \/ Got(f, {"full"})

\* What the library has live is what the record knows and what was lost.
AccountInv ==
    /\ lost \subseteq LibLive /\ LibLive \subseteq lost \cup Owned
    /\ pc = "closed" => LibLive = lost

CardInv ==
    /\ ready # "no" => pc = "open"
    /\ ready = "reset" => told = {}
    /\ ready # "no" => field[Bar(1)] # None
    /\ ready = "cfg" => field[Bar(2)] # None
    /\ CardKnowsOurs

SlotInv == TypeInv /\ InitInv /\ WholeInv /\ OpenInv /\ AccountInv /\ CardInv

----------------------------------------------------------------------------
(* The fields.                                                             *)

\* Every field of the slot is of one of the kinds that close knows to free.
LEMMA FieldKinds ==
    ASSUME NEW f \in Fields
    PROVE  f[1] \in {"wb", "arr", "map", "bar"} /\ Kind(f) \in {"map", "arr", "bar"}
  BY DEF Fields, Kind, Wb, Arr, Buf, Bar

\* Two lists without a field in common make one without repetition.
LEMMA DistinctConcat ==
    ASSUME NEW p \in Seq(Fields), NEW q \in Seq(Fields), Distinct(p), Distinct(q),
           InSeq(p) \cap InSeq(q) = {}
    PROVE  /\ p \o q \in Seq(Fields) /\ Distinct(p \o q)
           /\ InSeq(p \o q) = InSeq(p) \cup InSeq(q)
  <1> DEFINE m == Len(p)  n == Len(q)  r == p \o q
  <1>1. /\ m \in Nat /\ n \in Nat /\ DOMAIN p = 1..m /\ DOMAIN q = 1..n
        /\ r \in Seq(Fields) /\ DOMAIN r = 1..(m + n)
        /\ \A i \in 1..(m + n) : r[i] = IF i <= m THEN p[i] ELSE q[i - m]
    BY ConcatProperties, LenProperties
  <1> HIDE DEF m, n, r
  <1>2. \A i \in 1..(m + n) : ~(i <= m) => i - m \in 1..n
    BY <1>1
  <1>3. \A i \in 1..(m + n) : i <= m => i \in 1..m
    BY <1>1
  <1>4. \A i \in 1..n : i + m \in 1..(m + n) /\ ~(i + m <= m) /\ (i + m) - m = i
    BY <1>1
  <1>5. \A i \in 1..m : i \in 1..(m + n) /\ i <= m
    BY <1>1
  <1>6. InSeq(r) \subseteq InSeq(p) \cup InSeq(q)
    BY <1>1, <1>2, <1>3 DEF InSeq
  <1>7. InSeq(p) \subseteq InSeq(r)
    BY <1>1, <1>5 DEF InSeq
  <1>8. InSeq(q) \subseteq InSeq(r)
    <2> SUFFICES ASSUME NEW i \in 1..n PROVE q[i] \in InSeq(r)
      BY <1>1 DEF InSeq
    <2>1. r[i + m] = q[i]
      BY <1>1, <1>4
    <2> QED BY <1>1, <1>4, <2>1 DEF InSeq
  <1>9. ASSUME NEW i \in 1..(m + n), NEW j \in 1..(m + n), r[i] = r[j]
        PROVE  i = j
    <2>1. CASE i <= m /\ j <= m
      BY <1>1, <1>3, <1>9, <2>1 DEF Distinct
    <2>2. CASE ~(i <= m) /\ ~(j <= m)
      <3>1. q[i - m] = q[j - m] /\ i - m \in 1..n /\ j - m \in 1..n
        BY <1>1, <1>2, <1>9, <2>2
      <3>2. i - m = j - m
        BY <1>1, <3>1 DEF Distinct
      <3> QED BY <1>1, <3>2
    <2>3. CASE i <= m /\ ~(j <= m)
      <3>1. p[i] = q[j - m] /\ i \in 1..m /\ j - m \in 1..n
        BY <1>1, <1>2, <1>3, <1>9, <2>3
      <3> QED BY <1>1, <3>1 DEF InSeq
    <2>4. CASE ~(i <= m) /\ j <= m
      <3>1. q[i - m] = p[j] /\ j \in 1..m /\ i - m \in 1..n
        BY <1>1, <1>2, <1>3, <1>9, <2>4
      <3> QED BY <1>1, <3>1 DEF InSeq
    <2> QED BY <2>1, <2>2, <2>3, <2>4
  <1> QED BY <1>1, <1>6, <1>7, <1>8, <1>9 DEF Distinct, r

\* dma_buffer_init's list: the array and the buffers of one direction.
LEMMA BufFieldsSound ==
    ASSUME NEW d \in Examples, NEW l \in Layouts, NEW s \in Subs
    PROVE  /\ BufFields(d, l, s) \in Seq(Fields) /\ Distinct(BufFields(d, l, s))
           /\ InSeq(BufFields(d, l, s)) =
                 IF Uses(d, s) /\ l # "user"
                 THEN {Arr(s)} \cup {Buf(s, i) : i \in 1..NumBuf(l)} ELSE {}
  <1> DEFINE bufs == [i \in 1..NumBuf(l) |-> Buf(s, i)]
  <1>1. NumBuf(l) \in Nat /\ NumBuf(l) <= NumDesc
    BY SlotAssumption DEF NumBuf, Layouts
  <1>2. \A i \in 1..NumBuf(l) : Buf(s, i) \in Fields
    BY <1>1, SlotAssumption DEF Fields
  <1>3. bufs \in Seq(Fields) /\ DOMAIN bufs = 1..NumBuf(l)
    BY <1>1, <1>2
  <1>4. Distinct(bufs)
    BY <1>3 DEF Distinct, Buf
  <1>5. InSeq(bufs) = {Buf(s, i) : i \in 1..NumBuf(l)}
    BY <1>3 DEF InSeq
  <1>6. <<Arr(s)>> \in Seq(Fields) /\ Distinct(<<Arr(s)>>)
        /\ InSeq(<<Arr(s)>>) = {Arr(s)}
    BY DEF Fields, Distinct, InSeq
  <1>7. InSeq(<<Arr(s)>>) \cap InSeq(bufs) = {}
    BY <1>5, <1>6 DEF Arr, Buf
  <1>8. CASE Uses(d, s) /\ l # "user"
    <2>1. BufFields(d, l, s) = <<Arr(s)>> \o bufs
      BY <1>8 DEF BufFields
    <2> HIDE DEF bufs
    <2> QED BY <1>3, <1>4, <1>5, <1>6, <1>7, <1>8, <2>1, DistinctConcat
  <1>9. CASE ~(Uses(d, s) /\ l # "user")
    <2>1. BufFields(d, l, s) = << >>
      BY <1>9 DEF BufFields
    <2> QED BY <1>9, <2>1 DEF Distinct, InSeq
  <1> QED BY <1>8, <1>9

\* sde_mem_init's list, then sde_hw_init's.
LEMMA InitFieldsSound ==
    ASSUME NEW d \in Examples, NEW l \in Layouts
    PROVE  /\ InitFields(d, l) \in Seq(Fields) /\ Distinct(InitFields(d, l))
           /\ \A s \in Subs : Wb(s) \in InSeq(InitFields(d, l))
           /\ \A s \in Subs : Uses(d, s) /\ l # "user" =>
                 \A i \in 1..NumBuf(l) : Buf(s, i) \in InSeq(InitFields(d, l))
  <1> DEFINE wbs == <<Wb("c2h"), Wb("h2c")>>  bars == <<Bar(1), Bar(2), Bar(3)>>
             c == BufFields(d, l, "c2h")  h == BufFields(d, l, "h2c")
             OfSub(s) == {Arr(s)} \cup {Buf(s, i) : i \in 1..NumBuf(l)}
  <1>1. /\ wbs \in Seq(Fields) /\ Distinct(wbs)
        /\ InSeq(wbs) = {Wb("c2h"), Wb("h2c")}
    <2>1. wbs \in Seq(Fields)
      BY DEF Fields, Subs
    <2>2. DOMAIN wbs = {1, 2}
      BY DEF wbs
    <2>3. Distinct(wbs)
      BY <2>2 DEF Distinct, Wb
    <2>4. InSeq(wbs) = {wbs[1], wbs[2]}
      BY <2>2 DEF InSeq
    <2> QED BY <2>1, <2>3, <2>4
  <1>2. /\ bars \in Seq(Fields) /\ Distinct(bars)
        /\ InSeq(bars) = {Bar(1), Bar(2), Bar(3)}
    <2>1. bars \in Seq(Fields)
      BY DEF Fields
    <2>2. DOMAIN bars = {1, 2, 3}
      BY DEF bars
    <2>3. Distinct(bars)
      BY <2>2 DEF Distinct, Bar
    <2>4. InSeq(bars) = {bars[1], bars[2], bars[3]}
      BY <2>2 DEF InSeq
    <2> QED BY <2>1, <2>3, <2>4
  <1>3. /\ c \in Seq(Fields) /\ Distinct(c)
        /\ InSeq(c) = IF Uses(d, "c2h") /\ l # "user" THEN OfSub("c2h") ELSE {}
    BY BufFieldsSound DEF Subs
  <1>4. /\ h \in Seq(Fields) /\ Distinct(h)
        /\ InSeq(h) = IF Uses(d, "h2c") /\ l # "user" THEN OfSub("h2c") ELSE {}
    BY BufFieldsSound DEF Subs
  <1>5. \A s \in Subs : \A f \in OfSub(s) : f[1] \in {"arr", "map"} /\ f[2] = s
    BY DEF Arr, Buf
  <1>6. \A f \in InSeq(wbs) : f[1] = "wb"
    BY <1>1 DEF Wb
  <1>7. \A f \in InSeq(bars) : f[1] = "bar"
    BY <1>2 DEF Bar
  <1>8. \A f \in InSeq(c) : f[1] \in {"arr", "map"} /\ f[2] = "c2h"
    BY <1>3, <1>5 DEF Subs
  <1>9. \A f \in InSeq(h) : f[1] \in {"arr", "map"} /\ f[2] = "h2c"
    BY <1>4, <1>5 DEF Subs
  <1>10. InitFields(d, l) = ((wbs \o c) \o h) \o bars
    BY DEF InitFields, MemFields
  <1> HIDE DEF wbs, bars, c, h, OfSub
  <1>11. InSeq(wbs) \cap InSeq(c) = {}
    BY <1>6, <1>8
  <1>12. /\ wbs \o c \in Seq(Fields) /\ Distinct(wbs \o c)
         /\ InSeq(wbs \o c) = InSeq(wbs) \cup InSeq(c)
    BY <1>1, <1>3, <1>11, DistinctConcat
  <1>13. InSeq(wbs \o c) \cap InSeq(h) = {}
    BY <1>6, <1>8, <1>9, <1>12
  <1>14. /\ (wbs \o c) \o h \in Seq(Fields) /\ Distinct((wbs \o c) \o h)
         /\ InSeq((wbs \o c) \o h) = InSeq(wbs) \cup InSeq(c) \cup InSeq(h)
    BY <1>4, <1>12, <1>13, DistinctConcat
  <1>15. InSeq((wbs \o c) \o h) \cap InSeq(bars) = {}
    BY <1>6, <1>7, <1>8, <1>9, <1>14
  <1>16. /\ InitFields(d, l) \in Seq(Fields) /\ Distinct(InitFields(d, l))
         /\ InSeq(InitFields(d, l)) =
               InSeq(wbs) \cup InSeq(c) \cup InSeq(h) \cup InSeq(bars)
    <2> DEFINE p == (wbs \o c) \o h
    <2>1. InitFields(d, l) = p \o bars
      BY <1>10
    <2>2. p \in Seq(Fields) /\ Distinct(p) /\ InSeq(p) \cap InSeq(bars) = {}
      BY <1>14, <1>15
    <2>3. InSeq(p) = InSeq(wbs) \cup InSeq(c) \cup InSeq(h)
      BY <1>14
    <2> HIDE DEF p
    <2>4. /\ p \o bars \in Seq(Fields) /\ Distinct(p \o bars)
          /\ InSeq(p \o bars) = InSeq(p) \cup InSeq(bars)
      BY <1>2, <2>2, DistinctConcat
    <2> QED BY <2>1, <2>3, <2>4
  <1>17. \A s \in Subs : Wb(s) \in InSeq(InitFields(d, l))
    BY <1>1, <1>16 DEF Subs
  <1>18. \A s \in Subs : Uses(d, s) /\ l # "user" =>
             OfSub(s) \subseteq InSeq(InitFields(d, l))
    BY <1>3, <1>4, <1>16 DEF Subs
  <1> QED BY <1>16, <1>17, <1>18 DEF OfSub

\* What the next step of sde_mgmt_init fills is not among the rest.
LEMMA HeadTail ==
    ASSUME NEW q \in Seq(Fields), q # << >>, Distinct(q)
    PROVE  /\ Head(q) \in Fields /\ Tail(q) \in Seq(Fields) /\ Distinct(Tail(q))
           /\ InSeq(q) = {Head(q)} \cup InSeq(Tail(q))
           /\ Head(q) \notin InSeq(Tail(q))
  <1> DEFINE n == Len(q)  t == Tail(q)
  <1>1. /\ n \in Nat /\ n > 0 /\ DOMAIN q = 1..n /\ Head(q) = q[1]
        /\ Head(q) \in Fields /\ t \in Seq(Fields) /\ DOMAIN t = 1..(n - 1)
        /\ \A i \in 1..(n - 1) : t[i] = q[i + 1]
    BY HeadTailProperties, LenProperties
  <1> HIDE DEF n, t
  <1>2. \A i \in 1..(n - 1) : i + 1 \in 1..n /\ i + 1 # 1 /\ 1 \in 1..n
    BY <1>1
  <1>3. Distinct(t)
    <2> SUFFICES ASSUME NEW i \in 1..(n - 1), NEW j \in 1..(n - 1), t[i] = t[j]
                 PROVE  i = j
      BY <1>1 DEF Distinct
    <2>1. i + 1 = j + 1
      BY <1>1, <1>2 DEF Distinct
    <2> QED BY <1>1, <2>1
  <1>4. InSeq(t) \subseteq InSeq(q)
    BY <1>1, <1>2 DEF InSeq
  <1>5. 1 \in DOMAIN q /\ q[1] \in InSeq(q)
    BY <1>1 DEF InSeq
  <1>6. ASSUME NEW i \in 1..n, i # 1 PROVE q[i] \in InSeq(t)
    <2>1. i - 1 \in 1..(n - 1) /\ t[i - 1] = q[i]
      BY <1>1, <1>6
    <2> QED BY <1>1, <2>1 DEF InSeq
  <1>7. q[1] \notin InSeq(t)
    <2> SUFFICES ASSUME NEW i \in 1..(n - 1), t[i] = q[1] PROVE FALSE
      BY <1>1 DEF InSeq
    <2> QED BY <1>1, <1>2 DEF Distinct
  <1>8. InSeq(q) \subseteq {q[1]} \cup InSeq(t)
    BY <1>1, <1>6 DEF InSeq
  <1> QED BY <1>1, <1>3, <1>4, <1>5, <1>7, <1>8 DEF t

\* Every set of naturals that is not empty has a smallest member.
LEMMA NatMin ==
    ASSUME NEW S \in SUBSET Nat, S # {}
    PROVE  \E i \in S : \A j \in S : i <= j
  <1> DEFINE R == {p \in Nat \X Nat : p[1] < p[2]}
  <1>1. IsWellFoundedOn(R, Nat)
    BY NatLessThanWellFounded DEF OpToRel
  <1>2. \E x \in S : \A y \in S : ~(<<y, x>> \in R)
    BY <1>1, WFMin
  <1>3. PICK x \in S : \A y \in S : ~(<<y, x>> \in R)
    BY <1>2
  <1>4. ASSUME NEW y \in S PROVE x <= y
    <2>1. y \in Nat /\ x \in Nat /\ <<y, x>> \in Nat \X Nat
      OBVIOUS
    <2>2. <<y, x>> \notin R
      BY <1>3
    <2>3. ~(y < x)
      BY <2>1, <2>2
    <2> QED BY <2>1, <2>3
  <1> QED BY <1>4

\* The resource that is taken next was free.
LEMMA FreshIsFree ==
    ASSUME Free # {}
    PROVE  Fresh \in Ids /\ live[Fresh] = "free"
  <1>1. Free \in SUBSET Nat
    BY DEF Free, Ids
  <1>2. \E i \in Free : \A j \in Free : i <= j
    BY <1>1, NatMin
  <1>3. Fresh \in Free
    BY <1>2 DEF Fresh
  <1> QED BY <1>3 DEF Free

----------------------------------------------------------------------------
(* The invariant.                                                          *)

\* Nothing is mapped and nothing recorded at first.
LEMMA SlotInit == Init => SlotInv
  <1> SUFFICES ASSUME Init PROVE SlotInv
    OBVIOUS
  <1> USE DEF Init
  <1>1. TypeInv
    BY DEF TypeInv, Kinds, NoBars, Examples, Subs, Layouts, Distinct
  <1>2. InitInv /\ WholeInv /\ OpenInv
    BY DEF InitInv, WholeInv, OpenInv
  <1>3. LibLive = {}
    BY DEF LibLive
  <1>4. AccountInv
    BY <1>3 DEF AccountInv
  <1>5. CardInv
    BY DEF CardInv, CardKnowsOurs
  <1> QED BY <1>1, <1>2, <1>4, <1>5 DEF SlotInv

\* The wipe of a record whose slot was not closed adds what it owned to what
\* is lost, and there is nothing else the library has live.
LEMMA CallKeeps ==
    ASSUME SlotInv, NEW d \in Examples, NEW l \in Layouts, InitCall(d, l)
    PROVE  SlotInv'
  <1> USE DEF InitCall, AfterWipe
  <1>1. /\ live' = live /\ field' = [f \in Fields |-> None] /\ dir' = d
        /\ layout' = l /\ todo' = InitFields(d, l) /\ pc' = "init"
        /\ got' = NoBars /\ ready' = "no" /\ told' = told
        /\ lost' = lost \cup {i \in Owned : pc # "closed" /\ live[i] # "free"
                                              /\ live[i] # "app"}
    OBVIOUS
  <1>2. Owned \subseteq Ids
    BY DEF SlotInv, TypeInv, Owned
  <1>3. TypeInv'
    <2>0. got' \in [1..3 -> {"none", "good", "full", "failed"}]
      BY <1>1 DEF NoBars
    <2>1. field' \in [Fields -> Ids \cup {None}]
      BY <1>1
    <2>2. todo' \in Seq(Fields) /\ Distinct(todo)'
      BY <1>1, InitFieldsSound DEF Distinct
    <2>3. lost' \subseteq Ids /\ told' \subseteq Ids
      BY <1>1, <1>2 DEF SlotInv, TypeInv
    <2> QED BY <1>1, <2>0, <2>1, <2>2, <2>3 DEF SlotInv, TypeInv
  <1>4. Owned' = {}
    BY <1>1 DEF Owned
  <1>5. InitInv'
    BY <1>1, InitFieldsSound DEF InitInv, Used, InSeq, SlotInv, TypeInv
  <1>6. WholeInv'
    BY <1>1, <1>4 DEF WholeInv
  <1>7. LibLive' = LibLive /\ LibLive = lost'
    BY <1>1, <1>2 DEF LibLive, SlotInv, AccountInv
  <1>8. AccountInv' /\ OpenInv' /\ CardInv'
    BY <1>1, <1>4, <1>7 DEF AccountInv, OpenInv, CardInv, CardKnowsOurs
  <1> QED BY <1>3, <1>5, <1>6, <1>8 DEF SlotInv

\* What a step of sde_mgmt_init that takes a resource does: the resource was
\* free, the field empty and not among those still to be filled.
LEMMA TakeKeeps ==
    ASSUME SlotInv, pc = "init", todo # << >>, Take(Head(todo)),
           todo' = Tail(todo), got' \in [1..3 -> {"none", "good", "full", "failed"}],
           \A i \in 1..3 : Bar(i) # Head(todo) => got'[i] = got[i],
           UNCHANGED <<dir, layout, hwInit, init, pc, ready, told, lost>>
    PROVE  SlotInv'
  <1> DEFINE h == Head(todo)
  <1>1. /\ h \in Fields /\ Tail(todo) \in Seq(Fields) /\ Distinct(Tail(todo))
        /\ InSeq(todo) = {h} \cup InSeq(Tail(todo)) /\ h \notin InSeq(Tail(todo))
    BY HeadTail DEF SlotInv, TypeInv
  <1>2. /\ h \in Used /\ field[h] = None
        /\ InSeq(Tail(todo)) \subseteq Used
        /\ \A f \in InSeq(Tail(todo)) : field[f] = None
        /\ \A f \in Used \ InSeq(todo) : field[f] # None \/ Got(f, {"full", "failed"})
    BY <1>1 DEF SlotInv, InitInv
  <1>3. Fresh \in Ids /\ live[Fresh] = "free" /\ Fresh # None
    BY FreshIsFree DEF Take, Ids, None
  <1>4. PICK n \in Ids : n = Fresh
    BY <1>3
  <1>5. /\ n # None /\ live[n] = "free" /\ live' = [live EXCEPT ![n] = Kind(h)]
        /\ field' = [field EXCEPT ![h] = n]
    BY <1>3, <1>4 DEF Take
  <1>6. Kind(h) \in {"map", "arr", "bar"}
    BY <1>1, FieldKinds
  <1> HIDE DEF h
  <1>7. TypeInv'
    <2>1. live' \in [Ids -> Kinds]
      BY <1>5, <1>6 DEF SlotInv, TypeInv, Kinds
    <2>2. field' \in [Fields -> Ids \cup {None}]
      BY <1>5 DEF SlotInv, TypeInv
    <2>3. Distinct(todo)' /\ todo' \in Seq(Fields)
      BY <1>1 DEF Distinct
    <2> QED BY <2>1, <2>2, <2>3 DEF SlotInv, TypeInv
  <1>8. /\ \A f \in Fields : field'[f] = IF f = h THEN n ELSE field[f]
        /\ \A i \in Ids : live'[i] = IF i = n THEN Kind(h) ELSE live[i]
    BY <1>5 DEF SlotInv, TypeInv
  <1>9. /\ Used' = Used /\ InSeq(todo)' = InSeq(Tail(todo))
    BY DEF Used, InSeq
  <1>10. Used \subseteq Fields
    <2>1. InitFields(dir, layout) \in Seq(Fields)
      BY InitFieldsSound DEF SlotInv, TypeInv
    <2> QED BY <2>1, LenProperties DEF Used, InSeq
  <1>11. \A f \in Fields : field[f] # None => f \in Used /\ live[field[f]] = Kind(f)
                                              /\ field[f] # n
    <2> TAKE f \in Fields
    <2> HAVE field[f] # None
    <2>1. f \in Used /\ live[field[f]] = Kind(f)
      BY DEF SlotInv, WholeInv
    <2>2. Kind(f) # "free"
      BY FieldKinds
    <2> QED BY <1>5, <2>1, <2>2
  <1>12. InitInv'
    <2>1. \A f \in InSeq(Tail(todo)) : f \in Fields /\ f # h
      BY <1>1, <1>2, <1>10
    <2>2. \A f \in InSeq(Tail(todo)) : field'[f] = None
      BY <1>2, <1>8, <2>1
    <2>3. \A f \in Used \ InSeq(Tail(todo)) :
              field'[f] # None \/ Got(f, {"full", "failed"})'
      <3> SUFFICES ASSUME NEW f \in Used \ InSeq(Tail(todo)), field'[f] = None
                   PROVE  Got(f, {"full", "failed"})'
        OBVIOUS
      <3>1. f # h /\ field[f] = None
        BY <1>5, <1>8, <1>10
      <3>2. Got(f, {"full", "failed"})
        BY <1>1, <1>2, <3>1
      <3>3. PICK i \in 1..3 : f = Bar(i) /\ got[i] \in {"full", "failed"}
        BY <3>2 DEF Got
      <3>4. got'[i] = got[i]
        BY <3>1, <3>3 DEF h
      <3> QED BY <3>3, <3>4 DEF Got
    <2> QED BY <1>2, <1>9, <2>2, <2>3 DEF InitInv
  <1>13. Owned' = Owned \cup {n}
    <2>1. Owned' = {field'[f] : f \in Fields} \ {None}
      BY DEF Owned
    <2>2. Owned' \subseteq Owned \cup {n}
      BY <1>8, <2>1 DEF Owned
    <2>3. n \in Owned'
      BY <1>1, <1>5, <1>8, <2>1 DEF h
    <2>4. Owned \subseteq Owned'
      BY <1>2, <1>8, <2>1 DEF Owned
    <2> QED BY <2>2, <2>3, <2>4
  <1>14. LibLive' = LibLive \cup {n} /\ n \notin LibLive
    BY <1>5, <1>6, <1>8 DEF LibLive
  <1>15. AccountInv'
    BY <1>13, <1>14 DEF SlotInv, AccountInv
  <1>16. WholeInv'
    <2>1. \A f \in Fields : field'[f] # None =>
              f \in Used /\ live'[field'[f]] = Kind(f)
      BY <1>2, <1>8, <1>11 DEF SlotInv, TypeInv
    <2>2. \A f, g \in Fields : field'[f] # None /\ field'[f] = field'[g] => f = g
      BY <1>5, <1>8, <1>11 DEF SlotInv, WholeInv
    <2>3. lost \cap Owned' = {}
      BY <1>13, <1>14 DEF SlotInv, WholeInv, AccountInv
    <2> QED BY <1>9, <2>1, <2>2, <2>3 DEF WholeInv
  <1>17. OpenInv' /\ CardInv'
    BY DEF SlotInv, OpenInv, CardInv, CardKnowsOurs
  <1> QED BY <1>7, <1>12, <1>15, <1>16, <1>17 DEF SlotInv

\* What the slot uses are fields of the record.
LEMMA UsedAreFields ==
    ASSUME TypeInv
    PROVE  Used \subseteq Fields
  <1>1. InitFields(dir, layout) \in Seq(Fields)
    BY InitFieldsSound DEF TypeInv
  <1> QED BY <1>1, LenProperties DEF Used, InSeq

\* map_page fails: at most a stale address is left, and the slot is not opened.
LEMMA MemFailKeeps ==
    ASSUME SlotInv, MemFail
    PROVE  SlotInv'
  <1> DEFINE h == Head(todo)
  <1>1. /\ pc = "init" /\ pc' = "failed" /\ todo' = << >> /\ live' = live
        /\ lost' = lost /\ ready' = ready /\ told' = told /\ got' = got
        /\ dir' = dir /\ layout' = layout /\ todo # << >> /\ Free # {}
    BY DEF MemFail
  <1>2. field' = field \/ field' = [field EXCEPT ![h] = Fresh]
    BY DEF MemFail
  <1>3. Fresh \in Ids
    BY <1>1, FreshIsFree
  <1>4. /\ h \in Fields /\ field[h] = None
    BY <1>1, HeadTail DEF SlotInv, TypeInv, InitInv
  <1> HIDE DEF h
  <1>5. TypeInv'
    <2>1. field' \in [Fields -> Ids \cup {None}]
      BY <1>2, <1>3 DEF SlotInv, TypeInv
    <2>2. Distinct(todo)' /\ todo' \in Seq(Fields)
      BY <1>1 DEF Distinct
    <2> QED BY <1>1, <2>1, <2>2 DEF SlotInv, TypeInv
  <1>6. \A f \in Fields : field[f] # None => field'[f] = field[f]
    BY <1>2, <1>4 DEF SlotInv, TypeInv
  <1>7. Owned \subseteq Owned'
    <2>1. Owned' = {field'[f] : f \in Fields} \ {None}
      BY DEF Owned
    <2> QED BY <1>6, <2>1 DEF Owned
  <1>8. LibLive' = LibLive
    BY <1>1 DEF LibLive
  <1>9. AccountInv'
    BY <1>1, <1>7, <1>8 DEF SlotInv, AccountInv
  <1>10. InitInv' /\ WholeInv' /\ OpenInv'
    BY <1>1 DEF InitInv, WholeInv, OpenInv
  <1>11. CardInv'
    BY <1>1 DEF SlotInv, CardInv, CardKnowsOurs
  <1> QED BY <1>5, <1>9, <1>10, <1>11 DEF SlotInv

\* A field of the kind is one of the three BARs'.
LEMMA BarIs ==
    ASSUME NEW f \in Fields, f[1] = "bar"
    PROVE  f[3] \in 1..3 /\ f = Bar(f[3])
  BY DEF Fields, Wb, Arr, Buf, Bar

\* What an attach comes to is put down beside its BAR, and no other.
LEMMA GotKeeps ==
    ASSUME SlotInv, pc = "init", todo # << >>, Head(todo)[1] = "bar",
           NEW how \in {"good", "full", "failed"},
           got' = [got EXCEPT ![Head(todo)[3]] = how]
    PROVE  /\ got' \in [1..3 -> {"none", "good", "full", "failed"}]
           /\ \A i \in 1..3 : Bar(i) # Head(todo) => got'[i] = got[i]
           /\ got'[Head(todo)[3]] = how
           /\ Head(todo)[3] \in 1..3 /\ Head(todo) = Bar(Head(todo)[3])
  <1> DEFINE h == Head(todo)
  <1>1. h \in Fields
    BY HeadTail DEF SlotInv, TypeInv
  <1>2. h[3] \in 1..3 /\ h = Bar(h[3])
    BY <1>1, BarIs
  <1>3. got \in [1..3 -> {"none", "good", "full", "failed"}]
    BY DEF SlotInv, TypeInv
  <1> HIDE DEF h
  <1>4. got' = [got EXCEPT ![h[3]] = how]
    BY DEF h
  <1>5. got' \in [1..3 -> {"none", "good", "full", "failed"}] /\ got'[h[3]] = how
    BY <1>2, <1>3, <1>4
  <1>6. \A i \in 1..3 : Bar(i) # h => got'[i] = got[i]
    BY <1>2, <1>3, <1>4
  <1> QED BY <1>2, <1>5, <1>6 DEF h

\* An attach without a handle leaves it out, and that is remembered in got.
LEMMA BarNoneKeeps ==
    ASSUME SlotInv, NEW how \in {"full", "failed"}, BarStep(how)
    PROVE  SlotInv'
  <1> DEFINE h == Head(todo)
  <1>1. /\ pc = "init" /\ pc' = "init" /\ todo' = Tail(todo) /\ live' = live
        /\ field' = field /\ lost' = lost /\ ready' = ready /\ told' = told
        /\ dir' = dir /\ layout' = layout /\ todo # << >>
        /\ h[1] = "bar" /\ got' = [got EXCEPT ![h[3]] = how]
    BY DEF BarStep
  <1>2. /\ h \in Fields /\ Tail(todo) \in Seq(Fields) /\ Distinct(Tail(todo))
        /\ InSeq(todo) = {h} \cup InSeq(Tail(todo)) /\ h \notin InSeq(Tail(todo))
    BY <1>1, HeadTail DEF SlotInv, TypeInv
  <1>3. Used' = Used /\ InSeq(todo)' = InSeq(Tail(todo))
    BY <1>1 DEF Used, InSeq
  <1>9. /\ got' \in [1..3 -> {"none", "good", "full", "failed"}]
        /\ \A i \in 1..3 : Bar(i) # h => got'[i] = got[i]
        /\ got'[h[3]] = how /\ h[3] \in 1..3 /\ h = Bar(h[3])
    BY <1>1, GotKeeps
  <1> HIDE DEF h
  <1>4. TypeInv'
    <2>1. Distinct(todo)' /\ todo' \in Seq(Fields)
      BY <1>1, <1>2 DEF Distinct
    <2> QED BY <1>1, <1>9, <2>1 DEF SlotInv, TypeInv
  <1>5. InitInv'
    <2>1. /\ InSeq(Tail(todo)) \subseteq Used
          /\ \A f \in InSeq(Tail(todo)) : field[f] = None
      BY <1>1, <1>2 DEF SlotInv, InitInv
    <2>2. \A f \in Used \ InSeq(Tail(todo)) :
              field[f] # None \/ Got(f, {"full", "failed"})'
      <3> SUFFICES ASSUME NEW f \in Used \ InSeq(Tail(todo)), field[f] = None
                   PROVE  Got(f, {"full", "failed"})'
        OBVIOUS
      <3>1. CASE f = h
        BY <1>9, <3>1 DEF Got
      <3>2. CASE f # h
        <4>1. Got(f, {"full", "failed"})
          BY <1>1, <1>2, <3>2 DEF SlotInv, InitInv
        <4>2. PICK i \in 1..3 : f = Bar(i) /\ got[i] \in {"full", "failed"}
          BY <4>1 DEF Got
        <4>3. got'[i] = got[i]
          BY <1>9, <3>2, <4>2
        <4> QED BY <4>2, <4>3 DEF Got
      <3> QED BY <3>1, <3>2
    <2> QED BY <1>1, <1>3, <2>1, <2>2 DEF InitInv
  <1>6. Owned' = Owned /\ LibLive' = LibLive
    BY <1>1 DEF Owned, LibLive
  <1>7. WholeInv' /\ AccountInv'
    BY <1>1, <1>3, <1>6 DEF SlotInv, WholeInv, AccountInv
  <1>8. OpenInv' /\ CardInv'
    BY <1>1 DEF SlotInv, OpenInv, CardInv, CardKnowsOurs
  <1> QED BY <1>4, <1>5, <1>7, <1>8 DEF SlotInv

\* The slot is opened when none of the three attaches complained, and then every
\* field it uses is filled but for a BAR the full table had no entry for.
LEMMA DoneKeeps ==
    ASSUME SlotInv, InitDone
    PROVE  SlotInv'
  <1>1. /\ pc = "init" /\ pc' = IF AttachOk(got) THEN "open" ELSE "failed"
        /\ todo' = todo /\ todo = << >> /\ live' = live
        /\ field' = field /\ lost' = lost /\ ready' = ready /\ told' = told
        /\ got' = got /\ dir' = dir /\ layout' = layout
        /\ hwInit' = AttachOk(got) /\ init' = AttachOk(got)
    BY DEF InitDone
  <1>2. TypeInv'
    BY <1>1 DEF SlotInv, TypeInv, Distinct
  <1>3. Owned' = Owned /\ LibLive' = LibLive /\ Used' = Used
    BY <1>1 DEF Owned, LibLive, Used
  <1>4. InSeq(todo) = {}
    BY <1>1 DEF InSeq
  <1>5. OpenInv'
    <2> SUFFICES ASSUME pc' = "open", NEW f \in Used, field[f] = None
                 PROVE  hwInit' /\ init' /\ Got(f, {"full"})'
      BY <1>1, <1>3 DEF SlotInv, InitInv, OpenInv
    <2>1. AttachOk(got)
      BY <1>1
    <2>2. Got(f, {"full", "failed"})
      BY <1>1, <1>4 DEF SlotInv, InitInv
    <2>3. PICK i \in 1..3 : f = Bar(i) /\ got[i] \in {"full", "failed"}
      BY <2>2 DEF Got
    <2>4. got'[i] = "full"
      BY <1>1, <2>1, <2>3 DEF AttachOk
    <2> QED BY <1>1, <2>1, <2>3, <2>4 DEF Got
  <1>6. InitInv'
    BY <1>1 DEF InitInv
  <1>7. WholeInv'
    BY <1>1, <1>3 DEF SlotInv, WholeInv
  <1>8. AccountInv'
    BY <1>1, <1>3 DEF SlotInv, AccountInv
  <1>9. CardInv'
    BY <1>1 DEF SlotInv, CardInv, CardKnowsOurs
  <1> QED BY <1>2, <1>5, <1>6, <1>7, <1>8, <1>9 DEF SlotInv

\* The calls that set the engine up change what the card was told, and no
\* more of it than addresses of the slot's memory or the application's.
LEMMA SetUpKeeps ==
    ASSUME SlotInv, pc = "open",
           NEW r \in {"no", "reset", "cfg"}, NEW t \in SUBSET Ids, SetUp(r, t),
           r = "reset" => t = {},
           r # "no" => field[Bar(1)] # None, r = "cfg" => field[Bar(2)] # None,
           r = "cfg" => \A i \in t : live[i] = "app"
                                     \/ (live[i] = "map" /\ i \in Owned)
    PROVE  SlotInv'
  <1>1. /\ ready' = r /\ told' = t
        /\ UNCHANGED <<live, field, dir, layout, hwInit, init, todo, pc, got, lost>>
    BY DEF SetUp, record
  <1>2. Owned' = Owned /\ LibLive' = LibLive /\ Used' = Used
    BY <1>1 DEF Owned, LibLive, Used
  <1>3. TypeInv'
    BY <1>1 DEF SlotInv, TypeInv, Distinct
  <1>4. InitInv' /\ WholeInv' /\ OpenInv' /\ AccountInv'
    BY <1>1, <1>2 DEF SlotInv, InitInv, InSeq, WholeInv, OpenInv, AccountInv, Got
  <1>5. CardInv'
    BY <1>1, <1>2 DEF CardInv, CardKnowsOurs
  <1> QED BY <1>3, <1>4, <1>5 DEF SlotInv

\* What an open slot uses is live memory the record owns.
LEMMA UsedIsLive ==
    ASSUME SlotInv, pc = "open", NEW f \in Used, f[1] # "bar"
    PROVE  /\ field[f] \in Ids /\ field[f] \in Owned
           /\ live[field[f]] = Kind(f)
  <1>1. f \in Fields
    BY UsedAreFields DEF SlotInv
  <1>2. field[f] # None
    BY DEF SlotInv, OpenInv, Got, Bar
  <1> QED BY <1>1, <1>2 DEF SlotInv, TypeInv, WholeInv, Owned

\* sde_mgmt_reset: the card forgets every address, or stays as it was.
LEMMA ResetKeeps ==
    ASSUME SlotInv, Reset
    PROVE  SlotInv'
  <1>1. pc = "open" /\ told \in SUBSET Ids /\ AfterReset(told) = {}
    BY DEF Reset, AfterReset, SlotInv, TypeInv
  <1>2. CASE SetUp("no", told)
    BY <1>1, <1>2, SetUpKeeps
  <1>3. CASE field[Bar(1)] # None /\ \E r \in {"reset", "no"} : SetUp(r, {})
    BY <1>1, <1>3, SetUpKeeps
  <1> QED BY <1>1, <1>2, <1>3 DEF Reset

\* sde_mgmt_cfg: the card is told where the write-back memory is.
LEMMA CfgKeeps ==
    ASSUME SlotInv, Cfg
    PROVE  SlotInv'
  <1>1. pc = "open" /\ ready = "reset" /\ told = {} /\ field[Bar(1)] # None
    BY DEF Cfg, SlotInv, CardInv
  <1>2. \A s \in Subs : Wb(s) \in Used /\ Kind(Wb(s)) = "map" /\ Wb(s)[1] # "bar"
    BY InitFieldsSound DEF Used, Kind, Wb, SlotInv, TypeInv
  <1>3. \A s \in Subs : \A i \in WbOf(s) :
            i \in Ids /\ live[i] = "map" /\ i \in Owned
    BY <1>1, <1>2, UsedIsLive DEF WbOf
  <1>4. "c2h" \in Subs /\ "h2c" \in Subs
    BY DEF Subs
  <1>5. /\ WbOf("c2h") \in SUBSET Ids
        /\ WbOf("c2h") \cup WbOf("h2c") \in SUBSET Ids
    BY <1>3, <1>4
  <1>6. CASE /\ field[Bar(2)] # None
             /\ SetUp("cfg", told \cup WbOf("c2h") \cup WbOf("h2c"))
    <2>1. SetUp("cfg", WbOf("c2h") \cup WbOf("h2c"))
      BY <1>1, <1>6
    <2> QED BY <1>1, <1>3, <1>4, <1>5, <1>6, <2>1, SetUpKeeps
  <1>7. CASE \E t \in {WbOf("c2h"), WbOf("c2h") \cup WbOf("h2c")} :
                SetUp("no", told \cup t)
    <2>1. PICK t \in SUBSET Ids : SetUp("no", told \cup t)
      BY <1>5, <1>7
    <2>2. SetUp("no", t)
      BY <1>1, <2>1
    <2> QED BY <1>1, <2>2, SetUpKeeps
  <1>8. CASE SetUp("no", told)
    BY <1>1, <1>8, SetUpKeeps
  <1> QED BY <1>6, <1>7, <1>8 DEF Cfg

\* sde_mgmt_post_desc: the card is told of buffers of the slot, or of the
\* application's.
LEMMA PostKeeps ==
    ASSUME SlotInv, NEW s \in Subs, Post(s)
    PROVE  SlotInv'
  <1>1. /\ pc = "open" /\ ready = "cfg" /\ Uses(dir, s)
        /\ SetUp("cfg", told \cup BufsOf(s))
        /\ field[Bar(1)] # None /\ field[Bar(2)] # None
    BY DEF Post, SlotInv, CardInv
  <1>2. \A i \in told : i \in Ids /\ (live[i] = "app" \/ (live[i] = "map" /\ i \in Owned))
    BY <1>1 DEF SlotInv, TypeInv, CardInv, CardKnowsOurs
  <1>3. \A i \in BufsOf(s) : i \in Ids /\ (live[i] = "app" \/ (live[i] = "map" /\ i \in Owned))
    <2>1. CASE layout = "user"
      BY <2>1 DEF BufsOf
    <2>2. CASE layout # "user"
      <3>1. \A k \in 1..NumBuf(layout) : Buf(s, k) \in Used /\ Kind(Buf(s, k)) = "map"
                                        /\ Buf(s, k)[1] # "bar"
        BY <1>1, <2>2, InitFieldsSound DEF Used, Kind, Buf, SlotInv, TypeInv
      <3>2. BufsOf(s) = {field[Buf(s, k)] : k \in 1..NumBuf(layout)}
        BY <2>2 DEF BufsOf
      <3> QED BY <1>1, <3>1, <3>2, UsedIsLive
    <2> QED BY <2>1, <2>2
  <1>4. told \cup BufsOf(s) \in SUBSET Ids
    BY <1>2, <1>3
  <1> QED BY <1>1, <1>2, <1>3, <1>4, SetUpKeeps

\* sde_mgmt_close: what is unmapped is exactly what the record owns, so all
\* the library has left is what was lost before.
LEMMA CloseKeeps ==
    ASSUME SlotInv, Close
    PROVE  /\ SlotInv'
           /\ \A i \in Ids : live[i] = "app" => live'[i] = "app"
  <1> DEFINE gone == {field[f] : f \in Used} \ {None}
  <1>1. /\ pc = "open" /\ pc' = "closed" /\ ready' = "no"
        /\ UNCHANGED <<dir, layout, init, todo, got, told, lost>>
        /\ live' = [i \in Ids |-> IF i \in gone THEN "free" ELSE live[i]]
        /\ field' = [f \in Fields |->
                        IF f \in Used /\ f[1] # "arr" THEN None ELSE field[f]]
    BY DEF Close, CloseFields, Used
  <1>2. gone = Owned
    BY <1>1, UsedAreFields DEF SlotInv, WholeInv, Owned
  <1>3. \A i \in Owned : i \in Ids /\ live[i] \notin {"free", "app"}
    <2>1. \A f \in Fields : field[f] # None =>
              field[f] \in Ids /\ live[field[f]] = Kind(f)
      BY <1>1 DEF SlotInv, TypeInv, WholeInv
    <2> QED BY <2>1, FieldKinds DEF Owned
  <1> HIDE DEF gone
  <1>4. LibLive' = LibLive \ Owned
    <2>1. LibLive' = {i \in Ids : live'[i] \notin {"free", "app"}}
      BY DEF LibLive
    <2>2. \A i \in Ids : live'[i] = IF i \in Owned THEN "free" ELSE live[i]
      BY <1>1, <1>2
    <2> QED BY <2>1, <2>2 DEF LibLive
  <1>5. LibLive' = lost /\ lost' = lost
    BY <1>1, <1>4 DEF SlotInv, WholeInv, AccountInv
  <1>6. TypeInv'
    <2>1. live' \in [Ids -> Kinds]
      BY <1>1 DEF SlotInv, TypeInv, Kinds
    <2>2. field' \in [Fields -> Ids \cup {None}]
      BY <1>1 DEF SlotInv, TypeInv
    <2> QED BY <1>1, <2>1, <2>2 DEF SlotInv, TypeInv, Distinct
  <1>7. InitInv' /\ WholeInv' /\ OpenInv' /\ CardInv'
    BY <1>1 DEF InitInv, WholeInv, OpenInv, CardInv, CardKnowsOurs
  <1>8. AccountInv'
    BY <1>5 DEF AccountInv
  <1>9. \A i \in Ids : live[i] = "app" => live'[i] = "app"
    BY <1>1, <1>2, <1>3
  <1> QED BY <1>6, <1>7, <1>8, <1>9 DEF SlotInv

\* A region the application maps was nobody's.
LEMMA AppMapKeeps ==
    ASSUME SlotInv, AppMap
    PROVE  /\ SlotInv'
           /\ \A i \in Ids : live[i] = "app" => live'[i] = "app"
  <1>1. /\ Free # {} /\ pc # "init"
        /\ UNCHANGED <<field, dir, layout, hwInit, init, todo, pc, got, ready, told, lost>>
    BY DEF AppMap, Idle, record
  <1>2. Fresh \in Ids /\ live[Fresh] = "free"
    BY <1>1, FreshIsFree
  <1>3. PICK n \in Ids : n = Fresh
    BY <1>2
  <1>4. live[n] = "free" /\ live' = [live EXCEPT ![n] = "app"]
    BY <1>2, <1>3 DEF AppMap
  <1>5. \A i \in Ids : live'[i] = IF i = n THEN "app" ELSE live[i]
    BY <1>4 DEF SlotInv, TypeInv
  <1>6. LibLive' = LibLive
    BY <1>4, <1>5 DEF LibLive
  <1>7. Owned' = Owned /\ Used' = Used
    BY <1>1 DEF Owned, Used
  <1>8. TypeInv'
    <2>1. live' \in [Ids -> Kinds]
      BY <1>4 DEF SlotInv, TypeInv, Kinds
    <2> QED BY <1>1, <2>1 DEF SlotInv, TypeInv, Distinct
  <1>9. InitInv' /\ OpenInv' /\ AccountInv'
    BY <1>1, <1>6, <1>7 DEF SlotInv, InitInv, OpenInv, AccountInv, Got
  <1>10. WholeInv'
    <2>1. pc = "open" => \A f \in Fields : field[f] # None =>
              /\ f \in Used /\ field[f] \in Ids
              /\ live[field[f]] = Kind(f) /\ Kind(f) # "free"
      BY FieldKinds DEF SlotInv, TypeInv, WholeInv
    <2>2. pc = "open" => \A f \in Fields : field[f] # None =>
              f \in Used /\ live'[field[f]] = Kind(f)
      BY <1>4, <1>5, <2>1
    <2> QED BY <1>1, <1>7, <2>2 DEF SlotInv, WholeInv
  <1>11. CardInv'
    <2>1. told \subseteq Ids
      BY DEF SlotInv, TypeInv
    <2>2. ready = "cfg" => \A i \in told :
              live'[i] = "app" \/ (live'[i] = "map" /\ i \in Owned)
      BY <1>4, <1>5, <2>1 DEF SlotInv, CardInv, CardKnowsOurs
    <2> QED BY <1>1, <1>7, <2>2 DEF SlotInv, CardInv, CardKnowsOurs
  <1>12. \A i \in Ids : live[i] = "app" => live'[i] = "app"
    BY <1>5
  <1> QED BY <1>8, <1>9, <1>10, <1>11, <1>12 DEF SlotInv

\* sde_mgmt_set_dma_buffers notes that it was called, no more.
LEMMA SetBuffersKeeps ==
    ASSUME SlotInv, NEW s \in Subs, SetBuffers(s)
    PROVE  SlotInv'
  <1>1. UNCHANGED <<live, field, dir, layout, hwInit, init, todo, pc, got, ready,
                    told, lost>>
    BY DEF SetBuffers
  <1>2. Owned' = Owned /\ LibLive' = LibLive /\ Used' = Used
    BY <1>1 DEF Owned, LibLive, Used
  <1>3. TypeInv'
    BY <1>1 DEF SlotInv, TypeInv, Distinct
  <1>4. InitInv' /\ WholeInv' /\ OpenInv' /\ AccountInv'
    BY <1>1, <1>2 DEF SlotInv, InitInv, InSeq, WholeInv, OpenInv, AccountInv, Got
  <1>5. CardInv'
    BY <1>1, <1>2 DEF SlotInv, CardInv, CardKnowsOurs
  <1> QED BY <1>3, <1>4, <1>5 DEF SlotInv

\* Every step keeps the invariant, and what the application has mapped.
LEMMA SlotStep ==
    ASSUME SlotInv, [Next]_vars
    PROVE  /\ SlotInv'
           /\ \A i \in Ids : live[i] = "app" => live'[i] = "app"
  <1>1. ASSUME NEW d \in Examples, NEW l \in Layouts, InitCall(d, l)
        PROVE  SlotInv' /\ live' = live
    BY <1>1, CallKeeps DEF InitCall, AfterWipe
  <1>2. ASSUME todo # << >>, Take(Head(todo))
        PROVE  \A i \in Ids : live[i] = "app" => live'[i] = "app"
    <2>1. live[Fresh] = "free" /\ live' = [live EXCEPT ![Fresh] = Kind(Head(todo))]
      BY <1>2, FreshIsFree DEF Take
    <2> QED BY <2>1 DEF SlotInv, TypeInv
  <1>3. CASE InitStep
    <2>1. SlotInv'
      BY <1>3, TakeKeeps DEF InitStep, SlotInv, TypeInv
    <2> QED BY <1>2, <1>3, <2>1 DEF InitStep
  <1>4. CASE MemFail
    BY <1>4, MemFailKeeps DEF MemFail
  <1>5. CASE InitDone
    BY <1>5, DoneKeeps DEF InitDone
  <1>6. CASE BarStep("good")
    <2>1. /\ got' \in [1..3 -> {"none", "good", "full", "failed"}]
          /\ \A i \in 1..3 : Bar(i) # Head(todo) => got'[i] = got[i]
      BY <1>6, GotKeeps DEF BarStep
    <2>2. SlotInv'
      BY <1>6, <2>1, TakeKeeps DEF BarStep
    <2> QED BY <1>2, <1>6, <2>2 DEF BarStep
  <1>7. ASSUME NEW how \in {"full", "failed"}, BarStep(how)
        PROVE  SlotInv' /\ live' = live
    BY <1>7, BarNoneKeeps DEF BarStep
  <1>8. ASSUME NEW s \in Subs, SetBuffers(s)
        PROVE  SlotInv' /\ live' = live
    BY <1>8, SetBuffersKeeps DEF SetBuffers
  <1>9. ASSUME NEW s \in Subs, Post(s)
        PROVE  SlotInv' /\ live' = live
    BY <1>9, PostKeeps DEF Post, SetUp
  <1>10. CASE Reset
    BY <1>10, ResetKeeps DEF Reset, SetUp
  <1>11. CASE Cfg
    BY <1>11, CfgKeeps DEF Cfg, SetUp
  <1>12. CASE Close
    BY <1>12, CloseKeeps
  <1>13. CASE AppMap
    BY <1>13, AppMapKeeps
  <1>14. CASE UNCHANGED vars
    <2>1. UNCHANGED <<live, field, dir, layout, hwInit, init, todo, pc, got, ready,
                      told, lost>>
      BY <1>14 DEF vars, record
    <2>2. Owned' = Owned /\ LibLive' = LibLive /\ Used' = Used
      BY <2>1 DEF Owned, LibLive, Used
    <2>3. TypeInv'
      BY <2>1 DEF SlotInv, TypeInv, Distinct
    <2>4. InitInv' /\ WholeInv' /\ OpenInv' /\ AccountInv' /\ CardInv'
      BY <2>1, <2>2 DEF SlotInv, InitInv, InSeq, WholeInv, OpenInv, AccountInv,
                        Got, CardInv, CardKnowsOurs
    <2> QED BY <2>1, <2>3, <2>4 DEF SlotInv
  <1> QED BY <1>1, <1>3, <1>4, <1>5, <1>6, <1>7, <1>8, <1>9, <1>10, <1>11,
             <1>12, <1>13, <1>14 DEF Next

\* The invariant holds in every reachable state.
LEMMA SlotInvariant == Spec => []SlotInv
  <1>1. SlotInv /\ [Next]_vars => SlotInv'
    BY SlotStep
  <1> QED BY <1>1, SlotInit, PTL DEF Spec

----------------------------------------------------------------------------
(* What the library promises.                                              *)

\* sde_mgmt_init: an initialised slot has every resource that its direction
\* and its layout use, each its own, whatever failed before, but a BAR for which
\* the PCI library's table was full; the engine is not reset without BAR0, nor
\* configured without BAR4.
THEOREM OpenSlotLacksOnlyBars == Spec => []LacksOnlyBars
  <1>1. SlotInv => LacksOnlyBars
    <2> SUFFICES ASSUME SlotInv, pc = "open" PROVE LacksOnlyBars
      BY DEF LacksOnlyBars
    <2>1. Used \subseteq Fields
      BY UsedAreFields DEF SlotInv
    <2>2. hwInit /\ init /\ \A f \in Used : field[f] # None \/ Got(f, {"full"})
      BY DEF SlotInv, OpenInv
    <2>3. \A f \in Fields : field[f] # None => live[field[f]] = Kind(f)
      BY DEF SlotInv, WholeInv
    <2>4. \A f, g \in Fields : field[f] # None /\ field[f] = field[g] => f = g
      BY DEF SlotInv, WholeInv
    <2>5. /\ ready # "no" => field[Bar(1)] # None
          /\ ready = "cfg" => field[Bar(2)] # None
      BY DEF SlotInv, CardInv
    <2>6. \A f \in Used : Got(f, {"full"}) => \E i \in 1..3 : f = Bar(i) /\ got[i] = "full"
      BY DEF Got
    <2>7. \A f \in Used : field[f] # None =>
              /\ live[field[f]] = Kind(f)
              /\ \A g \in Used : field[f] = field[g] => f = g
      BY <2>1, <2>3, <2>4
    <2> QED BY <2>2, <2>5, <2>6, <2>7 DEF LacksOnlyBars, Used
  <1> QED BY <1>1, SlotInvariant, PTL

\* sde_mgmt_close: what is left of the library is what initialisations that
\* failed or were repeated lost.
THEOREM CloseFreesAll == Spec => []CloseFrees
  <1>1. SlotInv => CloseFrees
    BY DEF SlotInv, AccountInv, CloseFrees, LibLive
  <1> QED BY <1>1, SlotInvariant, PTL

\* sde_mgmt_cfg and sde_mgmt_post_desc: the card of a configured slot is told
\* of no memory that has been unmapped since.
THEOREM CardIsToldTheTruth == Spec => []CardKnowsOurs
  <1>1. SlotInv => CardKnowsOurs
    BY DEF SlotInv, CardInv
  <1> QED BY <1>1, SlotInvariant, PTL

\* sde_mgmt_close and the initialisations that fail: nothing the application
\* mapped is ever unmapped by the library.
THEOREM ApplicationKeepsItsMemory == Spec => AppIntact
  <1>1. SlotInv /\ [Next]_vars =>
            [\A i \in Ids : live[i] = "app" => live'[i] = "app"]_live
    BY SlotStep
  <1> QED BY <1>1, SlotInvariant, PTL DEF Spec, AppIntact

=============================================================================
