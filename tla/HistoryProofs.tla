--------------------------- MODULE HistoryProofs ---------------------------
(***************************************************************************)
(* Proofs about History, for any number of slots, cards and titles.  Which *)
(* record makes room plays no part until the last section, which shows     *)
(* that the scan finds a least used one.                                   *)
(***************************************************************************)
EXTENDS History, ModArithmetic, FiniteSetTheorems, TLAPS

CardIds == 1 .. Cards

-----------------------------------------------------------------------------
(* Records *)

Steps(n) == {m \in {14, 24, 34, 44, 54} : m <= n}

\* a record as launches make it
GoodRecord(e) ==
  /\ e.count \in 1 .. 63 /\ e.bits \in SUBSET FullMask
  /\ Cardinality(e.bits) = 1 + Cardinality(Steps(e.count))

AnyRecord == [title : Titles \cup {NoTitle}, count : Nat, bits : SUBSET FullMask,
              shift : Nat, time : Nat]

\* The mask has six bits, and a part of it that lacks one has fewer.
LEMMA MaskSize ==
  /\ IsFiniteSet(FullMask) /\ Cardinality(FullMask) = 6
  /\ \A B \in SUBSET FullMask :
       IsFiniteSet(B) /\ (Cardinality(B) = 6 <=> FullMask \subseteq B)
<1>1. IsFiniteSet(FullMask) /\ Cardinality(FullMask) = 6
  <2>1. \A a, b \in Int :
          IsFiniteSet(a .. b) /\ Cardinality(a .. b) = IF a > b THEN 0 ELSE b - a + 1
    BY FS_Interval
  <2>2. 0 \in Int /\ 5 \in Int /\ ~(0 > 5) /\ 5 - 0 + 1 = 6
    OBVIOUS
  <2>3. IsFiniteSet(0 .. 5) /\ Cardinality(0 .. 5) = IF 0 > 5 THEN 0 ELSE 5 - 0 + 1
    BY <2>1, <2>2, Zenon
  <2> QED BY <2>2, <2>3 DEF FullMask
<1>2. ASSUME NEW B \in SUBSET FullMask
      PROVE  IsFiniteSet(B) /\ (Cardinality(B) = 6 <=> FullMask \subseteq B)
  <2>1. IsFiniteSet(B) /\ (Cardinality(FullMask) = Cardinality(B) => FullMask = B)
    BY <1>1, FS_Subset
  <2>2. FullMask \subseteq B => B = FullMask
    OBVIOUS
  <2> QED BY <1>1, <2>1, <2>2
<1> QED BY <1>1, <1>2

\* The launches counted by n that set a bit: all five from the 54th on, none
\* before the 14th, and one more at each of them.
LEMMA StepsOf ==
  ASSUME NEW n \in Nat
  PROVE  /\ IsFiniteSet(Steps(n))
         /\ n < 14 => Cardinality(Steps(n)) = 0
         /\ n >= 54 => Cardinality(Steps(n)) = 5
         /\ n < 54 => Cardinality(Steps(n)) \in 0 .. 4
         /\ Cardinality(Steps(n + 1)) =
              Cardinality(Steps(n)) + (IF n + 1 \in {14, 24, 34, 44, 54} THEN 1 ELSE 0)
<1> DEFINE none == {} one == none \cup {14} two == one \cup {24} three == two \cup {34}
           four == three \cup {44} five == four \cup {54}
<1>0. /\ IsFiniteSet(none) /\ Cardinality(none) = 0
      /\ IsFiniteSet(one) /\ Cardinality(one) = 1
      /\ IsFiniteSet(two) /\ Cardinality(two) = 2
      /\ IsFiniteSet(three) /\ Cardinality(three) = 3
      /\ IsFiniteSet(four) /\ Cardinality(four) = 4
      /\ IsFiniteSet(five) /\ Cardinality(five) = 5
  <2>0. IsFiniteSet(none) /\ Cardinality(none) = 0
    BY FS_EmptySet
  <2>1. 14 \notin none /\ 24 \notin one /\ 34 \notin two /\ 44 \notin three /\ 54 \notin four
    OBVIOUS
  <2> HIDE DEF none
  <2>2. IsFiniteSet(one) /\ Cardinality(one) = 1
    BY <2>0, <2>1, FS_AddElement
  <2> HIDE DEF one
  <2>3. IsFiniteSet(two) /\ Cardinality(two) = 2
    BY <2>1, <2>2, FS_AddElement
  <2> HIDE DEF two
  <2>4. IsFiniteSet(three) /\ Cardinality(three) = 3
    BY <2>1, <2>3, FS_AddElement
  <2> HIDE DEF three
  <2>5. IsFiniteSet(four) /\ Cardinality(four) = 4
    BY <2>1, <2>4, FS_AddElement
  <2> HIDE DEF four
  <2>6. IsFiniteSet(five) /\ Cardinality(five) = 5
    BY <2>1, <2>5, FS_AddElement
  <2> QED BY <2>0, <2>2, <2>3, <2>4, <2>5, <2>6
<1>1. \A m \in Nat :
        /\ m < 14 => Steps(m) = none
        /\ m >= 14 /\ m < 24 => Steps(m) = one
        /\ m >= 24 /\ m < 34 => Steps(m) = two
        /\ m >= 34 /\ m < 44 => Steps(m) = three
        /\ m >= 44 /\ m < 54 => Steps(m) = four
        /\ m >= 54 => Steps(m) = five
  BY DEF Steps
<1> HIDE DEF none, one, two, three, four, five
<1>2. \A m \in Nat :
        /\ m < 14 => Cardinality(Steps(m)) = 0
        /\ m >= 14 /\ m < 24 => Cardinality(Steps(m)) = 1
        /\ m >= 24 /\ m < 34 => Cardinality(Steps(m)) = 2
        /\ m >= 34 /\ m < 44 => Cardinality(Steps(m)) = 3
        /\ m >= 44 /\ m < 54 => Cardinality(Steps(m)) = 4
        /\ m >= 54 => Cardinality(Steps(m)) = 5
        /\ IsFiniteSet(Steps(m))
  BY <1>0, <1>1
<1> QED BY <1>2

\* A launch bit is due exactly at those launches, up to the 54th.
LEMMA DueLaunch ==
  ASSUME NEW n \in Nat, n <= 54
  PROVE  NewBitDue(n) <=> n \in {14, 24, 34, 44, 54}
BY DEF NewBitDue

\* One more launch keeps a record good: the count stops at 63 once the mask is
\* full, and the mask grows when it is due.
LEMMA LaunchedGood ==
  ASSUME NEW e \in AnyRecord, GoodRecord(e), NEW day \in Nat, NEW f \in Launched(e, day)
  PROVE  f \in AnyRecord /\ GoodRecord(f) /\ f.title = e.title
<1> DEFINE n == IF e.count + 1 >= 128 THEN 127 ELSE e.count + 1
           g == [e EXCEPT !.time = day, !.count = n]
<1>1. n = e.count + 1 /\ e.count \in 1 .. 63 /\ n \in Nat
  BY DEF GoodRecord
<1>2. g \in AnyRecord /\ g.title = e.title /\ g.count = e.count + 1 /\ g.bits = e.bits
  <2>1. g = [e EXCEPT !.time = day, !.count = n]
    OBVIOUS
  <2> HIDE DEF n, g
  <2>2. g \in AnyRecord /\ g.title = e.title /\ g.count = n /\ g.bits = e.bits
    BY <1>1, <2>1 DEF AnyRecord
  <2> QED BY <1>1, <2>2
<1>3. /\ IsFiniteSet(Steps(e.count))
      /\ e.count >= 54 => Cardinality(Steps(e.count)) = 5
      /\ e.count < 54 => Cardinality(Steps(e.count)) \in 0 .. 4
      /\ Cardinality(Steps(e.count + 1)) = Cardinality(Steps(e.count))
           + (IF e.count + 1 \in {14, 24, 34, 44, 54} THEN 1 ELSE 0)
  BY <1>1, StepsOf
<1>4. /\ IsFiniteSet(e.bits)
      /\ e.count >= 54 <=> FullMask \subseteq e.bits
  <2>1. IsFiniteSet(e.bits) /\ (Cardinality(e.bits) = 6 <=> FullMask \subseteq e.bits)
    BY MaskSize DEF GoodRecord
  <2> QED BY <1>1, <1>3, <2>1 DEF GoodRecord
<1>5. CASE FullMask \subseteq e.bits
  <2>1. f = [g EXCEPT !.count = FullCount(e), !.shift = IF e.count < 63 THEN @ ELSE 7]
    BY <1>5 DEF Launched
  <2>2. FullCount(e) \in 1 .. 63 /\ FullCount(e) >= 54
    BY <1>1, <1>4, <1>5 DEF FullCount
  <2>3. /\ f \in AnyRecord /\ f.title = e.title
        /\ f.count = FullCount(e) /\ f.bits = e.bits
    <3> DEFINE b == IF e.count < 63 THEN g.shift ELSE 7
    <3>1. b \in Nat /\ FullCount(e) \in Nat
      BY <1>2, <2>2 DEF AnyRecord
    <3>2. f = [g EXCEPT !.count = FullCount(e), !.shift = b]
      BY <2>1
    <3> HIDE DEF g, b
    <3> QED BY <1>2, <3>1, <3>2 DEF AnyRecord
  <2>4. Cardinality(Steps(f.count)) = 5
    BY <2>2, <2>3, StepsOf
  <2> QED BY <1>1, <1>3, <1>4, <1>5, <2>2, <2>3, <2>4 DEF GoodRecord
<1>6. CASE ~(FullMask \subseteq e.bits) /\ NewBitDue(n)
  <2>1. PICK b \in MissingBits(e) : f = [g EXCEPT !.shift = b, !.bits = @ \cup {b}]
    BY <1>6 DEF Launched
  <2>2. b \in FullMask /\ b \notin e.bits /\ b \in Nat
    BY <2>1 DEF MissingBits, FullMask
  <2>3. Cardinality(e.bits \cup {b}) = Cardinality(e.bits) + 1
    BY <1>4, <2>2, FS_AddElement
  <2>4. /\ f \in AnyRecord /\ f.title = e.title
        /\ f.count = e.count + 1 /\ f.bits = e.bits \cup {b}
    <3>1. f = [g EXCEPT !.shift = b, !.bits = g.bits \cup {b}]
      BY <2>1
    <3> HIDE DEF g
    <3>2. g.bits \cup {b} \in SUBSET FullMask
      BY <1>2, <2>2 DEF GoodRecord
    <3> QED BY <1>2, <2>2, <3>1, <3>2 DEF AnyRecord
  <2>5. e.count < 54 /\ e.count + 1 \in {14, 24, 34, 44, 54}
    BY <1>1, <1>4, <1>6, DueLaunch
  <2>6. f.count \in 1 .. 63 /\ f.bits \in SUBSET FullMask
    BY <1>1, <2>2, <2>4, <2>5 DEF GoodRecord
  <2>7. Cardinality(f.bits) = 1 + Cardinality(Steps(f.count))
    BY <1>3, <2>3, <2>4, <2>5 DEF GoodRecord
  <2> QED BY <2>4, <2>6, <2>7 DEF GoodRecord
<1>7. CASE ~(FullMask \subseteq e.bits) /\ ~NewBitDue(n)
  <2>1. f = g
    BY <1>7 DEF Launched
  <2>2. e.count < 54 /\ e.count + 1 \notin {14, 24, 34, 44, 54}
    BY <1>1, <1>4, <1>7, DueLaunch
  <2> QED BY <1>1, <1>2, <1>3, <2>1, <2>2 DEF GoodRecord
<1> QED BY <1>5, <1>6, <1>7

\* The record of a title launched for the first time is good.
LEMMA NewRecordGood ==
  ASSUME NEW t \in Titles, NEW day \in Nat
  PROVE  LET e == NewRecord(t, day) IN e \in AnyRecord /\ GoodRecord(e) /\ e.title = t
<1>1. /\ NewRecord(t, day) \in AnyRecord /\ NewRecord(t, day).title = t
      /\ NewRecord(t, day).count = 1 /\ NewRecord(t, day).bits = {0}
  BY DEF NewRecord, AnyRecord, FullMask
<1>2. Cardinality({0}) = 1 /\ {0} \in SUBSET FullMask
  BY FS_Singleton DEF FullMask
<1>3. Cardinality(Steps(1)) = 0
  BY StepsOf
<1> QED BY <1>1, <1>2, <1>3 DEF GoodRecord

-----------------------------------------------------------------------------
(* Lists *)

\* a list as launches make it: good records, one for each title
GoodList(l) ==
  /\ l \in [1 .. Slots -> AnyRecord]
  /\ \A i \in Used(l) : GoodRecord(l[i])
  /\ \A i, j \in Used(l) : l[i].title = l[j].title => i = j

LEMMA EmptyGood == GoodList(Empty) /\ TitlesOf(Empty) = {}
<1>1. Blank \in AnyRecord /\ Blank.title = NoTitle
  BY DEF Blank, AnyRecord
<1>2. Empty \in [1 .. Slots -> AnyRecord] /\ Used(Empty) = {}
  BY <1>1 DEF Empty, Used
<1> QED BY <1>2 DEF GoodList, TitlesOf

\* A record put in place of another, or of none, whose title no other slot has.
LEMMA PutRecord ==
  ASSUME NEW l, GoodList(l), NEW k \in 1 .. Slots, NEW e \in AnyRecord, GoodRecord(e),
         e.title \in Titles, \A i \in Used(l) : l[i].title = e.title => i = k
  PROVE  /\ GoodList([l EXCEPT ![k] = e])
         /\ TitlesOf(l) \subseteq
              TitlesOf([l EXCEPT ![k] = e]) \cup (IF k \in Used(l) THEN {l[k].title} ELSE {})
         /\ e.title \in TitlesOf([l EXCEPT ![k] = e])
<1> DEFINE m == [l EXCEPT ![k] = e]
<1>1. m \in [1 .. Slots -> AnyRecord] /\ m[k] = e /\ \A i \in 1 .. Slots \ {k} : m[i] = l[i]
  BY DEF GoodList
<1>2. e.title # NoTitle
  BY HistoryAssumption
<1> HIDE DEF m
<1>3. Used(m) = Used(l) \cup {k}
  BY <1>1, <1>2 DEF Used
<1>4. \A i \in Used(m) : GoodRecord(m[i])
  BY <1>1, <1>3 DEF GoodList, Used
<1>5. \A i, j \in Used(m) : m[i].title = m[j].title => i = j
  BY <1>1, <1>3 DEF GoodList, Used
<1>6. \A i \in Used(l) \ {k} : l[i].title \in TitlesOf(m)
  BY <1>1, <1>3 DEF TitlesOf, Used
<1>7. TitlesOf(l) \subseteq TitlesOf(m) \cup (IF k \in Used(l) THEN {l[k].title} ELSE {})
  BY <1>6 DEF TitlesOf
<1>8. e.title \in TitlesOf(m)
  BY <1>1, <1>3 DEF TitlesOf
<1>9. GoodList(m)
  BY <1>1, <1>4, <1>5 DEF GoodList
<1> QED BY <1>7, <1>8, <1>9 DEF m

\* processHistoryList keeps a list good, and what leaves it is what evictEntry
\* is told to append to history.old, whichever slot the scan chose.
LEMMA ProcessedGood ==
  ASSUME NEW l, GoodList(l), NEW t \in Titles, NEW day \in Nat, NEW m \in Processed(l, t, day)
  PROVE  GoodList(m) /\ TitlesOf(l) \subseteq TitlesOf(m) \cup Evicted(l, t)
<1> DEFINE known == SlotsOf(l, t)
           first == CHOOSE i \in known : \A k \in known : i <= k
<1>0. NewRecord(t, day) \in AnyRecord /\ GoodRecord(NewRecord(t, day)) /\ NewRecord(t, day).title = t
  BY NewRecordGood
<1>1. CASE known # {}
  <2>1. PICK i \in known : known = {i}
    BY <1>1 DEF GoodList, SlotsOf
  <2>2. first = i /\ i \in Used(l) /\ l[i].title = t /\ i \in 1 .. Slots
    <3>1. i \in Used(l) /\ l[i].title = t /\ i \in 1 .. Slots
      BY <2>1 DEF SlotsOf, Used
    <3>2. i <= i
      BY <3>1
    <3> QED BY <2>1, <3>1, <3>2
  <2>3. PICK e \in Launched(l[i], day) : m = [l EXCEPT ![i] = e]
    BY <1>1, <2>2 DEF Processed
  <2>4. e \in AnyRecord /\ GoodRecord(e) /\ e.title = t
    BY <2>2, LaunchedGood DEF GoodList
  <2>5. \A j \in Used(l) : l[j].title = e.title => j = i
    BY <2>1, <2>4 DEF SlotsOf
  <2>6. /\ GoodList(m) /\ t \in TitlesOf(m)
        /\ TitlesOf(l) \subseteq TitlesOf(m) \cup {t}
    BY <2>2, <2>3, <2>4, <2>5, PutRecord
  <2> QED BY <2>6
<1>2. CASE known = {} /\ Full(l)
  <2>1. m = [l EXCEPT ![LeastUsed(l)] = NewRecord(t, day)]
    BY <1>2 DEF Processed
  <2>2. Evicted(l, t) = {l[LeastUsed(l)].title}
    BY <1>2 DEF Evicted
  <2>3. \A i \in Used(l) : l[i].title # t
    BY <1>2 DEF SlotsOf
  <2>4. CASE LeastUsed(l) \in 1 .. Slots
    BY <1>0, <2>1, <2>2, <2>3, <2>4, PutRecord
  <2>5. CASE LeastUsed(l) \notin 1 .. Slots
    <3>1. m = l
      BY <2>1, <2>5 DEF GoodList
    <3> QED BY <3>1
  <2> QED BY <2>4, <2>5
<1>3. CASE known = {} /\ ~Full(l)
  <2>1. PICK i \in FreeSlots(l) : m = [l EXCEPT ![i] = NewRecord(t, day)]
    BY <1>3 DEF Processed
  <2>2. \A j \in Used(l) : l[j].title # t
    BY <1>3 DEF SlotsOf
  <2>3. i \in 1 .. Slots /\ i \notin Used(l)
    BY <2>1 DEF FreeSlots
  <2> QED BY <1>0, <2>1, <2>2, <2>3, PutRecord
<1> QED BY <1>1, <1>2, <1>3
-----------------------------------------------------------------------------
(* updateHistoryFile *)

\* What holds of the lists, in memory and on every card.
Lists ==
  /\ card \in CardIds /\ title \in Titles \cup {NoTitle}
  /\ pc \in {"idle", "card", "open", "write"} /\ (pc # "idle" => title \in Titles)
  /\ file \in [CardIds -> {"missing", "short", "full"}]
  /\ DOMAIN content = CardIds /\ content = [c \in CardIds |-> content[c]]
  /\ \A c \in CardIds : GoodList(content[c])
  /\ GoodList(list)

\* What NothingLost needs to be inductive: between the change of the list and
\* the loss of the old file, every title is in one of the two places.
Kept ==
  /\ old = [c \in CardIds |-> old[c]] /\ written = [c \in CardIds |-> written[c]]
  /\ NothingLost
  /\ pc = "open" /\ card \notin failed => TitlesOf(Loaded) \subseteq TitlesOf(list) \cup old[card]

LEMMA NextCardStays ==
  ASSUME Lists, NextCard
  PROVE  card' \in CardIds /\ pc' \in {"idle", "card"} /\ (pc' = "card" => card' # card)
BY HistoryAssumption DEF Lists, NextCard, CardIds

LEMMA LoadedGood == ASSUME Lists PROVE GoodList(Loaded)
BY EmptyGood DEF Lists, Loaded

LEMMA ListsInit == Init => Lists
BY EmptyGood, HistoryAssumption DEF Init, Lists, CardIds

LEMMA ListsStep == Lists /\ [Next]_vars => Lists'
<1> SUFFICES ASSUME Lists, [Next]_vars PROVE Lists'
  OBVIOUS
<1>1. ASSUME NEW t \in Titles, Begin(t) PROVE Lists'
  BY <1>1, HistoryAssumption DEF Begin, Lists, CardIds
<1>2. CASE SkipCard
  BY <1>2, NextCardStays DEF SkipCard, Lists
<1>3. ASSUME NEW day \in Days, Process(day) PROVE Lists'
  <2>1. title \in Titles /\ day \in Nat /\ list' \in Processed(Loaded, title, day)
    BY <1>3, HistoryAssumption DEF Process, Lists
  <2>2. GoodList(list')
    BY <2>1, LoadedGood, ProcessedGood
  <2> QED BY <1>3, <2>2 DEF Process, Lists
<1>10. ASSUME NEW day \in Days, ProcessUnread(day) PROVE Lists'
  <2>1. title \in Titles /\ day \in Nat /\ list' \in Processed(Empty, title, day)
    BY <1>10, HistoryAssumption DEF ProcessUnread, Lists
  <2>2. GoodList(list')
    BY <2>1, EmptyGood, ProcessedGood
  <2> QED BY <1>10, <2>2 DEF ProcessUnread, Lists
<1>4. CASE Truncate
  BY <1>4 DEF Truncate, Lists
<1>5. CASE OpenFails
  BY <1>5, NextCardStays DEF OpenFails, Lists
<1>6. CASE Write
  <2>1. /\ content' = [content EXCEPT ![card] = list] /\ file' = [file EXCEPT ![card] = "full"]
        /\ UNCHANGED <<list, title>>
    BY <1>6 DEF Write
  <2>2. /\ DOMAIN content' = CardIds /\ content' = [c \in CardIds |-> content'[c]]
        /\ \A c \in CardIds : GoodList(content'[c])
    BY <2>1 DEF Lists
  <2> QED BY <1>6, <2>1, <2>2, NextCardStays DEF Lists, Write
<1>7. CASE WriteFails
  BY <1>7, NextCardStays DEF WriteFails, Lists
<1>8. CASE PowerOff
  BY <1>8 DEF PowerOff, Lists
<1>9. CASE UNCHANGED vars
  BY <1>9 DEF vars, Lists
<1> QED BY <1>1, <1>2, <1>3, <1>4, <1>5, <1>6, <1>7, <1>8, <1>9, <1>10 DEF Next, Update

LEMMA ListsAlways == Spec => []Lists
BY ListsInit, ListsStep, PTL DEF Spec

\* A title has one record on a card, however often it was recorded, evicted and
\* recorded again, for any number of slots, cards and titles.
THEOREM OneRecordAlways == Spec => []OneRecord
<1>1. Lists => OneRecord
  BY DEF Lists, GoodList, OneRecord, CardIds
<1> QED BY <1>1, ListsAlways, PTL

\* The number of bits of a record's mask follows its launch count, and the
\* count stays between 1 and 63.
THEOREM BitsFollowCountAlways == Spec => []BitsFollowCount
<1>1. Lists => BitsFollowCount
  BY DEF Lists, GoodList, GoodRecord, Steps, BitsFollowCount, CardIds
<1> QED BY <1>1, ListsAlways, PTL

LEMMA KeptInit == Init => Kept
BY EmptyGood DEF Init, Kept, NothingLost, CardIds

LEMMA KeptStep == Lists /\ Kept /\ [Next]_vars => Kept'
<1> SUFFICES ASSUME Lists, Kept, [Next]_vars PROVE Kept'
  OBVIOUS
<1> USE DEF CardIds
<1>0. card \in 1 .. Cards
  BY DEF Lists
<1>1. ASSUME NEW t \in Titles, Begin(t) PROVE Kept'
  BY <1>1 DEF Begin, Kept, NothingLost
<1>2. CASE SkipCard
  BY <1>2, NextCardStays DEF SkipCard, Kept, NothingLost
<1>3. ASSUME NEW day \in Days, Process(day) PROVE Kept'
  <2> DEFINE gone == Evicted(Loaded, title)
  <2>1. TitlesOf(Loaded) \subseteq TitlesOf(list') \cup gone
    <3>1. title \in Titles /\ day \in Nat /\ list' \in Processed(Loaded, title, day)
      BY <1>3, HistoryAssumption DEF Process, Lists
    <3> QED BY <3>1, LoadedGood, ProcessedGood
  <2>2. /\ pc = "card" /\ pc' = "open" /\ UNCHANGED <<file, content, card, written>>
        /\ \/ old' = [old EXCEPT ![card] = @ \cup gone] /\ UNCHANGED failed
           \/ failed' = failed \cup {card} /\ UNCHANGED old
    BY <1>3 DEF Process
  <2>3. Loaded' = Loaded
    BY <2>2 DEF Loaded
  <2> HIDE DEF gone
  <2>4. CASE old' = [old EXCEPT ![card] = @ \cup gone] /\ UNCHANGED failed
    <3>1. /\ old' = [c \in 1 .. Cards |-> old'[c]]
          /\ old'[card] = old[card] \cup gone /\ \A c \in 1 .. Cards : old[c] \subseteq old'[c]
      BY <1>0, <2>4 DEF Kept
    <3>2. NothingLost'
      BY <2>2, <2>4, <3>1 DEF Kept, NothingLost
    <3>3. TitlesOf(Loaded') \subseteq TitlesOf(list') \cup old'[card']
      BY <2>1, <2>2, <2>3, <3>1
    <3> QED BY <2>2, <3>1, <3>2, <3>3 DEF Kept
  <2>5. CASE failed' = failed \cup {card} /\ UNCHANGED old
    BY <2>2, <2>5 DEF Kept, NothingLost
  <2> QED BY <2>2, <2>4, <2>5
<1>10. ASSUME NEW day \in Days, ProcessUnread(day) PROVE Kept'
  BY <1>10 DEF ProcessUnread, Kept, NothingLost
<1>4. CASE Truncate
  <2>1. /\ pc = "open" /\ pc' = "write" /\ file' = [file EXCEPT ![card] = "short"]
        /\ UNCHANGED <<content, old, card, list, written, failed>>
    BY <1>4 DEF Truncate
  <2>2. ASSUME NEW c \in 1 .. Cards, c \notin failed
        PROVE  written[c] \subseteq
                 TitlesOf(IF c = card THEN list ELSE IF file[c] = "full" THEN content[c] ELSE Empty)
                   \cup old[c]
    <3>1. written[c] \subseteq TitlesOf(IF file[c] = "full" THEN content[c] ELSE Empty) \cup old[c]
      BY <2>1, <2>2 DEF Kept, NothingLost
    <3>2. CASE c = card
      <4>1. TitlesOf(Loaded) \subseteq TitlesOf(list) \cup old[c]
        BY <2>1, <2>2, <3>2 DEF Kept
      <4>2. Loaded = IF file[c] = "full" THEN content[c] ELSE Empty
        BY <3>2 DEF Loaded
      <4> QED BY <3>1, <3>2, <4>1, <4>2
    <3> QED BY <3>1, <3>2
  <2>3. \A c \in 1 .. Cards : c # card => file'[c] = file[c]
    BY <2>1 DEF Lists
  <2>4. NothingLost'
    BY <2>1, <2>2, <2>3 DEF NothingLost
  <2> QED BY <2>1, <2>4 DEF Kept
<1>5. CASE OpenFails
  BY <1>5, NextCardStays DEF OpenFails, Kept, NothingLost
<1>6. CASE Write
  <2>1. /\ pc = "write" /\ pc' \in {"idle", "card"}
        /\ file' = [file EXCEPT ![card] = "full"] /\ content' = [content EXCEPT ![card] = list]
        /\ written' = [written EXCEPT ![card] = @ \cup TitlesOf(list)]
        /\ UNCHANGED <<old, failed>>
    BY <1>6, NextCardStays DEF Write
  <2>2. /\ file'[card] = "full" /\ content'[card] = list
        /\ written'[card] = written[card] \cup TitlesOf(list)
        /\ written' = [c \in 1 .. Cards |-> written'[c]]
        /\ \A c \in 1 .. Cards \ {card} :
             file'[c] = file[c] /\ content'[c] = content[c] /\ written'[c] = written[c]
    BY <1>0, <2>1 DEF Lists, Kept
  <2>3. ASSUME NEW c \in 1 .. Cards, c \notin failed
        PROVE  written'[c] \subseteq
                 TitlesOf(IF file'[c] = "full" THEN content'[c] ELSE Empty) \cup old[c]
    <3>1. CASE c = card
      <4>1. written[card] \subseteq TitlesOf(list) \cup old[card]
        BY <2>1, <2>3, <3>1 DEF Kept, NothingLost
      <4> QED BY <2>2, <3>1, <4>1
    <3>2. CASE c # card
      <4>1. written[c] \subseteq TitlesOf(IF file[c] = "full" THEN content[c] ELSE Empty) \cup old[c]
        BY <2>1, <2>3, <3>2 DEF Kept, NothingLost
      <4> QED BY <2>2, <3>2, <4>1
    <3> QED BY <3>1, <3>2
  <2>4. NothingLost'
    BY <2>1, <2>3 DEF NothingLost
  <2> QED BY <2>1, <2>2, <2>4 DEF Kept
<1>7. CASE WriteFails
  BY <1>7, NextCardStays DEF WriteFails, Kept, NothingLost
<1>8. CASE PowerOff
  BY <1>8 DEF PowerOff, Kept, NothingLost
<1>9. CASE UNCHANGED vars
  BY <1>9 DEF vars, Kept, NothingLost, Loaded
<1> QED BY <1>1, <1>2, <1>3, <1>4, <1>5, <1>6, <1>7, <1>8, <1>9, <1>10 DEF Next, Update

\* Unless an operation on a card failed or was cut short, a title the card ever
\* recorded is still in its list or has been moved to history.old.
THEOREM NothingLostAlways == Spec => []NothingLost
<1>1. Lists /\ Kept => NothingLost
  BY DEF Kept
<1> QED BY <1>1, ListsAlways, KeptInit, KeptStep, PTL DEF Spec
-----------------------------------------------------------------------------
(* The record that makes room *)

\* f is what the scan has seen after each slot, up to slot n.
ScansTo(f, l, n) ==
  f = [i \in 0 .. n |->
         IF i = 0 THEN [idx |-> 1, least |-> Infinite, time |-> Infinite]
         ELSE IF l[i].title = NoTitle THEN f[i - 1]
         ELSE ScanSlot(f[i - 1], i, l[i])]

Scans(f, l) == ScansTo(f, l, Slots)

LEMMA ScansExists ==
  ASSUME NEW l, NEW m \in Nat
  PROVE  \E f : ScansTo(f, l, m)
<1> DEFINE bad == {k \in Nat : ~ \E f : ScansTo(f, l, k)}
<1> SUFFICES ASSUME bad # {} PROVE FALSE
  OBVIOUS
<1>1. PICK k \in bad : \A j \in bad : k <= j
  BY Smallest
<1>2. k # 0
  <2> DEFINE r == [idx |-> 1, least |-> Infinite, time |-> Infinite]
  <2> DEFINE f == [i \in 0 .. 0 |-> r]
  <2>1. f = [i \in 0 .. 0 |-> IF i = 0 THEN r ELSE IF l[i].title = NoTitle THEN f[i - 1]
                              ELSE ScanSlot(f[i - 1], i, l[i])]
    <3> HIDE DEF r
    <3> QED OBVIOUS
  <2> QED BY <2>1 DEF ScansTo
<1>3. k - 1 \in Nat /\ k - 1 \notin bad
  BY <1>1, <1>2
<1>4. PICK f : ScansTo(f, l, k - 1)
  BY <1>3
<1> DEFINE last == IF l[k].title = NoTitle THEN f[k - 1] ELSE ScanSlot(f[k - 1], k, l[k])
           g == [i \in 0 .. k |-> IF i = k THEN last ELSE f[i]]
           r == [idx |-> 1, least |-> Infinite, time |-> Infinite]
<1>5. \A i \in 0 .. k : g[i] = IF i = 0 THEN r ELSE IF l[i].title = NoTitle THEN g[i - 1]
                                ELSE ScanSlot(g[i - 1], i, l[i])
  <2> TAKE i \in 0 .. k
  <2>1. CASE i = k
    <3>1. g[i] = last /\ g[i - 1] = f[i - 1] /\ i # 0
      BY <1>2, <2>1
    <3> QED BY <2>1, <3>1
  <2>2. CASE i # k
    <3>1. g[i] = f[i] /\ (i # 0 => g[i - 1] = f[i - 1])
      BY <2>2
    <3> HIDE DEF g
    <3> QED BY <1>3, <1>4, <2>2, <3>1 DEF ScansTo
  <2> QED BY <2>1, <2>2
<1>6. ScansTo(g, l, k)
  BY <1>5 DEF ScansTo
<1> QED BY <1>1, <1>6

\* LeastUsed is the slot that the scan ends with.
LEMMA LeastUsedScans == ASSUME NEW l PROVE \E f : Scans(f, l) /\ LeastUsed(l) = f[Slots].idx
<1> DEFINE R == CHOOSE f : Scans(f, l)
<1>1. Scans(R, l)
  <2>1. \E f : Scans(f, l)
    BY HistoryAssumption, ScansExists DEF Scans
  <2> QED BY <2>1
<1>2. LeastUsed(l) = R[Slots].idx
  BY Zenon DEF LeastUsed, Scans, ScansTo
<1> QED BY <1>1, <1>2

\* After slot n the scan is at a record with the smallest count so far,
\* although the date it compares with may be an earlier record's.
AtLeast(s, l, n) ==
  /\ (\A j \in Used(l) : j > n) => s.least = Infinite
  /\ (\E j \in Used(l) : j <= n) =>
       /\ s.idx \in Used(l) /\ s.least = l[s.idx].count
       /\ \A j \in Used(l) : j <= n => s.least <= l[j].count

LEMMA ScanSlotSees ==
  ASSUME NEW l, GoodList(l), NEW n \in 1 .. Slots, NEW s, AtLeast(s, l, n - 1)
  PROVE  /\ l[n].title = NoTitle => AtLeast(s, l, n)
         /\ l[n].title # NoTitle => AtLeast(ScanSlot(s, n, l[n]), l, n)
<1>0. /\ Used(l) \subseteq Int /\ (n \in Used(l) <=> l[n].title # NoTitle)
      /\ \A j \in Used(l) : j <= n <=> j <= n - 1 \/ j = n
  BY DEF Used
<1>1. \A j \in Used(l) : l[j].count \in Nat /\ l[j].count < Infinite
  <2> SUFFICES ASSUME NEW j \in Used(l) PROVE l[j].count \in Nat /\ l[j].count < Infinite
    OBVIOUS
  <2>1. l[j].count \in 1 .. 63
    BY DEF GoodList, GoodRecord
  <2>2. 63 < Infinite /\ Infinite \in Nat
    BY DEF Infinite
  <2> QED BY <2>1, <2>2
<1>2. CASE l[n].title = NoTitle
  BY <1>0, <1>2 DEF AtLeast
<1>3. CASE l[n].title # NoTitle
  <2> DEFINE t == ScanSlot(s, n, l[n])
             c == l[n].count
  <2>1. c \in Nat /\ c < Infinite /\ n \in Used(l)
    BY <1>0, <1>1, <1>3
  <2>2. /\ t.least = IF c < s.least THEN c ELSE s.least
        /\ c < s.least => t.idx = n
        /\ ~(c < s.least) => t.idx = s.idx \/ (t.idx = n /\ s.least = c)
    BY DEF ScanSlot
  <2> HIDE DEF t
  <2>3. CASE \A j \in Used(l) : j > n - 1
    <3>1. t.least = c /\ t.idx = n
      BY <2>1, <2>2, <2>3 DEF AtLeast
    <3>2. \A j \in Used(l) : j <= n => j = n
      BY <1>0, <2>3
    <3> QED BY <1>0, <2>1, <3>1, <3>2 DEF AtLeast, t
  <2>4. CASE \E j \in Used(l) : j <= n - 1
    <3>1. /\ s.idx \in Used(l) /\ s.least = l[s.idx].count
          /\ \A j \in Used(l) : j <= n - 1 => s.least <= l[j].count
      BY <2>4 DEF AtLeast
    <3>2. s.least \in Nat
      BY <1>1, <3>1
    <3>3. t.idx \in Used(l) /\ t.least = l[t.idx].count
      BY <2>1, <2>2, <3>1
    <3>4. \A j \in Used(l) : j <= n => t.least <= l[j].count
      BY <1>0, <1>1, <2>1, <2>2, <3>1, <3>2
    <3> QED BY <1>0, <2>1, <3>3, <3>4 DEF AtLeast, t
  <2> QED BY <1>0, <1>3, <2>3, <2>4
<1> QED BY <1>2, <1>3

LEMMA LeastUsedIs ==
  ASSUME NEW l, GoodList(l), Full(l)
  PROVE  /\ LeastUsed(l) \in Used(l)
         /\ \A j \in Used(l) : l[LeastUsed(l)].count <= l[j].count
<1>1. PICK f : Scans(f, l) /\ LeastUsed(l) = f[Slots].idx
  BY LeastUsedScans
<1>2. Slots \in Nat /\ Slots > 0
  BY HistoryAssumption
<1>3. \A n \in 0 .. Slots : AtLeast(f[n], l, n)
  <2> DEFINE bad == {n \in 0 .. Slots : ~AtLeast(f[n], l, n)}
  <2> SUFFICES ASSUME bad # {} PROVE FALSE
    OBVIOUS
  <2>0. bad \in SUBSET Nat
    BY <1>2
  <2>1. PICK k \in bad : \A j \in bad : k <= j
    BY <2>0, Smallest, Zenon
  <2>2. k # 0
    <3>1. f[0].least = Infinite
      BY <1>1, <1>2 DEF Scans, ScansTo
    <3>2. \A j \in Used(l) : j > 0 /\ ~(j <= 0)
      BY <1>2 DEF Used
    <3>3. AtLeast(f[0], l, 0)
      BY <3>1, <3>2 DEF AtLeast
    <3> QED BY <2>1, <3>3
  <2>3. k \in 1 .. Slots /\ k - 1 \in 0 .. Slots
    BY <1>2, <2>1, <2>2
  <2>4. AtLeast(f[k - 1], l, k - 1)
    BY <2>1, <2>3
  <2>5. f[k] = IF l[k].title = NoTitle THEN f[k - 1] ELSE ScanSlot(f[k - 1], k, l[k])
    BY <1>1, <2>2, <2>3 DEF Scans, ScansTo
  <2>6. AtLeast(f[k], l, k)
    BY <2>3, <2>4, <2>5, ScanSlotSees
  <2> QED BY <2>1, <2>6
<1>4. AtLeast(f[Slots], l, Slots)
  BY <1>2, <1>3
<1>5. Used(l) = 1 .. Slots
  BY DEF Full
<1> QED BY <1>1, <1>2, <1>4, <1>5 DEF AtLeast

\* The record that makes room has the smallest launch count of the card's
\* list, although the scan does not set its date back when it finds a smaller
\* count.
THEOREM VictimLeastUsedAlways == Spec => VictimLeastUsed
<1> DEFINE Victim ==
      \A day \in Days : Process(day) =>
        \A i \in Used(Loaded) :
          Loaded[i].title \notin TitlesOf(list') =>
            \A j \in Used(Loaded) : Loaded[i].count <= Loaded[j].count
<1>1. Lists => Victim
  <2> SUFFICES ASSUME Lists, NEW day \in Days, Process(day), NEW i \in Used(Loaded),
                      Loaded[i].title \notin TitlesOf(list')
               PROVE  \A j \in Used(Loaded) : Loaded[i].count <= Loaded[j].count
    OBVIOUS
  <2>1. day \in Nat /\ title \in Titles /\ list' \in Processed(Loaded, title, day)
    BY HistoryAssumption DEF Process, Lists
  <2>2. GoodList(Loaded)
    BY LoadedGood
  <2>3. TitlesOf(Loaded) \subseteq TitlesOf(list') \cup Evicted(Loaded, title)
    BY <2>1, <2>2, ProcessedGood
  <2>4. Loaded[i].title \in Evicted(Loaded, title)
    BY <2>3 DEF TitlesOf
  <2>5. Full(Loaded) /\ Loaded[i].title = Loaded[LeastUsed(Loaded)].title
    BY <2>4 DEF Evicted
  <2>6. /\ LeastUsed(Loaded) \in Used(Loaded)
        /\ \A j \in Used(Loaded) : Loaded[LeastUsed(Loaded)].count <= Loaded[j].count
    BY <2>2, <2>5, LeastUsedIs
  <2>7. i = LeastUsed(Loaded)
    BY <2>2, <2>5, <2>6 DEF GoodList
  <2> QED BY <2>6, <2>7
<1>2. Lists /\ [Next]_vars => [Victim]_vars
  BY <1>1
<1> QED BY <1>2, ListsAlways, PTL DEF Spec, VictimLeastUsed
=============================================================================
