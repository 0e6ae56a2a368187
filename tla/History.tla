------------------------------ MODULE History ------------------------------
(***************************************************************************)
(* The play history on the memory cards (history.c): updateHistoryFile     *)
(* records the launch of a title in the history file of every card, in a   *)
(* list of fixed length whose least used record makes room for a new one.  *)
(*                                                                         *)
(* One program runs at a time.  What can come between its steps is a loss  *)
(* of power, a card that is not there and a file operation that fails.     *)
(* Bit masks are sets of bit numbers, rand() is any choice, and the date   *)
(* is any day: the clock of the console can be set at will.                *)
(***************************************************************************)
EXTENDS Integers, Sequences, FiniteSets

CONSTANTS
  Slots,     \* MAX_HISTORY_ENTRIES (21)
  Titles,    \* title IDs
  NoTitle,   \* an empty titleID
  Days,      \* dates as getTimestamp packs them, later days being larger
  Cards,     \* number of memory cards (2)
  MaxRuns    \* bound on the launches of a behaviour

ASSUME HistoryAssumption ==
  /\ {Slots, Cards} \subseteq Nat \ {0} /\ MaxRuns \in Nat
  /\ NoTitle \notin Titles /\ Days \subseteq Nat

Blank   == [title |-> NoTitle, count |-> 0, bits |-> {}, shift |-> 0, time |-> 0]
Empty   == [i \in 1 .. Slots |-> Blank]

VARIABLES
  file,     \* the history file of each card: "missing", "short" or "full"
  content,  \* its records, when it is full
  old,      \* titles in history.old of each card
  pc, title, card, list,   \* updateHistoryFile and its locals
  runs,     \* launches so far
  written,  \* titles each card has had in a complete file
  failed    \* cards where an operation failed or was cut short

vars == <<file, content, old, pc, title, card, list, runs, written, failed>>

Used(l)     == {i \in 1 .. Slots : l[i].title # NoTitle}
TitlesOf(l) == {l[i].title : i \in Used(l)}

-----------------------------------------------------------------------------
(* processHistoryList *)

\* The scan for the record to replace, and one with a comparison turned round.
\* After slot i it has seen `least` as the smallest launch count and has moved
\* idx and its timestamp as the code does: the timestamp is not set back when a
\* smaller launch count is found.
Infinite == 65536

ScanMostUsed(s, i, e) ==
  IF e.count > s.least \/ s.least = Infinite
    THEN [idx |-> i, least |-> e.count, time |-> e.time] ELSE s

ScanSlot(s, i, e) ==
  LET fewer == e.count < s.least
      least == IF fewer THEN e.count ELSE s.least
      older == least = e.count /\ e.time < s.time
  IN  [idx   |-> IF older \/ fewer THEN i ELSE s.idx,
       least |-> least,
       time  |-> IF older THEN e.time ELSE s.time]

LeastUsed(l) ==
  LET scan[i \in 0 .. Slots] ==
        IF i = 0 THEN [idx |-> 1, least |-> Infinite, time |-> Infinite]
        ELSE IF l[i].title = NoTitle THEN scan[i - 1]
        ELSE ScanSlot(scan[i - 1], i, l[i])
  IN  scan[Slots].idx

\* the six bits a mask can have
FullMask == 0 .. 5
MissingBits(e) == FullMask \ e.bits

\* every tenth launch from the 14th on sets one more bit, and every launch
EachLaunch(n) == n >= 14
NewBitDue(n) == n >= 14 /\ (n - 14) % 10 = 0

\* with a full mask the count stops at 0x3F
FullCount(e) == IF e.count < 63 THEN e.count + 1 ELSE 63

\* One more launch of a recorded title: a record whose mask is not full gets
\* one of the missing bits when due.
Launched(e, day) ==
  LET n == IF e.count + 1 >= 128 THEN 127 ELSE e.count + 1
      f == [e EXCEPT !.time = day, !.count = n]
  IN
  IF FullMask \subseteq e.bits
    THEN {[f EXCEPT !.count = FullCount(e), !.shift = IF e.count < 63 THEN @ ELSE 7]}
    ELSE IF NewBitDue(n) THEN {[f EXCEPT !.shift = b, !.bits = @ \cup {b}] : b \in MissingBits(e)}
    ELSE {f}

NewRecord(t, day) == [title |-> t, count |-> 1, bits |-> {0}, shift |-> 0, time |-> day]

\* The record of a title, looked for in all slots or up to the first blank one
SlotsBeforeBlank(l, t) ==
  {i \in Used(l) : l[i].title = t /\ 1 .. i \subseteq Used(l)}
SlotsOf(l, t) == {i \in Used(l) : l[i].title = t}

\* any unused slot, or any slot
AnySlot(l) == 1 .. Slots
FreeSlots(l) == (1 .. Slots) \ Used(l)

Full(l) == Used(l) = 1 .. Slots

Processed(l, t, day) ==
  LET known == SlotsOf(l, t)
      first == CHOOSE i \in known : \A k \in known : i <= k
  IN
  IF known # {} THEN {[l EXCEPT ![first] = e] : e \in Launched(l[first], day)}
  ELSE IF Full(l) THEN {[l EXCEPT ![LeastUsed(l)] = NewRecord(t, day)]}
  ELSE {[l EXCEPT ![i] = NewRecord(t, day)] : i \in FreeSlots(l)}

\* evictEntry: what is to be appended to history.old
Evicted(l, t) ==
  IF SlotsOf(l, t) = {} /\ Full(l) THEN {l[LeastUsed(l)].title} ELSE {}

-----------------------------------------------------------------------------
(* updateHistoryFile *)

Init ==
  /\ file = [c \in 1 .. Cards |-> "missing"] /\ content = [c \in 1 .. Cards |-> Empty]
  /\ old = [c \in 1 .. Cards |-> {}]
  /\ pc = "idle" /\ title = NoTitle /\ card = 1 /\ list = Empty
  /\ runs = 0 /\ written = [c \in 1 .. Cards |-> {}] /\ failed = {}

Begin(t) ==
  /\ pc = "idle" /\ runs < MaxRuns
  /\ title' = t /\ card' = 1 /\ runs' = runs + 1 /\ pc' = "card"
  /\ UNCHANGED <<file, content, old, list, written, failed>>

NextCard ==
  IF card < Cards THEN card' = card + 1 /\ pc' = "card" ELSE pc' = "idle" /\ UNCHANGED card

\* not a formatted PS2 card, or the system directory cannot be created
SkipCard ==
  /\ pc = "card" /\ NextCard
  /\ UNCHANGED <<file, content, old, title, list, runs, written, failed>>

\* what read() delivers, an incomplete file being replaced by an empty list
Loaded == IF file[card] = "full" THEN content[card] ELSE Empty

\* A record that makes room is appended to history.old first, if that works.
Process(day) ==
  /\ pc = "card"
  /\ list' \in Processed(Loaded, title, day)
  /\ LET gone == Evicted(Loaded, title) IN
     \/ old' = [old EXCEPT ![card] = @ \cup gone] /\ UNCHANGED failed
     \/ gone # {} /\ failed' = failed \cup {card} /\ UNCHANGED old
  /\ pc' = "open" /\ UNCHANGED <<file, content, title, card, runs, written>>

\* A complete file that cannot be opened or read to its end: the list starts
\* empty, and is written over the file all the same.
ProcessUnread(day) ==
  /\ pc = "card" /\ file[card] = "full"
  /\ list' \in Processed(Empty, title, day)
  /\ failed' = failed \cup {card}
  /\ pc' = "open" /\ UNCHANGED <<file, content, old, title, card, runs, written>>

\* open with O_TRUNC
Truncate ==
  /\ pc = "open"
  /\ file' = [file EXCEPT ![card] = "short"] /\ pc' = "write"
  /\ UNCHANGED <<content, old, title, card, list, runs, written, failed>>

OpenFails ==
  /\ pc = "open" /\ NextCard /\ failed' = failed \cup {card}
  /\ UNCHANGED <<file, content, old, title, list, runs, written>>

Write ==
  /\ pc = "write" /\ NextCard
  /\ file' = [file EXCEPT ![card] = "full"] /\ content' = [content EXCEPT ![card] = list]
  /\ written' = [written EXCEPT ![card] = @ \cup TitlesOf(list)]
  /\ UNCHANGED <<old, title, list, runs, failed>>

WriteFails ==
  /\ pc = "write" /\ NextCard /\ failed' = failed \cup {card}
  /\ UNCHANGED <<file, content, old, title, list, runs, written>>

PowerOff ==
  /\ pc # "idle" /\ pc' = "idle"
  /\ failed' = IF pc = "write" THEN failed \cup {card} ELSE failed
  /\ UNCHANGED <<file, content, old, title, card, list, runs, written>>

Update ==
  \/ SkipCard \/ (\E day \in Days : Process(day) \/ ProcessUnread(day))
  \/ Truncate \/ OpenFails \/ Write \/ WriteFails

Next == (\E t \in Titles : Begin(t)) \/ Update \/ PowerOff

Spec == Init /\ [][Next]_vars

-----------------------------------------------------------------------------

Records ==
  [title : Titles \cup {NoTitle}, count : 0 .. 127, bits : SUBSET FullMask,
   shift : 0 .. 7, time : Days \cup {0}]

\* The type invariant.
TypeOK ==
  /\ file \in [1 .. Cards -> {"missing", "short", "full"}]
  /\ DOMAIN content = 1 .. Cards
  /\ \A c \in 1 .. Cards :
       DOMAIN content[c] = 1 .. Slots /\ \A i \in 1 .. Slots : content[c][i] \in Records
  /\ old \in [1 .. Cards -> SUBSET Titles] /\ written \in [1 .. Cards -> SUBSET Titles]
  /\ pc \in {"idle", "card", "open", "write"} /\ card \in 1 .. Cards
  /\ title \in Titles \cup {NoTitle}
  /\ DOMAIN list = 1 .. Slots /\ \A i \in 1 .. Slots : list[i] \in Records
  /\ runs \in Nat /\ failed \subseteq 1 .. Cards

\* A title has one record on a card, however often it was recorded, evicted
\* and recorded again (the search runs over all slots, blank ones between).
OneRecord ==
  \A c \in 1 .. Cards :
    \A i, j \in Used(content[c]) : content[c][i].title = content[c][j].title => i = j

\* Unless an operation on this card failed or was cut short, a title it ever
\* recorded is still in the list or has been moved to history.old, whatever
\* happened to the other card, whose list is kept in the same memory.
NothingLost ==
  \A c \in 1 .. Cards \ failed :
    LET now == IF pc = "write" /\ card = c THEN list
               ELSE IF file[c] = "full" THEN content[c] ELSE Empty
    IN  written[c] \subseteq TitlesOf(now) \cup old[c]

\* The record that makes room has the smallest launch count of the card's
\* list ("evicting the least used title along the way").
VictimLeastUsed ==
  [][\A day \in Days : Process(day) =>
       \A i \in Used(Loaded) :
         Loaded[i].title \notin TitlesOf(list') =>
           \A j \in Used(Loaded) : Loaded[i].count <= Loaded[j].count]_vars

\* How many bits the mask has is a function of the launch count: one at the
\* start, one more at 14, 24, 34, 44 and 54 launches, all six before the count
\* stops at 63.
BitsFollowCount ==
  \A c \in 1 .. Cards :
    \A i \in Used(content[c]) :
      LET e == content[c][i]
      IN  /\ Cardinality(e.bits) = 1 + Cardinality({n \in {14, 24, 34, 44, 54} : n <= e.count})
          /\ e.count \in 1 .. 63
=============================================================================
