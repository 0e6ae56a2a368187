----------------------------- MODULE NetProofs -----------------------------
(***************************************************************************)
(* Proofs about Net, for rings of any size whose index wraps at a multiple *)
(* of it.  On the receiving side the interrupt thread misses neither an    *)
(* interrupt nor a frame, and takes frames in order.  The transmit side    *)
(* implements the queue of TxQueue.  The application's packets go to the   *)
(* host whose address they carry, or to everyone.                          *)
(***************************************************************************)
EXTENDS Net, ModArithmetic, FiniteSetTheorems, SequenceTheorems

-----------------------------------------------------------------------------
(* Distances in the ring *)

\* Places of the ring, counted from the one the thread looks at next.
Off(b) == (b - RxBDIndex) % NumRxBds

LEMMA RingSize ==
  /\ NumRxBds \in Nat /\ NumRxBds > 0 /\ RxIndexMod \in Nat /\ RxIndexMod > 0
  /\ RxIndexMod % NumRxBds = 0
BY SmapIntrAssumption

LEMMA OffRange ==
  ASSUME RxBDIndex \in Nat, NEW b \in Int
  PROVE  Off(b) \in 0 .. NumRxBds - 1
<1>1. b - RxBDIndex \in Int
  OBVIOUS
<1> QED BY <1>1, RingSize, DivMod DEF Off

LEMMA OffApart ==
  ASSUME RxBDIndex \in Nat, NEW b \in RxBds, NEW c \in RxBds, Off(b) = Off(c)
  PROVE  b = c
<1> DEFINE x == b - RxBDIndex
           y == c - RxBDIndex
<1>1. x \in Int /\ y \in Int /\ x - y < NumRxBds /\ y - x < NumRxBds /\ b \in Int /\ c \in Int
  BY RingSize DEF RxBds
<1>2. x % NumRxBds = y % NumRxBds
  BY DEF Off
<1> HIDE DEF x, y
<1>3. x = y
  BY <1>1, <1>2, RingSize, ModUnique
<1> QED BY <1>1, <1>3 DEF x, y

LEMMA OffSlot ==
  ASSUME RxBDIndex \in Nat
  PROVE  RxSlot \in RxBds /\ Off(RxSlot) = 0
<1> DEFINE q == RxBDIndex \div NumRxBds
<1>1. RxBDIndex = NumRxBds * q + RxSlot /\ RxSlot \in 0 .. NumRxBds - 1 /\ q \in Int
  BY RingSize, DivMod DEF RxSlot
<1> HIDE DEF q
<1>2. RxSlot - RxBDIndex = NumRxBds * (-q) + 0 /\ -q \in Int /\ RxSlot - RxBDIndex \in Int
  BY <1>1, RingSize, Z3
<1>3. 0 \in 0 .. NumRxBds - 1
  BY RingSize
<1>4. (RxSlot - RxBDIndex) % NumRxBds = 0
  BY <1>2, <1>3, RingSize, ModIs
<1> QED BY <1>1, <1>4 DEF Off, RxBds
-----------------------------------------------------------------------------
(* The receive ring *)

\* complete BDs: the counted frames without the one that is still coming in
Held == frameCnt - (IF filling THEN 1 ELSE 0)

\* The complete BDs are the Held ones from the thread's place on, with frames
\* numbered in that order, and the hardware's place is behind them.
Ring ==
  /\ RxBDIndex \in 0 .. RxIndexMod - 1 /\ hwRx \in RxBds /\ filling \in BOOLEAN
  /\ frameCnt \in Nat /\ arrived \in Nat /\ frameCnt <= arrived
  /\ rxBd = [b \in RxBds |-> rxBd[b]]
  /\ Held \in 0 .. NumRxBds /\ (filling => Held < NumRxBds)
  /\ Off(hwRx) = Held % NumRxBds
  /\ \A b \in RxBds : rxBd[b] # Empty <=> Off(b) < Held
  /\ \A b \in RxBds : rxBd[b] # Empty => rxBd[b].nr = arrived - frameCnt + 1 + Off(b)

ringVars == <<RxBDIndex, rxVars>>

LEMMA RingKept == ASSUME Ring, UNCHANGED ringVars PROVE Ring'
BY DEF Ring, ringVars, rxVars, Held, Off

LEMMA RingInit == IntrInit => Ring
<1> SUFFICES ASSUME IntrInit PROVE Ring
  OBVIOUS
<1>1. /\ RxBDIndex = 0 /\ hwRx = 0 /\ filling = FALSE /\ frameCnt = 0 /\ arrived = 0
      /\ rxBd = [b \in RxBds |-> Empty] /\ Held = 0
  <2>1. frameCnt = 0 /\ filling = FALSE
    BY DEF IntrInit
  <2>2. Held = 0 - 0
    BY <2>1 DEF Held
  <2> QED BY <2>2 DEF IntrInit
<1>2. 0 \in 0 .. NumRxBds - 1 /\ 0 \in RxBds /\ 0 \in 0 .. RxIndexMod - 1
  BY RingSize DEF RxBds
<1>3. \A b \in RxBds : rxBd[b] = Empty /\ ~(Off(b) < 0)
  <2> TAKE b \in RxBds
  <2>1. b \in Int /\ RxBDIndex \in Nat
    BY <1>1 DEF RxBds
  <2>2. Off(b) \in 0 .. NumRxBds - 1
    BY <2>1, OffRange
  <2> QED BY <1>1, <2>2
<1>4. Off(hwRx) = 0 % NumRxBds
  <2>1. hwRx - RxBDIndex = 0
    BY <1>1
  <2> QED BY <2>1 DEF Off
<1>5. Off(hwRx) = Held % NumRxBds /\ Held \in 0 .. NumRxBds
  BY <1>1, <1>4, RingSize
<1>6. rxBd = [b \in RxBds |-> rxBd[b]]
  BY <1>1
<1>7. filling \in BOOLEAN /\ ~filling
  BY <1>1, Zenon
<1>8. /\ RxBDIndex \in 0 .. RxIndexMod - 1 /\ hwRx \in RxBds
      /\ frameCnt \in Nat /\ arrived \in Nat /\ frameCnt <= arrived
  BY <1>1, <1>2
<1>9. \A b \in RxBds : ~(rxBd[b] # Empty) /\ ~(Off(b) < Held)
  BY <1>1, <1>3
<1> QED BY <1>5, <1>6, <1>7, <1>8, <1>9 DEF Ring

LEMMA ArriveRing == ASSUME Ring, FrameArrives PROVE Ring'
<1>1. /\ ~filling /\ rxBd[hwRx] = Empty /\ filling' = TRUE
      /\ frameCnt' = frameCnt + 1 /\ arrived' = arrived + 1 /\ UNCHANGED <<RxBDIndex, rxBd, hwRx>>
  BY DEF FrameArrives, softRest
<1>2. Held' = Held /\ Held \in 0 .. NumRxBds /\ frameCnt \in Nat /\ arrived \in Nat
  BY <1>1 DEF Held, Ring
<1>3. Held < NumRxBds
  <2>1. ~(Off(hwRx) < Held) /\ Off(hwRx) \in 0 .. NumRxBds - 1
    BY <1>1, OffRange DEF Ring, RxBds
  <2> QED BY <1>2, <2>1, RingSize
<1>4. Off(hwRx)' = Off(hwRx) /\ \A b \in RxBds : Off(b)' = Off(b)
  BY <1>1 DEF Off
<1>5. arrived' - frameCnt' = arrived - frameCnt
  BY <1>1, <1>2
<1> QED BY <1>1, <1>2, <1>3, <1>4, <1>5 DEF Ring

LEMMA CompleteRing == ASSUME Ring, NEW frame, FrameComplete(frame) PROVE Ring'
<1>1. /\ filling /\ filling' = FALSE /\ hwRx' = (hwRx + 1) % NumRxBds
      /\ rxBd' = [rxBd EXCEPT ![hwRx] = [nr |-> arrived, frame |-> frame]]
      /\ UNCHANGED <<RxBDIndex, frameCnt, arrived>>
  BY DEF FrameComplete, softRest
<1>2. /\ RxBDIndex \in Nat /\ hwRx \in RxBds /\ hwRx \in Int /\ Held \in 0 .. NumRxBds - 1
      /\ frameCnt = Held + 1 /\ Held' = Held + 1 /\ arrived \in Nat /\ frameCnt <= arrived
      /\ frameCnt \in Nat
  BY <1>1, RingSize DEF Ring, Held, RxBds
<1>3. Off(hwRx) = Held
  BY <1>2, RingSize, ModSmall DEF Ring
<1>4. \A b \in RxBds : Off(b)' = Off(b) /\ Off(b) \in Int /\ (b # hwRx => Off(b) # Held)
  <2> TAKE b \in RxBds
  <2>1. Off(b)' = Off(b) /\ b \in Int
    BY <1>1 DEF Off, RxBds
  <2>2. b # hwRx => Off(b) # Off(hwRx)
    BY <1>2, OffApart
  <2>3. Off(b) \in 0 .. NumRxBds - 1
    BY <1>2, <2>1, OffRange
  <2> QED BY <1>3, <2>1, <2>2, <2>3
<1>5. hwRx' \in RxBds
  <2>1. hwRx + 1 \in Int
    BY <1>2
  <2> QED BY <1>1, <2>1, RingSize, DivMod DEF RxBds
<1>6. Off(hwRx)' = Held' % NumRxBds
  <2> DEFINE x == hwRx - RxBDIndex
  <2>1. x \in Int /\ Off(hwRx) = x % NumRxBds
    BY <1>2 DEF Off
  <2>2. ((x % NumRxBds) + 1) % NumRxBds = (x + 1) % NumRxBds
    BY <2>1, RingSize, ModNext
  <2>3. (((hwRx + 1) % NumRxBds) - RxBDIndex) % NumRxBds = (x + 1) % NumRxBds
    <3> DEFINE q == (hwRx + 1) \div NumRxBds
               h == (hwRx + 1) % NumRxBds
               y == h - RxBDIndex
    <3>1. hwRx + 1 = NumRxBds * q + h /\ q \in Int /\ h \in Int
      <4>1. hwRx + 1 \in Int
        BY <1>2
      <4> QED BY <4>1, RingSize, DivMod
    <3> HIDE DEF q, h
    <3>2. y \in Int /\ x + 1 = y + NumRxBds * q
      BY <1>2, <3>1, RingSize, Z3
    <3> HIDE DEF x, y
    <3>3. (y + NumRxBds * q) % NumRxBds = y % NumRxBds
      BY <3>1, <3>2, RingSize, ModShift
    <3>4. y % NumRxBds = (x + 1) % NumRxBds
      BY <3>2, <3>3
    <3> QED BY <3>4 DEF y, h
  <2>4. Off(hwRx)' = (((hwRx + 1) % NumRxBds) - RxBDIndex) % NumRxBds
    BY <1>1 DEF Off
  <2> HIDE DEF x
  <2> QED BY <1>2, <1>3, <2>1, <2>2, <2>3, <2>4
<1>7. /\ rxBd' = [b \in RxBds |-> rxBd'[b]]
      /\ rxBd'[hwRx] = [nr |-> arrived, frame |-> frame]
       /\ \A b \in RxBds \ {hwRx} : rxBd'[b] = rxBd[b]
  BY <1>1, <1>2 DEF Ring
<1>8. rxBd'[hwRx] # Empty /\ rxBd'[hwRx].nr = arrived
  BY <1>2, <1>7 DEF Empty
<1>9. \A b \in RxBds : rxBd'[b] # Empty <=> Off(b)' < Held'
  BY <1>2, <1>3, <1>4, <1>7, <1>8 DEF Ring
<1>10. \A b \in RxBds : rxBd'[b] # Empty => rxBd'[b].nr = arrived' - frameCnt' + 1 + Off(b)'
  BY <1>1, <1>2, <1>3, <1>4, <1>7, <1>8 DEF Ring
<1>11. RxBDIndex' \in 0 .. RxIndexMod - 1 /\ filling' \in BOOLEAN /\ Held' \in 0 .. NumRxBds
  <2>1. RxBDIndex' \in 0 .. RxIndexMod - 1 /\ filling' \in BOOLEAN
    BY <1>1 DEF Ring
  <2> QED BY <1>2, <2>1, RingSize
<1> QED BY <1>1, <1>2, <1>5, <1>6, <1>7, <1>9, <1>10, <1>11 DEF Ring

LEMMA NextRing == ASSUME Ring, frameCnt > 0, Filled, RxNext PROVE Ring'
<1>1. /\ frameCnt' = frameCnt - 1 /\ rxBd' = [rxBd EXCEPT ![RxSlot] = Empty]
      /\ RxBDIndex' = (RxBDIndex + 1) % RxIndexMod /\ UNCHANGED <<hwRx, filling, arrived>>
  BY DEF RxNext
<1>2. /\ RxBDIndex \in Nat /\ RxBDIndex \in Int /\ RxSlot \in RxBds /\ Off(RxSlot) = 0
      /\ rxBd[RxSlot] # Empty
  <2>1. RxBDIndex \in Nat /\ RxBDIndex \in Int
    BY RingSize DEF Ring
  <2> QED BY <2>1, OffSlot DEF Filled, RxSlot
<1>3. /\ Held \in 1 .. NumRxBds /\ Held' = Held - 1 /\ arrived \in Nat /\ frameCnt \in Nat
      /\ frameCnt <= arrived
  BY <1>1, <1>2, RingSize DEF Ring, Held
<1>4. RxBDIndex' \in 0 .. RxIndexMod - 1
  <2>1. RxBDIndex + 1 \in Int
    BY <1>2
  <2> QED BY <1>1, <2>1, RingSize, DivMod
<1>5. ASSUME NEW b \in RxBds
      PROVE  /\ Off(b) \in 0 .. NumRxBds - 1 /\ (b # RxSlot => Off(b) # 0)
             /\ Off(b)' = (Off(b) - 1) % NumRxBds
             /\ b # RxSlot => Off(b)' = Off(b) - 1
             /\ b = RxSlot => Off(b)' = NumRxBds - 1
  <2>1. b \in Int /\ Off(b) \in 0 .. NumRxBds - 1
    BY <1>2, OffRange DEF RxBds
  <2>2. b # RxSlot => Off(b) # 0
    BY <1>2, OffApart
  <2>3. Off(b)' = (b - ((RxBDIndex + 1) % RxIndexMod)) % NumRxBds
    BY <1>1 DEF Off
  <2>4. (b - ((RxBDIndex + 1) % RxIndexMod)) % NumRxBds
          = (((b - RxBDIndex) % NumRxBds) - 1) % NumRxBds
    BY <1>2, <2>1, RingSize, ModTurn
  <2>5. Off(b)' = (Off(b) - 1) % NumRxBds
    BY <2>3, <2>4 DEF Off
  <2>6. ASSUME b # RxSlot PROVE Off(b)' = Off(b) - 1
    <3>1. Off(b) - 1 \in 0 .. NumRxBds - 1
      BY <2>1, <2>2, <2>6, RingSize
    <3> QED BY <2>5, <3>1, RingSize, ModSmall
  <2>7. ASSUME b = RxSlot PROVE Off(b)' = NumRxBds - 1
    <3>1. 0 - 1 = NumRxBds * (-1) + (NumRxBds - 1) /\ NumRxBds - 1 \in 0 .. NumRxBds - 1
      BY RingSize
    <3>2. (0 - 1) % NumRxBds = NumRxBds - 1
      BY <3>1, RingSize, ModIs
    <3> QED BY <1>2, <2>5, <2>7, <3>2
  <2> QED BY <2>1, <2>2, <2>5, <2>6, <2>7
<1>6. /\ rxBd' = [b \in RxBds |-> rxBd'[b]] /\ rxBd'[RxSlot] = Empty
      /\ \A b \in RxBds \ {RxSlot} : rxBd'[b] = rxBd[b]
  BY <1>1, <1>2 DEF Ring
<1>7. \A b \in RxBds : rxBd'[b] # Empty <=> Off(b)' < Held'
  <2> TAKE b \in RxBds
  <2>1. CASE b = RxSlot
    BY <1>3, <1>5, <1>6, <2>1, RingSize
  <2>2. CASE b # RxSlot
    BY <1>3, <1>5, <1>6, <2>2, RingSize DEF Ring
  <2> QED BY <2>1, <2>2
<1>8. \A b \in RxBds : rxBd'[b] # Empty => rxBd'[b].nr = arrived' - frameCnt' + 1 + Off(b)'
  <2> TAKE b \in RxBds
  <2>1. b # RxSlot => (rxBd[b] # Empty => rxBd[b].nr = arrived - frameCnt + 1 + Off(b))
    BY DEF Ring
  <2> QED BY <1>1, <1>3, <1>5, <1>6, <2>1, RingSize
<1>9. Off(hwRx)' = Held' % NumRxBds
  <2>1. hwRx \in RxBds /\ Off(hwRx) = Held % NumRxBds
    BY DEF Ring
  <2>2. Off(hwRx)' = (Off(hwRx) - 1) % NumRxBds
    <3>1. Off(hwRx)' = (hwRx - ((RxBDIndex + 1) % RxIndexMod)) % NumRxBds
      BY <1>1 DEF Off
    <3>2. hwRx \in Int
      BY <2>1 DEF RxBds
    <3>3. (hwRx - ((RxBDIndex + 1) % RxIndexMod)) % NumRxBds
            = (((hwRx - RxBDIndex) % NumRxBds) - 1) % NumRxBds
      BY <1>2, <3>2, RingSize, ModTurn
    <3> QED BY <3>1, <3>3 DEF Off
  <2>3. ((Held % NumRxBds) - 1) % NumRxBds = (Held - 1) % NumRxBds
    <3>1. Held \in Int
      BY <1>3
    <3> QED BY <3>1, RingSize, ModPrev
  <2> QED BY <1>3, <2>1, <2>2, <2>3
<1> QED BY <1>1, <1>3, <1>4, <1>6, <1>7, <1>8, <1>9, RingSize DEF Ring

-----------------------------------------------------------------------------
(* The interrupt thread *)

PhyStates == {"reset", "nego", "manual100", "manual10", "errata", "mode"}
WakeStates == {"events", "rx", "callback", "enable", "check"}

\* Where the thread is says whether the driver is up; outside the part that
\* handles interrupts it can be reached by the next one.
Flow ==
  /\ SmapIsInitialized \in BOOLEAN /\ EnableLinkCheckTimer = SmapIsInitialized
  /\ ipc \in {"off", "start", "mac"} => ~SmapIsInitialized
  /\ ipc = "off" => ~enabled
  /\ ipc = "wait" /\ ~SmapIsInitialized => ef = {"START"} /\ ~enabled
  /\ ipc = "start" => ~enabled
  /\ ipc \in WakeStates => SmapIsInitialized
  /\ ipc \in PhyStates => caller \in {"start", "check"} /\ (caller = "check" <=> SmapIsInitialized)
  /\ ipc \in PhyStates \cup {"mac", "check"} \/ (ipc = "wait" /\ SmapIsInitialized) =>
       enabled \/ "INTR" \in ef
  /\ ~SmapIsInitialized => frameCnt = 0 /\ ~filling

\* A complete frame has its interrupt still asserted, or the thread is emptying
\* the ring.
Heard ==
  /\ Complete # {} => "RXEND" \in stat \/ ipc \in {"rx", "callback"}
  /\ ipc = "callback" => frameCnt > 0 /\ Filled

LEMMA FlowInit == IntrInit => Flow
BY DEF IntrInit, Flow, WakeStates, PhyStates

LEMMA HeardInit == IntrInit => Heard
BY DEF IntrInit, Heard, Complete

flowVars == <<ipc, ef, caller, SmapIsInitialized, EnableLinkCheckTimer, enabled>>

\* The environment's steps, and the thread's start.
LEMMA OutsideFlow ==
  ASSUME Ring, Flow,
         \/ \E ok \in BOOLEAN : SmapInit(ok)
         \/ Interrupt \/ LinkCheckTimer \/ FrameArrives \/ OtherEvent \/ LinkChanges
         \/ \E frame : FrameComplete(frame)
  PROVE  Flow'
<1> USE DEF Flow, WakeStates, PhyStates, threadVars, hwRest, rxVars, softRest
<1>1. ASSUME NEW ok \in BOOLEAN, SmapInit(ok) PROVE Flow'
  BY <1>1 DEF SmapInit
<1>2. CASE Interrupt
  BY <1>2 DEF Interrupt
<1>3. CASE LinkCheckTimer
  BY <1>3 DEF LinkCheckTimer
<1>4. CASE FrameArrives
  BY <1>4 DEF FrameArrives
<1>5. CASE OtherEvent \/ LinkChanges
  BY <1>5 DEF OtherEvent, LinkChanges
<1>6. ASSUME NEW frame, FrameComplete(frame) PROVE Flow'
  BY <1>6 DEF FrameComplete
<1> QED BY <1>1, <1>2, <1>3, <1>4, <1>5, <1>6

LEMMA ThreadFlow == ASSUME Flow, IntrThread PROVE Flow'
<1> USE DEF Flow, WakeStates, PhyStates, threadVars, hwRest, rxVars, intrRest, phyRest
<1>1. CASE IntrWake
  BY <1>1 DEF IntrWake
<1>2. CASE IntrStart
  BY <1>2 DEF IntrStart
<1>3. CASE MacOn
  BY <1>3 DEF MacOn
<1>4. CASE IntrEvents
  BY <1>4 DEF IntrEvents
<1>5. CASE RxFrame
  BY <1>5 DEF RxFrame
<1>6. CASE RxDone
  BY <1>6 DEF RxDone
<1>7. CASE IntrEnable
  BY <1>7 DEF IntrEnable
<1>8. CASE CheckLinkStatus
  BY <1>8 DEF CheckLinkStatus
<1>9. CASE InitPHY
  <2>1. ASSUME NEW done \in BOOLEAN, PhyReset(done) PROVE Flow'
    BY <2>1 DEF PhyReset
  <2>2. ASSUME NEW complete \in BOOLEAN, Negotiate(complete) PROVE Flow'
    BY <2>2 DEF Negotiate
  <2>3. CASE Manual("manual100", "manual10") \/ Manual("manual10", "nego")
    BY <2>3 DEF Manual
  <2>4. ASSUME NEW errors \in BOOLEAN, LinkMode(errors) PROVE Flow'
    BY <2>4 DEF LinkMode
  <2>5. CASE WaitLink
    BY <2>5 DEF WaitLink
  <2> QED BY <1>9, <2>1, <2>2, <2>3, <2>4, <2>5 DEF InitPHY
<1> QED BY <1>1, <1>2, <1>3, <1>4, <1>5, <1>6, <1>7, <1>8, <1>9 DEF IntrThread

LEMMA RxNextFlow == ASSUME Ring, Flow, RxNext PROVE Flow'
<1> USE DEF Flow, WakeStates, PhyStates, threadVars
<1> QED BY DEF RxNext

\* The ring is empty when its next BD is, or when no frame is counted.
LEMMA RingEmpty ==
  ASSUME Ring, ~(frameCnt > 0 /\ Filled)
  PROVE  Complete = {}
<1>1. RxBDIndex \in Nat /\ RxSlot \in RxBds /\ Off(RxSlot) = 0
  <2>1. RxBDIndex \in Nat
    BY RingSize DEF Ring
  <2> QED BY <2>1, OffSlot
<1>2. Held \in Nat /\ frameCnt \in Nat
  BY RingSize DEF Ring
<1>3. Held = 0
  <2>1. CASE ~Filled
    <3>1. ~(Off(RxSlot) < Held)
      BY <1>1, <2>1 DEF Ring, Filled, RxSlot
    <3> QED BY <1>1, <1>2, <3>1
  <2>2. CASE ~(frameCnt > 0)
    BY <1>2, <2>2 DEF Held
  <2> QED BY <2>1, <2>2
<1>4. ASSUME NEW b \in RxBds PROVE ~(Off(b) < Held)
  <2>1. b \in Int
    BY DEF RxBds
  <2>2. Off(b) \in 0 .. NumRxBds - 1
    BY <1>1, <2>1, OffRange
  <2> QED BY <1>3, <2>2
<1> QED BY <1>4 DEF Ring, Complete

\* A frame that comes in is announced by RXEND, and never takes the BD of one
\* the thread is looking at away.
LEMMA OutsideHeard ==
  ASSUME Ring, Flow, Heard,
         \/ \E ok \in BOOLEAN : SmapInit(ok)
         \/ Interrupt \/ LinkCheckTimer \/ FrameArrives \/ OtherEvent \/ LinkChanges
         \/ \E frame : FrameComplete(frame)
  PROVE  Heard'
<1> USE DEF Heard, threadVars, hwRest, rxVars, softRest
<1>1. ASSUME NEW ok \in BOOLEAN, SmapInit(ok) PROVE Heard'
  <2>1. frameCnt = 0 /\ ipc' # "callback" /\ UNCHANGED rxBd
    BY <1>1 DEF SmapInit, Flow
  <2>2. Complete = {}
    BY <2>1, RingEmpty
  <2> QED BY <2>1, <2>2 DEF Complete
<1>2. CASE Interrupt \/ LinkCheckTimer
  BY <1>2 DEF Interrupt, LinkCheckTimer, Complete, Filled
<1>3. CASE FrameArrives
  BY <1>3 DEF FrameArrives, Complete, Filled, Ring
<1>4. CASE OtherEvent \/ LinkChanges
  BY <1>4 DEF OtherEvent, LinkChanges, Complete, Filled
<1>5. ASSUME NEW frame, FrameComplete(frame) PROVE Heard'
  <2>1. /\ rxBd' = [rxBd EXCEPT ![hwRx] = [nr |-> arrived, frame |-> frame]]
        /\ "RXEND" \in stat' /\ UNCHANGED <<ipc, RxBDIndex, frameCnt>>
    BY <1>5 DEF FrameComplete
  <2>2. arrived # 0
    <3>1. filling
      BY <1>5 DEF FrameComplete
    <3>2. frameCnt >= 1 /\ frameCnt \in Nat /\ arrived \in Nat /\ frameCnt <= arrived
      BY <3>1, RingSize DEF Ring, Held
    <3> QED BY <3>2
  <2>3. ASSUME ipc = "callback" PROVE Filled'
    <3>1. rxBd[RxSlot] # Empty /\ RxSlot' = RxSlot
      BY <2>1, <2>3 DEF Filled, RxSlot
    <3>2. RxSlot \in RxBds
      BY RingSize, OffSlot DEF Ring
    <3>3. rxBd'[RxSlot] # Empty
      BY <2>1, <2>2, <3>1, <3>2 DEF Ring, Empty
    <3> QED BY <3>1, <3>3 DEF Filled, RxSlot
  <2> QED BY <2>1, <2>3
<1> QED BY <1>1, <1>2, <1>3, <1>4, <1>5

LEMMA ThreadHeard == ASSUME Ring, Flow, Heard, IntrThread PROVE Heard'
<1> USE DEF Heard, threadVars, hwRest, rxVars, intrRest, phyRest
<1>1. CASE IntrWake \/ IntrStart \/ MacOn \/ CheckLinkStatus
  BY <1>1 DEF IntrWake, IntrStart, MacOn, CheckLinkStatus, Complete, Filled
<1>2. CASE IntrEvents
  BY <1>2 DEF IntrEvents, Handled, ClearedWhen, Complete, Flow, WakeStates
<1>3. CASE RxFrame
  BY <1>3 DEF RxFrame, Complete, Filled
<1>4. CASE RxDone
  <2>1. Complete = {} /\ Complete' = Complete /\ ipc' # "callback"
    BY <1>4, RingEmpty DEF RxDone, Complete
  <2> QED BY <2>1
<1>5. CASE IntrEnable
  BY <1>5 DEF IntrEnable, ClearedWhen, Complete
<1>6. CASE InitPHY
  BY <1>6 DEF InitPHY, PhyReset, Negotiate, Manual, LinkMode, WaitLink, Complete, Filled
<1> QED BY <1>1, <1>2, <1>3, <1>4, <1>5, <1>6 DEF IntrThread

LEMMA ThreadRing == ASSUME Ring, IntrThread PROVE Ring'
<1>1. UNCHANGED ringVars
  BY DEF IntrThread, IntrWake, IntrStart, MacOn, IntrEvents, RxFrame, RxDone, IntrEnable,
     CheckLinkStatus, InitPHY, PhyReset, Negotiate, Manual, LinkMode, WaitLink,
     ringVars, rxVars, hwRest, intrRest, phyRest
<1> QED BY <1>1, RingKept

RxInv == Ring /\ Flow /\ Heard

LEMMA RxInvInit == NetInit => RxInv
BY RingInit, FlowInit, HeardInit DEF NetInit, RxInv

LEMMA RxInvStep == RxInv /\ [NetNext]_netVars => RxInv'
<1> SUFFICES ASSUME Ring, Flow, Heard, [NetNext]_netVars PROVE Ring' /\ Flow' /\ Heard'
  BY DEF RxInv
<1>1. CASE UNCHANGED intrVars
  <2>1. UNCHANGED ringVars
    BY <1>1 DEF intrVars, ringVars, rxVars
  <2>2. Flow' /\ Heard'
    BY <1>1 DEF intrVars, Flow, Heard, Complete, Filled
  <2> QED BY <2>1, <2>2, RingKept
<1>2. CASE IntrThread
  BY <1>2, ThreadRing, ThreadFlow, ThreadHeard
<1>3. CASE CallbackEnds
  <2>1. RxNext /\ ipc' = "rx"
    BY <1>3 DEF CallbackEnds, RxNext
  <2>2. frameCnt > 0 /\ Filled
    BY <2>1 DEF RxNext, Heard
  <2>3. Heard'
    BY <2>1 DEF Heard
  <2> QED BY <2>1, <2>2, <2>3, NextRing, RxNextFlow
<1>4. CASE \/ \E ok \in BOOLEAN : SmapInit(ok)
           \/ Interrupt \/ LinkCheckTimer \/ OtherEvent \/ LinkChanges
  <2>1. UNCHANGED ringVars
    BY <1>4 DEF SmapInit, Interrupt, LinkCheckTimer, OtherEvent, LinkChanges,
       ringVars, rxVars, hwRest, softRest
  <2> QED BY <1>4, <2>1, RingKept, OutsideFlow, OutsideHeard
<1>5. CASE FrameArrives \/ \E frame : FrameComplete(frame)
  BY <1>5, ArriveRing, CompleteRing, OutsideFlow, OutsideHeard
<1> QED BY <1>1, <1>2, <1>3, <1>4, <1>5
        DEF NetNext, IntrSide, Callback, Application, Step, Send, Wire, Arrive, Received, Tick,
            Other, Cable, Start, Intr, txOnly, netVars, ArpRequest, ArpAsked

LEMMA RxInvAlways == NetSpec => []RxInv
BY RxInvInit, RxInvStep, PTL DEF NetSpec

\* The thread never waits for an interrupt that is switched off, unless the bit
\* that wakes it is set already.
THEOREM NoInterruptLostAlways == NetSpec => []NoInterruptLost
<1>1. RxInv => NoInterruptLost
  BY DEF RxInv, Flow, NoInterruptLost
<1> QED BY <1>1, RxInvAlways, PTL

\* No received frame is forgotten in the ring: while the thread waits, a
\* complete frame has its RXEND asserted, or the bit that wakes it is set.
THEOREM NoFrameForgottenAlways == NetSpec => []NoFrameForgotten
<1>1. ASSUME RxInv PROVE NoFrameForgotten
  <2>1. ASSUME Complete # {} PROVE SmapIsInitialized
    <3>1. ~(~(frameCnt > 0 /\ Filled))
      BY <1>1, <2>1, RingEmpty DEF RxInv
    <3>2. SmapIsInitialized \/ frameCnt = 0
      BY <1>1 DEF RxInv, Flow
    <3>3. frameCnt # 0
      BY <3>1
    <3> QED BY <3>2, <3>3
  <2> QED BY <1>1, <2>1 DEF RxInv, Flow, Heard, NoFrameForgotten
<1> QED BY <1>1, RxInvAlways, PTL

\* Frames leave the ring in the order they came, each once, across the wrap of
\* both indices, for any ring whose size divides the index's range.
THEOREM RxInOrderAlways == NetSpec => []RxInOrder
<1>1. ASSUME RxInv PROVE RxInOrder
  <2>1. \A b \in Complete : rxBd[b].nr = arrived - frameCnt + 1 + ((b - RxBDIndex) % NumRxBds)
    BY <1>1 DEF RxInv, Ring, Complete, Off
  <2> QED BY <2>1 DEF RxInOrder
<1> QED BY <1>1, RxInvAlways, PTL
-----------------------------------------------------------------------------
(* The transmit ring *)

\* Places of the ring, counted from the oldest frame not yet taken back.
TxOff(b) == (b - TxDNVBDIndex) % NumBds
InRing(b) == TxOff(b) < NumPacketsInTx

\* frames in the ring the hardware has sent; the number of a frame in the ring
Gone == NumPacketsInTx - NumReady
Number(b) == posted - NumPacketsInTx + 1 + TxOff(b)

\* The transmit memory in words, and how many of them are taken.
MemWords == TxBufSize \div 4
Used == (TxBufSize - TxBufferSpaceAvailable) \div 4

\* Addresses counted from the oldest word in use: the used words end where the
\* next frame begins, which is before the words of one being copied.
NewSlot == TxBDIndex % NumBds
Copying == \E t \in Senders : txpc[t] = "copied"
Front   == IF Copying THEN txBd[NewSlot].ptr ELSE wrPtr
Rel(x)  == (x - Front + Used) % MemWords

WordsOf(b) == NumWords(txBd[b].len)
At(b) == Rel(txBd[b].ptr)

\* all words of the frame are in place
Place(p, i) == (p + i - 1) % MemWords
Holds(b, nr) == \A i \in 1 .. WordsOf(b) : txMem[Place(txBd[b].ptr, i)] = <<nr, i>>

\* One caller at a time is between taking tx_sema and giving it back.
Turn(t) == txpc[t] \in {"retire", "copied"}

TxTurns ==
  /\ txpc \in [Senders -> TxPCs] /\ txFree \in BOOLEAN
  /\ txSize \in [Senders -> Nat \X Nat]
  /\ \A t \in Senders : txpc[t] # "idle" => txSize[t] \in FrameSizes
  /\ \A t, u \in Senders : Turn(t) /\ Turn(u) => t = u
  /\ txFree => \A t \in Senders : ~Turn(t)

\* The ring holds, in order, frames that are gone and frames that are READY,
\* and the hardware and the driver are each where the other's part ends.
TxRing ==
  /\ txBd \in [Bds -> [ready : BOOLEAN, len : Nat, ptr : Words]]
  /\ TxBDIndex \in 0 .. IndexMod - 1 /\ TxDNVBDIndex \in 0 .. IndexMod - 1
  /\ hwTx \in Bds /\ posted \in Nat
  /\ NumPacketsInTx \in 0 .. NumBds /\ NumReady \in 0 .. NumPacketsInTx
  /\ \A b \in Bds : txBd[b].ready <=> Gone <= TxOff(b) /\ InRing(b)
  /\ TxOff(hwTx) = Gone % NumBds
  /\ TxOff(TxBDIndex) = NumPacketsInTx % NumBds

\* The frames of the ring lie behind one another in the used part of the
\* memory, those to be sent undamaged; a frame being copied is behind them.
TxMemory ==
  /\ wrPtr \in Words /\ txMem = [w \in Words |-> txMem[w]]
  /\ Used \in 0 .. MemWords /\ TxBufferSpaceAvailable = TxBufSize - 4 * Used
  /\ \A b \in Bds : InRing(b) => WordsOf(b) >= 1 /\ At(b) + WordsOf(b) <= Used
  /\ \A b, c \in Bds : InRing(c) /\ TxOff(b) < TxOff(c) => At(b) + WordsOf(b) <= At(c)
  /\ \A b \in Bds : txBd[b].ready => Holds(b, Number(b))

\* A frame that has been copied and not yet posted.
TxCopied ==
  \A t \in Senders : txpc[t] = "copied" =>
    /\ NumPacketsInTx < NumBds
    /\ txBd[NewSlot].len = Size(t) /\ Used + WordsOf(NewSlot) <= MemWords
    /\ wrPtr = (txBd[NewSlot].ptr + WordsOf(NewSlot)) % MemWords
    /\ Holds(NewSlot, posted + 1)

TxInv == TxTurns /\ TxRing /\ TxMemory /\ TxCopied

LEMMA TxSizes ==
  /\ NumBds \in Nat /\ NumBds > 0 /\ IndexMod \in Nat /\ IndexMod > 0 /\ IndexMod % NumBds = 0
  /\ MemWords \in Nat /\ MemWords > 0 /\ TxBufSize = 4 * MemWords
<1>1. /\ NumBds \in Nat /\ NumBds > 0 /\ IndexMod \in Nat /\ IndexMod > 0 /\ IndexMod % NumBds = 0
      /\ TxBufSize \in Nat /\ TxBufSize > 0 /\ TxBufSize % 4 = 0
  BY SmapTxAssumption
<1>2. TxBufSize = 4 * MemWords + (TxBufSize % 4) /\ MemWords \in Int
  BY <1>1, DivMod DEF MemWords
<1> HIDE DEF MemWords
<1> QED BY <1>1, <1>2

LEMMA WordsRange ==
  ASSUME NEW n \in Nat
  PROVE  NumWords(n) \in Nat /\ (n > 0 => NumWords(n) >= 1)
BY DEF NumWords

\* The header and the data take as many words as the frame.
LEMMA FrameWords ==
  ASSUME NEW s \in FrameSizes
  PROVE  /\ s[1] + s[2] \in Nat /\ NumWords(s[1] + s[2]) \in Nat /\ NumWords(s[1] + s[2]) >= 1
         /\ NumWords(s[1]) + NumWords(s[2]) = NumWords(s[1] + s[2])
<1>1. s[1] \in Nat /\ s[2] \in Nat /\ s[1] > 0 /\ (s[1] % 4 = 0 \/ s[2] = 0)
  BY SmapTxAssumption
<1>2. ASSUME NEW h \in Nat, NEW d \in Nat, h > 0, h % 4 = 0 \/ d = 0
      PROVE  /\ h + d \in Nat /\ NumWords(h + d) \in Nat /\ NumWords(h + d) >= 1
             /\ NumWords(h) + NumWords(d) = NumWords(h + d)
  BY <1>2 DEF NumWords
<1> QED BY <1>1, <1>2

LEMMA TxOffRange ==
  ASSUME TxDNVBDIndex \in Int, NEW b \in Int
  PROVE  TxOff(b) \in 0 .. NumBds - 1
<1>1. b - TxDNVBDIndex \in Int
  OBVIOUS
<1> QED BY <1>1, TxSizes, DivMod DEF TxOff

LEMMA TxOffApart ==
  ASSUME TxDNVBDIndex \in Int, NEW b \in Bds, NEW c \in Bds, TxOff(b) = TxOff(c)
  PROVE  b = c
<1> DEFINE x == b - TxDNVBDIndex
           y == c - TxDNVBDIndex
<1>1. x \in Int /\ y \in Int /\ x - y < NumBds /\ y - x < NumBds /\ b \in Int /\ c \in Int
  BY TxSizes DEF Bds
<1>2. x % NumBds = y % NumBds
  BY DEF TxOff
<1> HIDE DEF x, y
<1>3. x = y
  BY <1>1, <1>2, TxSizes, ModUnique
<1> QED BY <1>1, <1>3 DEF x, y

\* an index and its place in the ring
LEMMA TxOffSlot ==
  ASSUME TxDNVBDIndex \in Int, NEW i \in Int
  PROVE  i % NumBds \in Bds /\ TxOff(i % NumBds) = TxOff(i)
<1> DEFINE q == i \div NumBds
           s == i % NumBds
           x == s - TxDNVBDIndex
<1>1. i = NumBds * q + s /\ s \in 0 .. NumBds - 1 /\ q \in Int
  BY TxSizes, DivMod
<1> HIDE DEF q, s
<1>2. x \in Int /\ i - TxDNVBDIndex = x + NumBds * q
  BY <1>1, TxSizes, Z3
<1> HIDE DEF x
<1>3. (i - TxDNVBDIndex) % NumBds = x % NumBds
  <2>1. (x + NumBds * q) % NumBds = x % NumBds
    BY <1>1, <1>2, TxSizes, ModShift
  <2> QED BY <1>2, <2>1
<1> QED BY <1>1, <1>3 DEF x, s, TxOff, Bds

LEMMA RelRange ==
  ASSUME NEW x \in Int, Front \in Int, Used \in Int
  PROVE  Rel(x) \in 0 .. MemWords - 1
<1>1. x - Front + Used \in Int
  OBVIOUS
<1> HIDE DEF Front, Used
<1> QED BY <1>1, TxSizes, DivMod DEF Rel

\* The i-th word of a frame that does not pass the end of the used memory.
LEMMA RelPlace ==
  ASSUME NEW p \in Int, NEW i \in Int, Front \in Int, Used \in Int,
         Rel(p) + i - 1 \in 0 .. MemWords - 1
  PROVE  Place(p, i) \in 0 .. MemWords - 1 /\ Rel(Place(p, i)) = Rel(p) + i - 1
<1> DEFINE q == (p + i - 1) \div MemWords
           r == Place(p, i)
           y == p - Front + Used
           z == r - Front + Used
<1>1. p + i - 1 = MemWords * q + r /\ r \in 0 .. MemWords - 1 /\ q \in Int
  <2>1. p + i - 1 \in Int
    OBVIOUS
  <2> QED BY <2>1, TxSizes, DivMod DEF Place
<1> HIDE DEF q, r, Front, Used, MemWords
<1>2. y \in Int /\ z \in Int /\ y + (i - 1) = z + MemWords * q
  BY <1>1, TxSizes, Z3
<1>3. Rel(p) = y % MemWords /\ Rel(r) = z % MemWords
  BY DEF Rel
<1> HIDE DEF y, z
<1>4. (y + (i - 1)) % MemWords = (y % MemWords) + (i - 1)
  <2>1. (y % MemWords) + (i - 1) \in 0 .. MemWords - 1 /\ i - 1 \in Int
    <3>1. Rel(p) \in Int
      BY <1>2, <1>3, TxSizes, DivMod
    <3> QED BY <1>3, <3>1
  <2> QED BY <1>2, <2>1, TxSizes, ModAdd
<1>5. (y + (i - 1)) % MemWords = z % MemWords
  <2>1. (z + MemWords * q) % MemWords = z % MemWords
    BY <1>1, <1>2, TxSizes, ModShift
  <2> QED BY <1>2, <2>1
<1>6. y % MemWords \in Int
  BY <1>2, TxSizes, DivMod
<1> QED BY <1>1, <1>3, <1>4, <1>5, <1>6 DEF r

LEMMA NumReadyType == NumReady \in Nat
<1>1. IsFiniteSet(Bds)
  BY TxSizes, FS_Interval DEF Bds
<1>2. IsFiniteSet({b \in Bds : txBd[b].ready})
  BY <1>1, FS_Subset
<1> QED BY <1>2, FS_CardinalityType DEF NumReady

LEMMA ReadySame ==
  ASSUME \A b \in Bds : txBd'[b].ready = txBd[b].ready
  PROVE  NumReady' = NumReady
<1>1. {b \in Bds : txBd'[b].ready} = {b \in Bds : txBd[b].ready}
  OBVIOUS
<1> QED BY <1>1 DEF NumReady

LEMMA ReadyMore ==
  ASSUME NEW c \in Bds, ~txBd[c].ready, txBd'[c].ready,
         \A b \in Bds \ {c} : txBd'[b].ready = txBd[b].ready
  PROVE  NumReady' = NumReady + 1
<1> DEFINE S == {b \in Bds : txBd[b].ready}
<1>1. IsFiniteSet(Bds)
  BY TxSizes, FS_Interval DEF Bds
<1>2. IsFiniteSet(S) /\ c \notin S
  BY <1>1, FS_Subset
<1>3. {b \in Bds : txBd'[b].ready} = S \cup {c}
  OBVIOUS
<1> HIDE DEF S
<1>4. Cardinality(S \cup {c}) = Cardinality(S) + 1
  BY <1>2, FS_AddElement
<1> QED BY <1>3, <1>4 DEF NumReady, S

LEMMA ReadyLess ==
  ASSUME NEW c \in Bds, txBd[c].ready, ~txBd'[c].ready,
         \A b \in Bds \ {c} : txBd'[b].ready = txBd[b].ready
  PROVE  NumReady' = NumReady - 1
<1> DEFINE S == {b \in Bds : txBd[b].ready}
<1>1. IsFiniteSet(Bds)
  BY TxSizes, FS_Interval DEF Bds
<1>2. IsFiniteSet(S) /\ c \in S
  BY <1>1, FS_Subset
<1>3. {b \in Bds : txBd'[b].ready} = S \ {c}
  OBVIOUS
<1> HIDE DEF S
<1>4. Cardinality(S \ {c}) = Cardinality(S) - 1
  BY <1>2, FS_RemoveElement
<1> QED BY <1>3, <1>4 DEF NumReady, S

\* the steps of the transmit side
TxStep(t) == Sender(t) \/ \E size \in FrameSizes : Transmit(t, size)

LEMMA TurnsStep ==
  ASSUME TxTurns, NEW t \in Senders, TxStep(t)
  PROVE  TxTurns'
<1> USE DEF TxTurns, Turn, TxPCs, TxGoto, txRest
<1>1. ASSUME NEW size \in FrameSizes, Transmit(t, size) PROVE TxTurns'
  <2>1. size \in Nat \X Nat
    BY SmapTxAssumption
  <2>2. txSize' = [txSize EXCEPT ![t] = size] /\ txpc' = [txpc EXCEPT ![t] = "start"] /\ txFree' = txFree
    BY <1>1 DEF Transmit
  <2> QED BY <2>1, <2>2
<1>2. CASE TxStart(t) \/ Retire(t)
  BY <1>2 DEF TxStart, Retire
<1>3. CASE TxTake(t)
  BY <1>3 DEF TxTake
<1>4. CASE Full(t)
  BY <1>4 DEF Full, SemaWhenFull
<1>5. CASE Copy(t)
  BY <1>5 DEF Copy
<1>6. CASE Post(t)
  BY <1>6 DEF Post
<1> QED BY <1>1, <1>2, <1>3, <1>4, <1>5, <1>6 DEF TxStep, Sender

ringTx == <<txBd, TxBDIndex, TxDNVBDIndex, NumPacketsInTx, TxBufferSpaceAvailable, wrPtr, txMem,
            hwTx, posted>>

\* Steps that only move a caller, and none to or from its copy.
LEMMA QuietTx ==
  ASSUME TxRing, TxMemory, TxCopied, UNCHANGED ringTx,
         \A u \in Senders : txpc'[u] = "copied" <=> txpc[u] = "copied",
         \A u \in Senders : txpc[u] = "copied" => txSize'[u] = txSize[u]
  PROVE  TxRing' /\ TxMemory' /\ TxCopied'
<1> USE DEF ringTx
<1>1. NumReady' = NumReady /\ Gone' = Gone
  BY ReadySame DEF Gone
<1>2. \A b : TxOff(b)' = TxOff(b) /\ InRing(b)' = InRing(b) /\ Number(b)' = Number(b)
  BY DEF TxOff, InRing, Number
<1>3. NewSlot' = NewSlot /\ Copying' = Copying /\ Used' = Used
  BY DEF NewSlot, Copying, Used
<1>4. \A b : WordsOf(b)' = WordsOf(b)
  BY DEF WordsOf
<1>5. \A b, n : Holds(b, n)' = Holds(b, n)
  BY <1>4 DEF Holds
<1>6. \A b : At(b)' = At(b)
  BY <1>3 DEF At, Rel, Front
<1>7. TxRing'
  BY <1>1, <1>2 DEF TxRing
<1>8. TxMemory'
  BY <1>2, <1>3, <1>4, <1>5, <1>6 DEF TxMemory
<1>9. TxCopied'
  BY <1>3, <1>4, <1>5 DEF TxCopied, Size
<1> QED BY <1>7, <1>8, <1>9

\* Taking a frame back moves the origin.
LEMMA TurnOff ==
  ASSUME TxDNVBDIndex \in Int, TxDNVBDIndex' = (TxDNVBDIndex + 1) % IndexMod, NEW b \in Int
  PROVE  (b - TxDNVBDIndex') % NumBds = (TxOff(b) - 1) % NumBds
<1>1. NumBds \in Nat /\ NumBds > 0 /\ IndexMod \in Nat /\ IndexMod > 0 /\ IndexMod % NumBds = 0
  BY TxSizes
<1>2. (b - ((TxDNVBDIndex + 1) % IndexMod)) % NumBds = (((b - TxDNVBDIndex) % NumBds) - 1) % NumBds
  BY <1>1, ModTurn
<1> QED BY <1>2 DEF TxOff

LEMMA RetireRing ==
  ASSUME TxRing, NEW t \in Senders, Retire(t), NEW o, o = Oldest
  PROVE  /\ TxRing' /\ o \in Bds /\ InRing(o) /\ TxOff(o) = 0
         /\ \A b \in Bds : InRing(b)' => b # o
         /\ \A b \in Bds \ {o} : TxOff(b)' = TxOff(b) - 1 /\ InRing(b)' = InRing(b)
<1>1. /\ NumPacketsInTx > 0 /\ ~txBd[o].ready /\ NumPacketsInTx' = NumPacketsInTx - 1
      /\ TxDNVBDIndex' = (TxDNVBDIndex + 1) % IndexMod
      /\ UNCHANGED <<txBd, TxBDIndex, hwTx, posted>>
  BY DEF Retire, Sent
<1>2. /\ TxDNVBDIndex \in Nat /\ TxDNVBDIndex \in Int /\ TxBDIndex \in Int
      /\ NumPacketsInTx \in 1 .. NumBds /\ NumPacketsInTx \in Int
      /\ NumReady \in Nat /\ NumReady <= NumPacketsInTx /\ hwTx \in Int /\ hwTx \in Bds
  BY <1>1, TxSizes DEF TxRing, Bds
<1>3. o \in Bds /\ TxOff(o) = 0
  <2>1. TxDNVBDIndex - TxDNVBDIndex = 0
    BY <1>2
  <2>2. TxOff(TxDNVBDIndex) = 0 % NumBds /\ 0 \in 0 .. NumBds - 1
    BY <2>1, TxSizes DEF TxOff
  <2>3. TxOff(TxDNVBDIndex) = 0
    BY <2>2, TxSizes, ModSmall
  <2> QED BY <1>2, <2>3, TxOffSlot DEF Oldest
<1>4. NumReady' = NumReady /\ Gone > 0 /\ Gone' = Gone - 1 /\ Gone \in Int
  <2>1. NumReady' = NumReady
    BY <1>1, ReadySame
  <2>2. ~(Gone <= 0)
    BY <1>1, <1>2, <1>3 DEF TxRing, InRing
  <2> QED BY <1>1, <1>2, <2>1, <2>2 DEF Gone
<1>5. ASSUME NEW b \in Int PROVE TxOff(b)' = (TxOff(b) - 1) % NumBds
  BY <1>1, <1>2, TurnOff DEF TxOff
<1>6. ASSUME NEW b \in Bds \ {o}
      PROVE  TxOff(b)' = TxOff(b) - 1 /\ TxOff(b) \in Int
  <2>1. b \in Int /\ TxOff(b) \in 0 .. NumBds - 1
    BY <1>2, TxOffRange DEF Bds
  <2>2. TxOff(b) # 0
    BY <1>2, <1>3, TxOffApart
  <2>3. TxOff(b) - 1 \in 0 .. NumBds - 1
    BY <2>1, <2>2, TxSizes
  <2> QED BY <1>5, <2>1, <2>3, TxSizes, ModSmall
<1>7. TxOff(o)' = NumBds - 1
  <2>1. TxOff(o)' = (0 - 1) % NumBds
    <3>1. o \in Int
      BY <1>3 DEF Bds
    <3> QED BY <1>3, <1>5, <3>1
  <2>2. 0 - 1 = NumBds * (-1) + (NumBds - 1) /\ NumBds - 1 \in 0 .. NumBds - 1
    BY TxSizes
  <2>3. (0 - 1) % NumBds = NumBds - 1
    BY <2>2, TxSizes, ModIs
  <2> QED BY <2>1, <2>3
<1>8. ~InRing(o)'
  BY <1>1, <1>2, <1>7, TxSizes DEF InRing
<1>9. \A b \in Bds \ {o} : TxOff(b)' = TxOff(b) - 1 /\ InRing(b)' = InRing(b)
  BY <1>1, <1>2, <1>6 DEF InRing
<1>10. \A b \in Bds : txBd'[b].ready <=> Gone' <= TxOff(b)' /\ InRing(b)'
  <2> TAKE b \in Bds
  <2>1. CASE b = o
    BY <1>1, <1>8, <2>1
  <2>2. CASE b # o
    <3>1. txBd[b].ready <=> Gone <= TxOff(b) /\ InRing(b)
      BY DEF TxRing
    <3> QED BY <1>1, <1>4, <1>6, <1>9, <2>2, <3>1
  <2> QED BY <2>1, <2>2
<1>11. TxOff(hwTx)' = Gone' % NumBds
  <2>1. TxOff(hwTx)' = (TxOff(hwTx) - 1) % NumBds
    BY <1>1, <1>2, TurnOff DEF TxOff
  <2>2. TxOff(hwTx) = Gone % NumBds
    BY DEF TxRing
  <2>3. ((Gone % NumBds) - 1) % NumBds = (Gone - 1) % NumBds
    BY <1>4, TxSizes, ModPrev
  <2> QED BY <1>4, <2>1, <2>2, <2>3
<1>12. TxOff(TxBDIndex)' = NumPacketsInTx' % NumBds
  <2>1. TxOff(TxBDIndex)' = (TxOff(TxBDIndex) - 1) % NumBds
    BY <1>1, <1>2, TurnOff DEF TxOff
  <2>2. TxOff(TxBDIndex) = NumPacketsInTx % NumBds
    BY DEF TxRing
  <2>3. ((NumPacketsInTx % NumBds) - 1) % NumBds = (NumPacketsInTx - 1) % NumBds
    BY <1>2, TxSizes, ModPrev
  <2> QED BY <1>1, <2>1, <2>2, <2>3
<1>13. TxDNVBDIndex' \in 0 .. IndexMod - 1
  <2>1. TxDNVBDIndex + 1 \in Int
    BY <1>2
  <2> QED BY <1>1, <2>1, TxSizes, DivMod
<1>14. NumPacketsInTx' \in 0 .. NumBds /\ NumReady' \in 0 .. NumPacketsInTx'
  BY <1>1, <1>2, <1>4, TxSizes DEF Gone
<1>15. TxRing'
  BY <1>1, <1>10, <1>11, <1>12, <1>13, <1>14 DEF TxRing
<1>16. InRing(o)
  BY <1>2, <1>3 DEF InRing
<1> QED BY <1>3, <1>8, <1>9, <1>15, <1>16

LEMMA HwSendRing ==
  ASSUME TxRing, HwSend
  PROVE  /\ TxRing' /\ NumReady > 0 /\ NumReady' = NumReady - 1
<1>1. /\ hwTx \in Bds /\ hwTx \in Int /\ txBd[hwTx].ready /\ hwTx' = (hwTx + 1) % NumBds
      /\ txBd' = [txBd EXCEPT ![hwTx] = [txBd[hwTx] EXCEPT !.ready = FALSE]]
      /\ UNCHANGED <<TxBDIndex, TxDNVBDIndex, NumPacketsInTx, posted>>
      /\ txBd \in [Bds -> [ready : BOOLEAN, len : Nat, ptr : Words]]
  BY DEF HwSend, TxRing, Bds
<1>2. /\ txBd' \in [Bds -> [ready : BOOLEAN, len : Nat, ptr : Words]]
      /\ ~txBd'[hwTx].ready /\ \A b \in Bds \ {hwTx} : txBd'[b] = txBd[b]
  BY <1>1
<1>3. NumReady' = NumReady - 1
  BY <1>1, <1>2, ReadyLess
<1>4. /\ NumPacketsInTx \in 0 .. NumBds /\ NumReady \in 0 .. NumPacketsInTx /\ Gone \in Nat
      /\ TxDNVBDIndex \in Int
  BY TxSizes DEF TxRing, Gone
<1>5. TxOff(hwTx) = Gone /\ Gone < NumPacketsInTx
  <2>1. Gone <= TxOff(hwTx) /\ TxOff(hwTx) < NumPacketsInTx /\ TxOff(hwTx) = Gone % NumBds
    BY <1>1 DEF TxRing, InRing
  <2>2. TxOff(hwTx) \in 0 .. NumBds - 1
    BY <1>1, <1>4, TxOffRange
  <2>3. Gone \in 0 .. NumBds - 1 /\ Gone < NumPacketsInTx
    BY <1>4, <2>1, <2>2, TxSizes
  <2> QED BY <2>1, <2>3, TxSizes, ModSmall
<1>6. NumReady > 0 /\ Gone' = Gone + 1 /\ NumReady' \in 0 .. NumPacketsInTx'
  BY <1>1, <1>3, <1>4, <1>5 DEF Gone
<1>7. \A b : TxOff(b)' = (b - TxDNVBDIndex) % NumBds /\ TxOff(b)' = TxOff(b) /\ InRing(b)' = InRing(b)
  BY <1>1 DEF TxOff, InRing
<1>8. \A b \in Bds \ {hwTx} : TxOff(b) # Gone /\ TxOff(b) \in Int
  <2> TAKE b \in Bds \ {hwTx}
  <2>1. b \in Int
    BY DEF Bds
  <2> QED BY <1>1, <1>4, <1>5, <2>1, TxOffApart, TxOffRange
<1>9. \A b \in Bds : txBd'[b].ready <=> Gone' <= TxOff(b)' /\ InRing(b)'
  <2> TAKE b \in Bds
  <2>1. CASE b = hwTx
    BY <1>2, <1>4, <1>5, <1>6, <1>7, <2>1
  <2>2. CASE b # hwTx
    <3>1. txBd[b].ready <=> Gone <= TxOff(b) /\ InRing(b)
      BY DEF TxRing
    <3> QED BY <1>2, <1>4, <1>6, <1>7, <1>8, <2>2, <3>1
  <2> QED BY <2>1, <2>2
<1>10. hwTx' \in Bds
  <2>1. hwTx + 1 \in Int
    BY <1>1
  <2> QED BY <1>1, <2>1, TxSizes, DivMod DEF Bds
<1>11. TxOff(hwTx)' = Gone' % NumBds
  <2>1. TxOff(hwTx)' = (((hwTx + 1) % NumBds) - TxDNVBDIndex) % NumBds
    BY <1>1 DEF TxOff
  <2>2. (((hwTx + 1) % NumBds) - TxDNVBDIndex) % NumBds
          = (((hwTx - TxDNVBDIndex) % NumBds) + 1) % NumBds
    <3>1. NumBds % NumBds = 0
      BY TxSizes, ModIs, NumBds = NumBds * 1 + 0, 0 \in 0 .. NumBds - 1
    <3> QED BY <1>1, <1>4, <3>1, TxSizes, ModAhead
  <2> QED BY <1>5, <1>6, <2>1, <2>2 DEF TxOff
<1>12. TxOff(TxBDIndex)' = NumPacketsInTx' % NumBds
  BY <1>1 DEF TxRing, TxOff
<1> QED BY <1>1, <1>2, <1>3, <1>6, <1>9, <1>10, <1>11, <1>12 DEF TxRing

\* The BD of the next frame, when the ring has room.
LEMMA NewSlotFree ==
  ASSUME TxRing, NumPacketsInTx < NumBds
  PROVE  /\ NewSlot \in Bds /\ TxOff(NewSlot) = NumPacketsInTx /\ ~txBd[NewSlot].ready
         /\ \A b \in Bds : InRing(b) => b # NewSlot
<1>1. /\ TxDNVBDIndex \in Int /\ TxBDIndex \in Int /\ NumPacketsInTx \in 0 .. NumBds - 1
      /\ NumPacketsInTx \in Int
  BY TxSizes DEF TxRing
<1>2. NewSlot \in Bds /\ TxOff(NewSlot) = TxOff(TxBDIndex)
  BY <1>1, TxOffSlot DEF NewSlot
<1>3. NumPacketsInTx % NumBds = NumPacketsInTx
  BY <1>1, TxSizes, ModSmall
<1>4. TxOff(NewSlot) = NumPacketsInTx
  BY <1>2, <1>3 DEF TxRing
<1>5. ~InRing(NewSlot)
  BY <1>1, <1>4 DEF InRing
<1> QED BY <1>2, <1>4, <1>5 DEF TxRing

\* the words of a caller's frame
Need(t) == NumWords(Size(t))

\* What the driver's copy does, in terms of the ring.
LEMMA CopyShape ==
  ASSUME TxInv, NEW t \in Senders, Copy(t)
  PROVE  /\ NumPacketsInTx < NumBds /\ Need(t) \in Nat /\ Need(t) >= 1 /\ Used + Need(t) <= MemWords
         /\ txBd' \in [Bds -> [ready : BOOLEAN, len : Nat, ptr : Words]]
         /\ txBd'[NewSlot].ready = txBd[NewSlot].ready /\ txBd'[NewSlot].len = Size(t)
         /\ txBd'[NewSlot].ptr = wrPtr
         /\ \A b \in Bds \ {NewSlot} : txBd'[b] = txBd[b]
         /\ wrPtr' = (wrPtr + Need(t)) % MemWords
         /\ txMem' = [w \in Words |-> IF \E i \in 1 .. Need(t) : Place(wrPtr, i) = w
                                        THEN <<posted + 1, CHOOSE i \in 1 .. Need(t) : Place(wrPtr, i) = w>>
                                        ELSE txMem[w]]
         /\ ~Copying /\ Copying' /\ NewSlot' = NewSlot /\ Used' = Used
         /\ UNCHANGED <<txSize, TxBDIndex, TxDNVBDIndex, NumPacketsInTx, TxBufferSpaceAvailable,
                        hwTx, posted>>
<1>1. /\ txpc[t] = "retire" /\ ~NoRoom(t) /\ CopyToFIFO(t) /\ txpc' = [txpc EXCEPT ![t] = "copied"]
      /\ txBd' = [txBd EXCEPT ![NewSlot] = [txBd[NewSlot] EXCEPT !.len = Size(t), !.ptr = wrPtr]]
      /\ UNCHANGED <<txSize, TxBDIndex, TxDNVBDIndex, NumPacketsInTx, TxBufferSpaceAvailable,
                     hwTx, posted>>
  BY DEF Copy, TxGoto, NewSlot
<1>2. txSize[t] \in FrameSizes
  BY <1>1 DEF TxInv, TxTurns
<1>3. /\ Size(t) \in Nat /\ Need(t) \in Nat /\ Need(t) >= 1
      /\ NumWords(txSize[t][1]) + NumWords(txSize[t][2]) = Need(t)
  BY <1>2, FrameWords DEF Size, Need
<1>4. /\ NumPacketsInTx \in Nat /\ Used \in Nat /\ TxBufferSpaceAvailable = TxBufSize - 4 * Used
      /\ wrPtr \in Words
      /\ txBd \in [Bds -> [ready : BOOLEAN, len : Nat, ptr : Words]]
  BY TxSizes DEF TxInv, TxRing, TxMemory
<1>5. NumPacketsInTx < NumBds /\ Used + Need(t) <= MemWords
  <2>1. ~(NumPacketsInTx >= NumBds) /\ ~(TxBufferSpaceAvailable < 4 * Need(t))
    BY <1>1 DEF NoRoom, Rounded, Need
  <2> HIDE DEF Used, MemWords
  <2> QED BY <1>3, <1>4, <2>1, TxSizes
<1>6. NewSlot \in Bds
  BY <1>5, NewSlotFree DEF TxInv
<1>7. /\ txBd' \in [Bds -> [ready : BOOLEAN, len : Nat, ptr : Words]]
      /\ txBd'[NewSlot].ready = txBd[NewSlot].ready /\ txBd'[NewSlot].len = Size(t)
      /\ txBd'[NewSlot].ptr = wrPtr
      /\ \A b \in Bds \ {NewSlot} : txBd'[b] = txBd[b]
  BY <1>1, <1>3, <1>4, <1>6
<1>8. /\ wrPtr' = (wrPtr + Need(t)) % MemWords
      /\ txMem' = [w \in Words |-> IF \E i \in 1 .. Need(t) : Place(wrPtr, i) = w
                                     THEN <<posted + 1, CHOOSE i \in 1 .. Need(t) : Place(wrPtr, i) = w>>
                                     ELSE txMem[w]]
  BY <1>1, <1>3 DEF CopyToFIFO, Place, MemWords
<1>9. ~Copying /\ Copying'
  BY <1>1 DEF Copying, TxInv, TxTurns, Turn
<1>10. NewSlot' = NewSlot /\ Used' = Used
  BY <1>1 DEF NewSlot, Used
<1> QED BY <1>1, <1>3, <1>5, <1>7, <1>8, <1>9, <1>10

LEMMA CopyRing ==
  ASSUME TxInv, NEW t \in Senders, Copy(t)
  PROVE  TxRing' /\ NumReady' = NumReady
<1>1. /\ txBd' \in [Bds -> [ready : BOOLEAN, len : Nat, ptr : Words]]
      /\ txBd'[NewSlot].ready = txBd[NewSlot].ready
      /\ \A b \in Bds \ {NewSlot} : txBd'[b] = txBd[b]
      /\ UNCHANGED <<TxBDIndex, TxDNVBDIndex, NumPacketsInTx, hwTx, posted>>
  BY CopyShape
<1>2. \A b \in Bds : txBd'[b].ready = txBd[b].ready
  BY <1>1
<1>3. NumReady' = NumReady
  BY <1>2, ReadySame
<1>4. \A b : TxOff(b)' = TxOff(b) /\ InRing(b)' = InRing(b)
  BY <1>1 DEF TxOff, InRing
<1>5. Gone' = Gone
  BY <1>1, <1>3 DEF Gone
<1> QED BY <1>1, <1>2, <1>3, <1>4, <1>5 DEF TxInv, TxRing

\* Posting the BD makes the copied frame the last one of the ring.
LEMMA PostShape ==
  ASSUME TxInv, NEW t \in Senders, Post(t)
  PROVE  /\ NumPacketsInTx < NumBds /\ Need(t) \in Nat /\ Need(t) >= 1 /\ Used + Need(t) <= MemWords
         /\ NewSlot \in Bds /\ WordsOf(NewSlot) = Need(t)
         /\ txBd' \in [Bds -> [ready : BOOLEAN, len : Nat, ptr : Words]]
         /\ txBd'[NewSlot].ready /\ txBd'[NewSlot].len = txBd[NewSlot].len
         /\ txBd'[NewSlot].ptr = txBd[NewSlot].ptr
         /\ \A b \in Bds \ {NewSlot} : txBd'[b] = txBd[b]
         /\ TxBDIndex' = (TxBDIndex + 1) % IndexMod /\ NumPacketsInTx' = NumPacketsInTx + 1
         /\ TxBufferSpaceAvailable' = TxBufferSpaceAvailable - 4 * Need(t)
         /\ posted' = posted + 1 /\ Copying /\ ~Copying'
         /\ wrPtr = (txBd[NewSlot].ptr + Need(t)) % MemWords /\ Holds(NewSlot, posted + 1)
         /\ UNCHANGED <<txSize, TxDNVBDIndex, wrPtr, txMem, hwTx>>
<1>1. /\ txpc[t] = "copied" /\ txpc' = [txpc EXCEPT ![t] = "idle"]
      /\ txBd' = [txBd EXCEPT ![NewSlot] = [txBd[NewSlot] EXCEPT !.ready = TRUE]]
      /\ TxBDIndex' = (TxBDIndex + 1) % IndexMod /\ NumPacketsInTx' = NumPacketsInTx + 1
      /\ TxBufferSpaceAvailable' = TxBufferSpaceAvailable - 4 * Need(t)
      /\ posted' = posted + 1
      /\ UNCHANGED <<txSize, TxDNVBDIndex, wrPtr, txMem, hwTx>>
  BY DEF Post, TxGoto, NewSlot, Rounded, Need
<1>2. txSize[t] \in FrameSizes
  BY <1>1 DEF TxInv, TxTurns
<1>3. Need(t) \in Nat /\ Need(t) >= 1
  BY <1>2, FrameWords DEF Size, Need
<1>4. /\ NumPacketsInTx < NumBds /\ txBd[NewSlot].len = Size(t) /\ Used + WordsOf(NewSlot) <= MemWords
      /\ wrPtr = (txBd[NewSlot].ptr + WordsOf(NewSlot)) % MemWords /\ Holds(NewSlot, posted + 1)
  BY <1>1 DEF TxInv, TxCopied
<1>5. WordsOf(NewSlot) = Need(t)
  BY <1>4 DEF WordsOf, Need
<1>6. NewSlot \in Bds
  BY <1>4, NewSlotFree DEF TxInv
<1>7. /\ txBd' \in [Bds -> [ready : BOOLEAN, len : Nat, ptr : Words]]
      /\ txBd'[NewSlot].ready /\ txBd'[NewSlot].len = txBd[NewSlot].len
      /\ txBd'[NewSlot].ptr = txBd[NewSlot].ptr
      /\ \A b \in Bds \ {NewSlot} : txBd'[b] = txBd[b]
  BY <1>1, <1>6 DEF TxInv, TxRing
<1>8. Copying /\ ~Copying'
  BY <1>1 DEF Copying, TxInv, TxTurns, Turn
<1> QED BY <1>1, <1>3, <1>4, <1>5, <1>6, <1>7, <1>8

LEMMA PostRing ==
  ASSUME TxInv, NEW t \in Senders, Post(t)
  PROVE  TxRing' /\ NumReady' = NumReady + 1
<1> DEFINE n == NewSlot
<1>1. /\ NumPacketsInTx < NumBds /\ n \in Bds
      /\ txBd' \in [Bds -> [ready : BOOLEAN, len : Nat, ptr : Words]]
      /\ txBd'[n].ready /\ \A b \in Bds \ {n} : txBd'[b] = txBd[b]
      /\ TxBDIndex' = (TxBDIndex + 1) % IndexMod /\ NumPacketsInTx' = NumPacketsInTx + 1
      /\ posted' = posted + 1 /\ UNCHANGED <<TxDNVBDIndex, hwTx>>
  BY PostShape
<1>2. TxOff(n) = NumPacketsInTx /\ ~txBd[n].ready
  BY <1>1, NewSlotFree DEF TxInv
<1> HIDE DEF n
<1>3. NumReady' = NumReady + 1
  BY <1>1, <1>2, ReadyMore
<1>4. /\ NumPacketsInTx \in Nat /\ NumReady \in 0 .. NumPacketsInTx /\ TxDNVBDIndex \in Int
      /\ TxBDIndex \in Int /\ posted \in Nat
  BY TxSizes DEF TxInv, TxRing
<1>5. Gone' = Gone /\ Gone \in Nat /\ Gone <= NumPacketsInTx
  BY <1>1, <1>3, <1>4 DEF Gone
<1>6. \A b : TxOff(b)' = (b - TxDNVBDIndex) % NumBds /\ TxOff(b)' = TxOff(b)
  BY <1>1 DEF TxOff
<1>7. \A b \in Bds \ {n} : TxOff(b) # NumPacketsInTx /\ TxOff(b) \in Int
  <2> TAKE b \in Bds \ {n}
  <2>1. b \in Int
    BY DEF Bds
  <2> QED BY <1>1, <1>2, <1>4, <2>1, TxOffApart, TxOffRange
<1>8. \A b \in Bds : txBd'[b].ready <=> Gone' <= TxOff(b)' /\ InRing(b)'
  <2> TAKE b \in Bds
  <2>1. CASE b = n
    <3>1. InRing(b)' /\ Gone' <= TxOff(b)'
      BY <1>1, <1>2, <1>4, <1>5, <1>6, <2>1 DEF InRing
    <3> QED BY <1>1, <2>1, <3>1
  <2>2. CASE b # n
    <3>1. txBd[b].ready <=> Gone <= TxOff(b) /\ InRing(b)
      BY DEF TxInv, TxRing
    <3>2. InRing(b)' = InRing(b)
      BY <1>1, <1>4, <1>6, <1>7, <2>2 DEF InRing
    <3> QED BY <1>1, <1>5, <1>6, <2>2, <3>1, <3>2
  <2> QED BY <2>1, <2>2
<1>9. TxBDIndex' \in 0 .. IndexMod - 1
  <2>1. TxBDIndex + 1 \in Int
    BY <1>4
  <2> QED BY <1>1, <2>1, TxSizes, DivMod
<1>10. TxOff(TxBDIndex)' = NumPacketsInTx' % NumBds
  <2>1. TxOff(TxBDIndex)' = (((TxBDIndex + 1) % IndexMod) - TxDNVBDIndex) % NumBds
    BY <1>1 DEF TxOff
  <2>2. (((TxBDIndex + 1) % IndexMod) - TxDNVBDIndex) % NumBds
          = (((TxBDIndex - TxDNVBDIndex) % NumBds) + 1) % NumBds
    <3>1. NumBds \in Nat /\ NumBds > 0 /\ IndexMod \in Nat /\ IndexMod > 0 /\ IndexMod % NumBds = 0
      BY TxSizes
    <3> QED BY <1>4, <3>1, ModAhead
  <2>3. (TxBDIndex - TxDNVBDIndex) % NumBds = NumPacketsInTx % NumBds
    BY DEF TxInv, TxRing, TxOff
  <2>4. ((NumPacketsInTx % NumBds) + 1) % NumBds = (NumPacketsInTx + 1) % NumBds
    BY <1>4, TxSizes, ModNext
  <2> QED BY <1>1, <2>1, <2>2, <2>3, <2>4
<1>11. TxOff(hwTx)' = Gone' % NumBds
  BY <1>1, <1>5 DEF TxInv, TxRing, TxOff
<1>12. NumPacketsInTx' \in 0 .. NumBds /\ NumReady' \in 0 .. NumPacketsInTx'
  BY <1>1, <1>3, <1>4, TxSizes
<1>13. hwTx' \in Bds /\ posted' \in Nat /\ TxDNVBDIndex' \in 0 .. IndexMod - 1
  BY <1>1, <1>4 DEF TxInv, TxRing
<1> QED BY <1>1, <1>3, <1>8, <1>9, <1>10, <1>11, <1>12, <1>13 DEF TxRing

\* The used words, from what the driver counts as available.
LEMMA UsedIs ==
  ASSUME NEW size \in Int, NEW avail \in Int, NEW used \in Int, avail = size - 4 * used
  PROVE  (size - avail) \div 4 = used
OBVIOUS

\* What the parts of the invariant say of types.
LEMMA TxTypes ==
  ASSUME TxInv
  PROVE  /\ TxDNVBDIndex \in Int /\ TxBDIndex \in Int /\ posted \in Nat
         /\ NumPacketsInTx \in 0 .. NumBds /\ NumPacketsInTx \in Nat
         /\ NumReady \in Nat /\ NumReady <= NumPacketsInTx
         /\ Used \in Nat /\ Used <= MemWords /\ TxBufferSpaceAvailable = TxBufSize - 4 * Used
         /\ wrPtr \in Words /\ NewSlot \in Bds /\ hwTx \in Bds
         /\ \A b \in Bds : b \in Int /\ TxOff(b) \in 0 .. NumBds - 1 /\ TxOff(b) \in Nat
         /\ \A b \in Bds : txBd[b].ptr \in Words /\ txBd[b].len \in Nat /\ WordsOf(b) \in Nat
         /\ \A x \in Words : x \in Int
         /\ Front \in Int /\ \A x \in Int : Rel(x) \in 0 .. MemWords - 1 /\ Rel(x) \in Nat
<1>1. /\ TxDNVBDIndex \in Int /\ TxBDIndex \in Int /\ posted \in Nat
      /\ NumPacketsInTx \in 0 .. NumBds /\ NumPacketsInTx \in Nat
      /\ NumReady \in Nat /\ NumReady <= NumPacketsInTx /\ hwTx \in Bds
      /\ txBd \in [Bds -> [ready : BOOLEAN, len : Nat, ptr : Words]]
  BY TxSizes DEF TxInv, TxRing
<1>2. Used \in Nat /\ Used <= MemWords /\ TxBufferSpaceAvailable = TxBufSize - 4 * Used /\ wrPtr \in Words
  BY TxSizes DEF TxInv, TxMemory
<1>3. NewSlot \in Bds
  BY <1>1, TxOffSlot DEF NewSlot
<1>4. \A b \in Bds : b \in Int /\ TxOff(b) \in 0 .. NumBds - 1 /\ TxOff(b) \in Nat
  <2> TAKE b \in Bds
  <2>1. b \in Int
    BY DEF Bds
  <2>2. TxOff(b) \in 0 .. NumBds - 1
    BY <1>1, <2>1, TxOffRange
  <2> QED BY <2>1, <2>2, TxSizes
<1>5. \A b \in Bds : txBd[b].ptr \in Words /\ txBd[b].len \in Nat /\ WordsOf(b) \in Nat
  BY <1>1, WordsRange DEF WordsOf
<1>6. \A x \in Words : x \in Int
  BY DEF Words
<1>7. Front \in Int
  BY <1>2, <1>3, <1>5, <1>6 DEF Front
<1>8. \A x \in Int : Rel(x) \in 0 .. MemWords - 1 /\ Rel(x) \in Nat
  <2> TAKE x \in Int
  <2>1. Used \in Int
    BY <1>2
  <2>2. Rel(x) \in 0 .. MemWords - 1
    BY <1>7, <2>1, RelRange
  <2> QED BY <2>2, TxSizes
<1> QED BY <1>1, <1>2, <1>3, <1>4, <1>5, <1>6, <1>7, <1>8

\* Where the used words end is where the next frame begins.
LEMMA RelFront ==
  ASSUME TxInv, Used < MemWords
  PROVE  Rel(Front) = Used
<1>1. Used \in 0 .. MemWords - 1 /\ Front \in Int /\ Used \in Int
  BY TxTypes, TxSizes
<1>2. Front - Front + Used = Used
  BY <1>1
<1> QED BY <1>1, <1>2, TxSizes, ModSmall DEF Rel

\* Taking back the oldest frame frees its words and leaves the others.
LEMMA RetireMemory ==
  ASSUME TxInv, NEW t \in Senders, Retire(t)
  PROVE  TxMemory' /\ TxCopied'
<1> DEFINE o == Oldest
           n == WordsOf(o)
<1>1. /\ txpc[t] = "retire" /\ NumPacketsInTx > 0 /\ ~txBd[o].ready
      /\ TxBufferSpaceAvailable' = TxBufferSpaceAvailable + 4 * n
      /\ NumPacketsInTx' = NumPacketsInTx - 1
      /\ UNCHANGED <<txpc, txSize, txFree, txBd, TxBDIndex, wrPtr, txMem, hwTx, posted>>
  BY DEF Retire, Sent, Freed, Rounded, WordsOf
<1>2. \A u \in Senders : txpc[u] # "copied"
  BY <1>1 DEF TxInv, TxTurns, Turn
<1>3. Front = wrPtr /\ Front' = wrPtr
  BY <1>1, <1>2 DEF Front, Copying
<1>4. /\ o \in Bds /\ InRing(o) /\ TxOff(o) = 0
      /\ \A b \in Bds : InRing(b)' => b # o
      /\ \A b \in Bds \ {o} : TxOff(b)' = TxOff(b) - 1 /\ InRing(b)' = InRing(b)
  BY RetireRing DEF TxInv
<1> HIDE DEF o, n
<1>5. n \in Nat /\ n >= 1 /\ At(o) + n <= Used /\ At(o) \in Nat /\ Used \in Nat
  BY <1>4, TxTypes DEF n, TxInv, TxMemory, At
<1>6. Used' = Used - n /\ TxBufferSpaceAvailable' = TxBufSize - 4 * Used' /\ Used - n \in 0 .. MemWords
  <2>1. /\ TxBufferSpaceAvailable = TxBufSize - 4 * Used /\ TxBufSize \in Nat /\ Used <= MemWords
        /\ MemWords \in Nat
    BY TxTypes, TxSizes
  <2> DEFINE a == TxBufferSpaceAvailable'
  <2>2. a = TxBufSize - 4 * (Used - n) /\ a \in Int /\ Used - n \in Int /\ TxBufSize \in Int
    BY <1>1, <1>5, <2>1
  <2>3. Used' = (TxBufSize - a) \div 4
    BY DEF Used
  <2> HIDE DEF a
  <2>4. (TxBufSize - a) \div 4 = Used - n
    BY <2>2, UsedIs
  <2>5. Used - n \in 0 .. MemWords
    BY <1>5, <2>1
  <2> QED BY <2>2, <2>3, <2>4, <2>5 DEF a
<1>7. ASSUME NEW b \in Bds, b # o, InRing(b)
      PROVE  At(b)' = At(b) - n /\ At(b) \in Nat
  <2>1. TxOff(o) < TxOff(b)
    <3>1. TxOff(b) # TxOff(o) /\ TxOff(b) \in Nat
      BY <1>4, <1>7, TxTypes, TxOffApart
    <3> QED BY <1>4, <3>1
  <2>2. At(o) + n <= At(b)
    BY <1>4, <1>7, <2>1 DEF TxInv, TxMemory, n
  <2>3. txBd[b].ptr \in Int /\ At(b) \in 0 .. MemWords - 1 /\ wrPtr \in Int
    BY TxTypes DEF At
  <2> DEFINE y == txBd[b].ptr - wrPtr + Used
             z == txBd[b].ptr - wrPtr + (Used - n)
  <2>4. y \in Int /\ z = y + (0 - n) /\ 0 - n \in Int
    BY <1>5, <2>3
  <2>5. At(b) = y % MemWords /\ At(b)' = z % MemWords
    BY <1>1, <1>3, <1>6 DEF At, Rel
  <2> HIDE DEF y, z
  <2>6. (y % MemWords) + (0 - n) \in 0 .. MemWords - 1 /\ At(b) \in Nat
    BY <1>5, <2>2, <2>3, <2>5, TxSizes
  <2>7. (y + (0 - n)) % MemWords = (y % MemWords) + (0 - n)
    BY <2>4, <2>6, TxSizes, ModAdd
  <2> QED BY <1>5, <2>4, <2>5, <2>6, <2>7
<1>8. \A b : WordsOf(b)' = WordsOf(b)
  BY <1>1 DEF WordsOf
<1>9. \A b, k : Holds(b, k)' = Holds(b, k)
  BY <1>1, <1>8 DEF Holds
<1>10. \A b \in Bds : InRing(b)' => b # o /\ InRing(b)
  BY <1>4
<1>11. \A b \in Bds : InRing(b)' => WordsOf(b)' >= 1 /\ At(b)' + WordsOf(b)' <= Used'
  <2> TAKE b \in Bds
  <2> HAVE InRing(b)'
  <2>1. WordsOf(b) >= 1 /\ At(b) + WordsOf(b) <= Used /\ WordsOf(b) \in Nat
    BY <1>10, TxTypes DEF TxInv, TxMemory
  <2>2. At(b)' = At(b) - n /\ At(b) \in Nat
    BY <1>7, <1>10
  <2> QED BY <1>5, <1>6, <1>8, <2>1, <2>2
<1>12. \A b, c \in Bds : InRing(c)' /\ TxOff(b)' < TxOff(c)' => At(b)' + WordsOf(b)' <= At(c)'
  <2> TAKE b, c \in Bds
  <2> HAVE InRing(c)' /\ TxOff(b)' < TxOff(c)'
  <2>1. TxDNVBDIndex' \in Int
    BY RetireRing DEF TxInv, TxRing
  <2>2. TxOff(b)' \in Int /\ TxOff(c)' \in Int
    <3>1. b - TxDNVBDIndex' \in Int /\ c - TxDNVBDIndex' \in Int
      BY <2>1, TxTypes
    <3> QED BY <3>1, TxSizes, DivMod DEF TxOff
  <2>3. InRing(b)'
    BY <1>1, <2>2, TxTypes DEF InRing
  <2>4. b # o /\ c # o /\ InRing(b) /\ InRing(c) /\ TxOff(b) < TxOff(c)
    <3>1. b # o /\ c # o /\ InRing(b) /\ InRing(c)
      BY <1>10, <2>3
    <3> QED BY <1>4, <2>2, <3>1, TxTypes
  <2>5. At(b) + WordsOf(b) <= At(c) /\ WordsOf(b) \in Nat
    BY <2>4, TxTypes DEF TxInv, TxMemory
  <2> QED BY <1>5, <1>7, <1>8, <2>4, <2>5
<1>13. \A b \in Bds : txBd'[b].ready => Holds(b, Number(b))'
  <2> TAKE b \in Bds
  <2> HAVE txBd'[b].ready
  <2>1. b # o /\ txBd[b].ready
    BY <1>1
  <2>2. Number(b)' = Number(b)
    BY <1>1, <1>4, <2>1, TxTypes DEF Number
  <2>3. \A i \in 1 .. WordsOf(b) : txMem[Place(txBd[b].ptr, i)] = <<Number(b), i>>
    BY <2>1 DEF TxInv, TxMemory, Holds
  <2> QED BY <1>1, <1>8, <2>2, <2>3 DEF Holds
<1>14. TxCopied'
  BY <1>1, <1>2 DEF TxCopied
<1>15. wrPtr' \in Words /\ txMem' = [w \in Words |-> txMem'[w]] /\ Used' \in 0 .. MemWords
  BY <1>1, <1>6 DEF TxInv, TxMemory
<1> QED BY <1>6, <1>11, <1>12, <1>13, <1>14, <1>15 DEF TxMemory

\* Sending a frame leaves the memory as it is.
LEMMA HwSendMemory ==
  ASSUME TxInv, HwSend
  PROVE  TxMemory' /\ TxCopied'
<1>1. /\ txBd' = [txBd EXCEPT ![hwTx] = [txBd[hwTx] EXCEPT !.ready = FALSE]]
      /\ UNCHANGED <<txpc, txSize, txFree, TxBDIndex, TxDNVBDIndex, NumPacketsInTx,
                     TxBufferSpaceAvailable, wrPtr, txMem, posted>>
  BY DEF HwSend
<1>2. \A b \in Bds : /\ txBd'[b].len = txBd[b].len /\ txBd'[b].ptr = txBd[b].ptr
                     /\ (txBd'[b].ready => txBd[b].ready)
  BY <1>1 DEF TxInv, TxRing
<1>3. NewSlot' = NewSlot /\ Copying' = Copying /\ Used' = Used /\ NewSlot \in Bds
  BY <1>1, TxTypes DEF NewSlot, Copying, Used
<1>4. Front' = Front
  BY <1>1, <1>2, <1>3 DEF Front
<1>5. \A b \in Bds : WordsOf(b)' = WordsOf(b) /\ At(b)' = At(b)
  BY <1>2, <1>3, <1>4 DEF WordsOf, At, Rel
<1>6. \A b : TxOff(b)' = TxOff(b) /\ InRing(b)' = InRing(b) /\ Number(b)' = Number(b)
  BY <1>1 DEF TxOff, InRing, Number
<1>7. \A b \in Bds : \A k : Holds(b, k) => (\A i \in 1 .. WordsOf(b)' : txMem'[Place(txBd'[b].ptr, i)] = <<k, i>>)
  BY <1>1, <1>2, <1>5 DEF Holds
<1>8. \A b \in Bds : txBd'[b].ready => Holds(b, Number(b))'
  BY <1>2, <1>6, <1>7 DEF TxInv, TxMemory, Holds
<1>9. TxMemory'
  BY <1>1, <1>3, <1>5, <1>6, <1>8 DEF TxInv, TxMemory
<1>10. TxCopied'
  BY <1>1, <1>2, <1>3, <1>5, <1>7 DEF TxInv, TxCopied, Size, Holds
<1> QED BY <1>9, <1>10

\* A copied frame lies behind all frames of the ring.
LEMMA CopyMemory ==
  ASSUME TxInv, NEW t \in Senders, Copy(t)
  PROVE  TxMemory' /\ TxCopied'
<1> DEFINE n == NewSlot
           k == Need(t)
           p == wrPtr
<1>1. /\ NumPacketsInTx < NumBds /\ k \in Nat /\ k >= 1 /\ Used + k <= MemWords
      /\ txBd' \in [Bds -> [ready : BOOLEAN, len : Nat, ptr : Words]]
      /\ txBd'[n].ready = txBd[n].ready /\ txBd'[n].len = Size(t)
      /\ txBd'[n].ptr = p
      /\ \A b \in Bds \ {n} : txBd'[b] = txBd[b]
      /\ wrPtr' = (p + k) % MemWords
      /\ txMem' = [w \in Words |-> IF \E i \in 1 .. k : Place(p, i) = w
                                     THEN <<posted + 1, CHOOSE i \in 1 .. k : Place(p, i) = w>>
                                     ELSE txMem[w]]
      /\ ~Copying /\ Copying' /\ NewSlot' = n /\ Used' = Used
      /\ UNCHANGED <<txSize, TxBDIndex, TxDNVBDIndex, NumPacketsInTx, TxBufferSpaceAvailable,
                     hwTx, posted>>
  BY CopyShape
<1>2. n \in Bds /\ ~txBd[n].ready /\ \A b \in Bds : InRing(b) => b # n
  BY <1>1, NewSlotFree DEF TxInv
<1>3. Front = p /\ Front' = p
  BY <1>1 DEF Front
<1>4. Size(t)' = Size(t)
  BY <1>1 DEF Size
<1> HIDE DEF n, k, p
<1>5. p \in Words /\ p \in Int /\ Used \in Nat /\ Front \in Int /\ Used \in Int /\ MemWords \in Nat
  BY TxTypes, TxSizes DEF p
<1>6. Rel(p) = Used
  <2>1. Used < MemWords
    BY <1>1, <1>5
  <2> QED BY <1>3, <2>1, RelFront
<1>7. \A j \in 1 .. k : Place(p, j) \in Words /\ Rel(Place(p, j)) = Used + j - 1
  <2> TAKE j \in 1 .. k
  <2>1. Rel(p) + j - 1 \in 0 .. MemWords - 1 /\ j \in Int
    BY <1>1, <1>5, <1>6
  <2>2. Place(p, j) \in 0 .. MemWords - 1 /\ Rel(Place(p, j)) = Rel(p) + j - 1
    BY <1>5, <2>1, RelPlace
  <2> QED BY <1>6, <2>2 DEF Words, MemWords
<1>8. \A b \in Bds \ {n} : WordsOf(b)' = WordsOf(b) /\ At(b)' = At(b)
  BY <1>1, <1>3 DEF WordsOf, At, Rel
<1>9. \A b : TxOff(b)' = TxOff(b) /\ InRing(b)' = InRing(b) /\ Number(b)' = Number(b)
  BY <1>1 DEF TxOff, InRing, Number
<1>10. \A b, c \in Bds : InRing(c) /\ TxOff(b) < TxOff(c) => InRing(b)
  BY TxTypes DEF InRing
<1>11. \A b \in Bds : txBd'[b].ready => Holds(b, Number(b))'
  <2> TAKE b \in Bds
  <2> HAVE txBd'[b].ready
  <2>1. b # n /\ txBd[b].ready /\ InRing(b) /\ txBd'[b] = txBd[b]
    BY <1>1, <1>2 DEF TxInv, TxRing
  <2>2. \A i \in 1 .. WordsOf(b) : txMem[Place(txBd[b].ptr, i)] = <<Number(b), i>>
    BY <2>1 DEF TxInv, TxMemory, Holds
  <2>3. ASSUME NEW i \in 1 .. WordsOf(b)
        PROVE  txMem'[Place(txBd[b].ptr, i)] = txMem[Place(txBd[b].ptr, i)]
    <3> DEFINE w == Place(txBd[b].ptr, i)
    <3>1. /\ txBd[b].ptr \in Int /\ At(b) \in Nat /\ At(b) + WordsOf(b) <= Used /\ Used <= MemWords
          /\ WordsOf(b) \in Nat
      BY <2>1, TxTypes DEF At, TxInv, TxMemory
    <3>2. Rel(txBd[b].ptr) + i - 1 \in 0 .. MemWords - 1 /\ i \in Int /\ At(b) + i - 1 < Used
      BY <1>5, <3>1 DEF At
    <3>3. w \in 0 .. MemWords - 1 /\ Rel(w) = At(b) + i - 1
      BY <1>5, <3>1, <3>2, RelPlace DEF At
    <3>4. w \in Words
      BY <3>3 DEF Words, MemWords
    <3> HIDE DEF w
    <3>5. \A j \in 1 .. k : Place(p, j) # w
      <4> TAKE j \in 1 .. k
      <4>1. Rel(Place(p, j)) = Used + j - 1
        BY <1>7
      <4>2. Rel(w) # Used + j - 1
        BY <1>1, <1>5, <3>1, <3>2, <3>3
      <4> QED BY <4>1, <4>2
    <3>6. txMem'[w] = txMem[w]
      BY <1>1, <3>4, <3>5
    <3> QED BY <3>6 DEF w
  <2>4. WordsOf(b)' = WordsOf(b) /\ Number(b)' = Number(b)
    BY <1>8, <1>9, <2>1
  <2> QED BY <2>1, <2>2, <2>3, <2>4 DEF Holds
<1>12. \A i \in 1 .. k : txMem'[Place(p, i)] = <<posted + 1, i>>
  <2> TAKE i \in 1 .. k
  <2>1. Place(p, i) \in Words /\ \E j \in 1 .. k : Place(p, j) = Place(p, i)
    BY <1>7
  <2>2. \A j \in 1 .. k : Place(p, j) = Place(p, i) => j = i
    <3> TAKE j \in 1 .. k
    <3> HAVE Place(p, j) = Place(p, i)
    <3>1. Rel(Place(p, j)) = Used + j - 1 /\ Rel(Place(p, i)) = Used + i - 1
      BY <1>7
    <3>2. Used + j - 1 = Used + i - 1 /\ i \in Int /\ j \in Int
      BY <3>1
    <3> QED BY <1>5, <3>2
  <2>3. (CHOOSE j \in 1 .. k : Place(p, j) = Place(p, i)) = i
    BY <2>2
  <2> QED BY <1>1, <2>1, <2>3
<1>13. TxMemory'
  <2>1. wrPtr' \in Words
    <3>1. p + k \in Int
      BY <1>1, <1>5
    <3>2. (p + k) % MemWords \in 0 .. MemWords - 1
      BY <3>1, TxSizes, DivMod
    <3> QED BY <1>1, <3>2 DEF Words, MemWords
  <2>2. txMem' = [w \in Words |-> txMem'[w]]
    BY <1>1
  <2>3. \A b \in Bds : InRing(b)' => WordsOf(b)' >= 1 /\ At(b)' + WordsOf(b)' <= Used'
    BY <1>1, <1>2, <1>8, <1>9 DEF TxInv, TxMemory
  <2>4. \A b, c \in Bds : InRing(c)' /\ TxOff(b)' < TxOff(c)' => At(b)' + WordsOf(b)' <= At(c)'
    BY <1>2, <1>8, <1>9, <1>10 DEF TxInv, TxMemory
  <2> QED BY <1>1, <1>11, <2>1, <2>2, <2>3, <2>4 DEF TxInv, TxMemory
<1>14. TxCopied'
  <2>1. NumWords(txBd'[n].len) = k /\ txBd'[n].len = Size(t) /\ txBd'[n].ptr = p
    BY <1>1, <1>2 DEF k, Need
  <2>2. WordsOf(NewSlot)' = k /\ txBd'[NewSlot'].ptr = p /\ txBd'[NewSlot'].len = Size(t)
    <3>1. NewSlot' = n
      BY <1>1
    <3> QED BY <2>1, <3>1 DEF WordsOf
  <2>3. Holds(NewSlot, posted + 1)'
    <3>1. \A i \in 1 .. k : txMem'[Place(p, i)] = <<posted' + 1, i>>
      BY <1>1, <1>12
    <3> QED BY <2>2, <3>1 DEF Holds
  <2>4. \A u \in Senders : txpc'[u] = "copied" => u = t
    BY DEF Copy, TxGoto, TxInv, TxTurns, Turn
  <2> QED BY <1>1, <1>4, <2>2, <2>3, <2>4 DEF TxCopied
<1> QED BY <1>13, <1>14

\* Posting the frame puts its words into use where they are.
LEMMA PostMemory ==
  ASSUME TxInv, NEW t \in Senders, Post(t)
  PROVE  TxMemory' /\ TxCopied'
<1> DEFINE n == NewSlot
           k == Need(t)
           p == txBd[n].ptr
<1>1. /\ NumPacketsInTx < NumBds /\ k \in Nat /\ k >= 1 /\ Used + k <= MemWords
      /\ n \in Bds /\ WordsOf(n) = k
      /\ txBd' \in [Bds -> [ready : BOOLEAN, len : Nat, ptr : Words]]
      /\ txBd'[n].ready /\ txBd'[n].len = txBd[n].len
      /\ txBd'[n].ptr = p
      /\ \A b \in Bds \ {n} : txBd'[b] = txBd[b]
      /\ NumPacketsInTx' = NumPacketsInTx + 1
      /\ TxBufferSpaceAvailable' = TxBufferSpaceAvailable - 4 * k
      /\ posted' = posted + 1 /\ Copying /\ ~Copying'
      /\ wrPtr = (p + k) % MemWords /\ Holds(n, posted + 1)
      /\ UNCHANGED <<txSize, TxDNVBDIndex, wrPtr, txMem, hwTx>>
  BY PostShape
<1>2. TxOff(n) = NumPacketsInTx /\ ~txBd[n].ready
  BY <1>1, NewSlotFree DEF TxInv
<1>3. Front = p /\ Front' = wrPtr
  BY <1>1 DEF Front
<1>4. p \in Int /\ Used \in Nat /\ MemWords \in Nat /\ MemWords > 0 /\ wrPtr \in Int /\ NumPacketsInTx \in Nat
      /\ posted \in Nat
  BY <1>1, TxTypes, TxSizes
<1>5. Used' = Used + k /\ TxBufferSpaceAvailable' = TxBufSize - 4 * Used' /\ Used + k \in 0 .. MemWords
  <2>1. TxBufferSpaceAvailable = TxBufSize - 4 * Used /\ TxBufSize \in Nat
    BY TxTypes, TxSizes
  <2> HIDE DEF n, k, p
  <2> DEFINE a == TxBufferSpaceAvailable'
  <2>2. a = TxBufSize - 4 * (Used + k) /\ a \in Int /\ Used + k \in Int /\ TxBufSize \in Int
    BY <1>1, <1>4, <2>1
  <2>3. Used' = (TxBufSize - a) \div 4
    BY DEF Used
  <2> HIDE DEF a
  <2>4. (TxBufSize - a) \div 4 = Used + k
    BY <2>2, UsedIs
  <2>5. Used + k \in 0 .. MemWords
    BY <1>1, <1>4
  <2> QED BY <2>2, <2>3, <2>4, <2>5 DEF a
<1>6. Rel(p) = Used
  <2>1. Used < MemWords
    BY <1>1, <1>4
  <2> QED BY <1>3, <2>1, RelFront
<1> HIDE DEF n, k, p
<1>7. ASSUME NEW x \in Int
      PROVE  (x - wrPtr + (Used + k)) % MemWords = Rel(x)
  <2> DEFINE q == (p + k) \div MemWords
             y == x - p + Used
  <2>1. p + k \in Int
    BY <1>1, <1>4
  <2>2. p + k = MemWords * q + wrPtr /\ q \in Int
    BY <1>1, <1>4, <2>1, DivMod
  <2> HIDE DEF q
  <2>3. x - wrPtr + (Used + k) = y + MemWords * q /\ y \in Int
    <3>1. ASSUME NEW w \in Int, NEW u \in Int, NEW c \in Int, NEW e \in Int, NEW f \in Int,
                 c + e = f + w
          PROVE  x - w + (u + e) = (x - c + u) + f
      BY <3>1
    <3>2. MemWords * q \in Int /\ k \in Int /\ Used \in Int
      BY <1>1, <1>4, <2>2
    <3> QED BY <1>4, <2>2, <3>1, <3>2
  <2> HIDE DEF y
  <2>4. (y + MemWords * q) % MemWords = y % MemWords
    BY <1>4, <2>2, <2>3, ModShift
  <2>5. Rel(x) = y % MemWords
    BY <1>3 DEF Rel, y
  <2> QED BY <2>3, <2>4, <2>5
<1>8. \A b \in Bds : WordsOf(b)' = WordsOf(b) /\ At(b)' = At(b)
  <2> TAKE b \in Bds
  <2>1. txBd'[b].ptr = txBd[b].ptr /\ txBd'[b].len = txBd[b].len /\ txBd[b].ptr \in Int
    BY <1>1, TxTypes DEF p
  <2>2. At(b)' = (txBd[b].ptr - wrPtr + (Used + k)) % MemWords
    BY <1>3, <1>5, <2>1 DEF At, Rel
  <2> QED BY <1>7, <2>1, <2>2 DEF WordsOf, At
<1>9. \A b : TxOff(b)' = TxOff(b)
  BY <1>1 DEF TxOff
<1>10. \A b \in Bds : InRing(b)' <=> b = n \/ InRing(b)
  <2>1. \A b \in Bds \ {n} : TxOff(b) # NumPacketsInTx /\ TxOff(b) \in Nat
    BY <1>1, <1>2, TxTypes, TxOffApart
  <2> TAKE b \in Bds
  <2>2. InRing(b)' <=> TxOff(b) < NumPacketsInTx + 1
    BY <1>1, <1>9 DEF InRing
  <2>3. InRing(b) <=> TxOff(b) < NumPacketsInTx
    BY DEF InRing
  <2>4. CASE b = n
    BY <1>2, <1>4, <2>2, <2>4
  <2>5. CASE b # n
    BY <1>4, <2>1, <2>2, <2>3, <2>5
  <2> QED BY <2>4, <2>5
<1>11. \A b \in Bds : InRing(b)' => WordsOf(b)' >= 1 /\ At(b)' + WordsOf(b)' <= Used'
  <2> TAKE b \in Bds
  <2> HAVE InRing(b)'
  <2>1. CASE b = n
    BY <1>1, <1>4, <1>5, <1>6, <1>8, <2>1 DEF At, p
  <2>2. CASE b # n
    <3>1. WordsOf(b) >= 1 /\ At(b) + WordsOf(b) <= Used /\ WordsOf(b) \in Nat /\ At(b) \in Nat
      BY <1>10, <2>2, TxTypes DEF TxInv, TxMemory, At
    <3> QED BY <1>1, <1>4, <1>5, <1>8, <3>1
  <2> QED BY <2>1, <2>2
<1>12. \A b, c \in Bds : InRing(c)' /\ TxOff(b)' < TxOff(c)' => At(b)' + WordsOf(b)' <= At(c)'
  <2> TAKE b, c \in Bds
  <2> HAVE InRing(c)' /\ TxOff(b)' < TxOff(c)'
  <2>1. TxOff(b) < TxOff(c) /\ TxOff(b) \in Nat /\ TxOff(c) \in Nat
    BY <1>9, TxTypes
  <2>2. CASE c = n
    <3>1. InRing(b)
      BY <1>2, <2>1, <2>2 DEF InRing
    <3>2. At(b) + WordsOf(b) <= Used
      BY <3>1 DEF TxInv, TxMemory
    <3> QED BY <1>6, <1>8, <2>2, <3>2 DEF At, p
  <2>3. CASE c # n
    <3>1. InRing(c)
      BY <1>10, <2>3
    <3> QED BY <1>8, <2>1, <3>1 DEF TxInv, TxMemory
  <2> QED BY <2>2, <2>3
<1>13. \A b \in Bds : txBd'[b].ready => Holds(b, Number(b))'
  <2> TAKE b \in Bds
  <2> HAVE txBd'[b].ready
  <2>1. CASE b = n
    <3>1. Number(b)' = posted + 1
      BY <1>1, <1>2, <1>4, <1>9, <2>1 DEF Number
    <3>2. \A i \in 1 .. WordsOf(n) : txMem[Place(p, i)] = <<posted + 1, i>>
      BY <1>1 DEF Holds, p
    <3> QED BY <1>1, <1>8, <2>1, <3>1, <3>2 DEF Holds
  <2>2. CASE b # n
    <3>1. Number(b)' = Number(b)
      BY <1>1, <1>4, <1>9, TxTypes DEF Number
    <3>2. txBd'[b] = txBd[b] /\ txBd[b].ready
      BY <1>1, <2>2
    <3>3. \A i \in 1 .. WordsOf(b) : txMem[Place(txBd[b].ptr, i)] = <<Number(b), i>>
      BY <3>2 DEF TxInv, TxMemory, Holds
    <3> QED BY <1>1, <1>8, <3>1, <3>2, <3>3 DEF Holds
  <2> QED BY <2>1, <2>2
<1>14. TxCopied'
  BY <1>1 DEF TxCopied, Copying
<1>15. wrPtr' \in Words /\ txMem' = [w \in Words |-> txMem'[w]] /\ Used' \in 0 .. MemWords
  BY <1>1, <1>5 DEF TxInv, TxMemory
<1> QED BY <1>5, <1>11, <1>12, <1>13, <1>14, <1>15 DEF TxMemory

-----------------------------------------------------------------------------
(* The transmit side implements the queue *)

LEMMA TxInvInit == NetInit => TxInv
<1> SUFFICES ASSUME TxInit PROVE TxInv
  BY DEF NetInit
<1> USE DEF TxInit
<1>1. 0 \in Words /\ 0 \in Bds /\ 0 \in 0 .. IndexMod - 1
  BY TxSizes DEF Words, Bds, MemWords
<1>2. NumReady = 0 /\ Gone = 0
  <2>1. {b \in Bds : txBd[b].ready} = {}
    OBVIOUS
  <2>2. NumReady = 0
    BY <2>1, FS_EmptySet DEF NumReady
  <2> QED BY <2>2 DEF Gone
<1>3. Used = 0
  <2>1. TxBufSize \in Int /\ TxBufSize = TxBufSize - 4 * 0
    BY TxSizes
  <2>2. (TxBufSize - TxBufSize) \div 4 = 0
    BY <2>1, UsedIs
  <2> QED BY <2>2 DEF Used
<1>4. \A b \in Bds : ~InRing(b)
  <2> TAKE b \in Bds
  <2>1. TxDNVBDIndex \in Int /\ b \in Int
    BY DEF Bds
  <2>2. TxOff(b) \in 0 .. NumBds - 1
    BY <2>1, TxOffRange
  <2>3. ~(TxOff(b) < 0)
    BY <2>2
  <2> QED BY <2>3 DEF InRing
<1>5. TxTurns
  BY DEF TxTurns, Turn, TxPCs
<1>6. TxRing
  <2>1. TxOff(0) = 0 % NumBds
    BY DEF TxOff
  <2> QED BY <1>1, <1>2, <1>4, <2>1, TxSizes DEF TxRing
<1>7. TxMemory
  BY <1>1, <1>3, <1>4, TxSizes DEF TxMemory
<1>8. TxCopied
  BY DEF TxCopied
<1> QED BY <1>5, <1>6, <1>7, <1>8 DEF TxInv

LEMMA TxStepInv ==
  ASSUME TxInv, NEW t \in Senders, TxStep(t)
  PROVE  TxInv'
<1>1. TxTurns'
  BY TurnsStep DEF TxInv
<1>2. CASE TxStart(t) \/ TxTake(t) \/ Full(t) \/ \E size \in FrameSizes : Transmit(t, size)
  <2>1. UNCHANGED ringTx
    BY <1>2 DEF TxStart, TxTake, Full, Transmit, txRest, ringTx
  <2>2. \A u \in Senders : txpc'[u] = "copied" <=> txpc[u] = "copied"
    BY <1>2 DEF TxStart, TxTake, Full, Transmit, TxGoto, TxInv, TxTurns
  <2>3. \A u \in Senders : txpc[u] = "copied" => txSize'[u] = txSize[u]
    BY <1>2 DEF TxStart, TxTake, Full, Transmit, txRest, TxInv, TxTurns
  <2> QED BY <1>1, <2>1, <2>2, <2>3, QuietTx DEF TxInv
<1>3. CASE Retire(t)
  <2>1. TxRing'
    BY <1>3, RetireRing DEF TxInv
  <2> QED BY <1>1, <1>3, <2>1, RetireMemory DEF TxInv
<1>4. CASE Copy(t)
  BY <1>1, <1>4, CopyRing, CopyMemory DEF TxInv
<1>5. CASE Post(t)
  BY <1>1, <1>5, PostRing, PostMemory DEF TxInv
<1> QED BY <1>2, <1>3, <1>4, <1>5 DEF TxStep, Sender

LEMMA HwSendInv ==
  ASSUME TxInv, HwSend
  PROVE  TxInv'
<1>1. TxTurns'
  BY DEF HwSend, TxInv, TxTurns, Turn
<1> QED BY <1>1, HwSendRing, HwSendMemory DEF TxInv

LEMMA TxInvStutter ==
  ASSUME TxInv, UNCHANGED txVars
  PROVE  TxInv'
<1>1. TxTurns'
  BY DEF txVars, TxInv, TxTurns, Turn
<1>2. /\ UNCHANGED ringTx
      /\ \A u \in Senders : txpc'[u] = "copied" <=> txpc[u] = "copied"
      /\ \A u \in Senders : txpc[u] = "copied" => txSize'[u] = txSize[u]
  BY DEF txVars, ringTx
<1> QED BY <1>1, <1>2, QuietTx DEF TxInv

\* What a step of the network is on the transmit side.
LEMMA NetTxStep ==
  ASSUME [NetNext]_netVars
  PROVE  (\E t \in Senders : TxStep(t)) \/ HwSend \/ UNCHANGED txVars
<1>1. Rx \in Senders /\ App \in Senders /\ ArpSize \in FrameSizes
  BY NetAssumption
<1>2. CASE Callback
  BY <1>1, <1>2 DEF Callback, TxStep
<1>3. CASE Application
  BY <1>1, <1>3 DEF Application, ArpRequest, ArpAsked, TxStep
<1>4. CASE Wire
  BY <1>4 DEF Wire
<1>5. ASSUME NEW t \in Senders, Step(t) \/ \E size \in FrameSizes : Send(t, size)
      PROVE  TxStep(t)
  BY <1>5 DEF Step, Send, TxStep
<1>6. CASE UNCHANGED netVars
  BY <1>6 DEF netVars
<1> QED
  BY <1>2, <1>3, <1>4, <1>5, <1>6
     DEF NetNext, IntrSide, CallbackEnds, Arrive, Received, Tick, Other, Cable, Start, Intr, intrOnly

LEMMA TxInvAlways == NetSpec => []TxInv
<1>1. TxInv /\ [NetNext]_netVars => TxInv'
  BY NetTxStep, TxStepInv, HwSendInv, TxInvStutter
<1> QED BY <1>1, TxInvInit, PTL DEF NetSpec

\* the numbers of the last n of p frames
Run(p, n) == [i \in 1 .. n |-> p - n + i]

LEMMA RunEmpty == ASSUME NEW p \in Nat PROVE Run(p, 0) = <<>>
BY DEF Run

LEMMA RunLonger ==
  ASSUME NEW p \in Nat, NEW n \in Nat
  PROVE  Append(Run(p, n), p + 1) = Run(p + 1, n + 1)
<1>1. Run(p, n) \in Seq(Int) /\ Len(Run(p, n)) = n
  BY DEF Run
<1>2. Run(p + 1, n + 1) \in Seq(Int) /\ Len(Run(p + 1, n + 1)) = n + 1
  BY DEF Run
<1>3. Append(Run(p, n), p + 1) \in Seq(Int) /\ Len(Append(Run(p, n), p + 1)) = n + 1
  BY <1>1
<1>4. \A i \in 1 .. n + 1 : Append(Run(p, n), p + 1)[i] = Run(p + 1, n + 1)[i]
  BY <1>1 DEF Run
<1> QED BY <1>2, <1>3, <1>4

LEMMA RunShorter ==
  ASSUME NEW p \in Nat, NEW n \in Nat, n > 0
  PROVE  Run(p, n) # <<>> /\ Tail(Run(p, n)) = Run(p, n - 1)
<1> DEFINE s == Run(p, n)
           t == Run(p, n - 1)
           m == n - 1
<1>1. s \in Seq(Int) /\ Len(s) = m + 1 /\ m \in Nat
  BY DEF Run
<1>2. t \in Seq(Int) /\ Len(t) = m
  BY DEF Run
<1>3. \A i \in 1 .. m : s[i + 1] = t[i]
  <2> TAKE i \in 1 .. m
  <2>1. s[i + 1] = p - n + (i + 1)
    BY <1>1 DEF Run
  <2>2. t[i] = p - (n - 1) + i
    BY DEF Run
  <2>3. p - n + (i + 1) = p - (n - 1) + i
    OBVIOUS
  <2> QED BY <2>1, <2>2, <2>3, Zenon
<1> HIDE DEF s, t, m
<1>4. Tail(s) \in Seq(Int) /\ Len(Tail(s)) = m /\ s # <<>>
  BY <1>1
<1>5. \A i \in 1 .. m : Tail(s)[i] = t[i]
  BY <1>1, <1>3
<1>6. Tail(s) = t
  BY <1>2, <1>4, <1>5, SeqEqual
<1> QED BY <1>4, <1>6 DEF s, t

\* What the hardware would send are the last frames posted, whole.
LEMMA PendingIs == TxInv => Pending = Run(posted, NumReady)
<1> SUFFICES ASSUME TxInv PROVE Pending = Run(posted, NumReady)
  OBVIOUS
<1>1. ASSUME NEW i \in 1 .. NumReady, NEW b, b = (hwTx + i - 1) % NumBds
      PROVE  txBd[b].ready /\ FrameIn(b) = posted - NumReady + i
  <2>1. /\ NumReady \in Nat /\ NumPacketsInTx \in Nat /\ NumReady <= NumPacketsInTx
        /\ NumPacketsInTx <= NumBds /\ hwTx \in Int /\ TxDNVBDIndex \in Int /\ posted \in Nat
        /\ hwTx \in Bds
    BY TxTypes
  <2>2. Gone \in Nat /\ Gone + i - 1 < NumPacketsInTx /\ i \in Nat /\ i >= 1
        /\ Gone \in 0 .. NumBds - 1 /\ Gone + (i - 1) \in 0 .. NumBds - 1
    <3>1. ASSUME NEW r \in Nat, NEW n \in Nat, NEW j \in 1 .. r, r <= n, n <= NumBds
          PROVE  /\ n - r \in Nat /\ n - r + j - 1 < n /\ j \in Nat /\ j >= 1
                 /\ n - r \in 0 .. NumBds - 1 /\ n - r + (j - 1) \in 0 .. NumBds - 1
      BY <3>1, TxSizes
    <3> QED BY <2>1, <3>1 DEF Gone
  <2>3. (hwTx - TxDNVBDIndex) % NumBds = Gone
    <3>1. TxOff(hwTx) = Gone % NumBds
      BY DEF TxInv, TxRing
    <3>2. Gone % NumBds = Gone
      BY <2>2, TxSizes, ModSmall
    <3> QED BY <3>1, <3>2 DEF TxOff
  <2>4. b \in Bds /\ TxOff(b) = Gone + (i - 1)
    <3> DEFINE y == hwTx - TxDNVBDIndex
               j == hwTx + i - 1
    <3>1. y \in Int /\ i - 1 \in Int /\ j \in Int /\ j - TxDNVBDIndex = y + (i - 1)
      BY <2>1, <2>2
    <3>2. b = j % NumBds /\ y % NumBds = Gone
      BY <1>1, <2>3
    <3> HIDE DEF y, j
    <3>3. b \in Bds /\ TxOff(b) = TxOff(j)
      BY <2>1, <3>1, <3>2, TxOffSlot
    <3>4. (y + (i - 1)) % NumBds = (y % NumBds) + (i - 1)
      <4>1. (y % NumBds) + (i - 1) \in 0 .. NumBds - 1
        BY <2>2, <3>2
      <4> QED BY <3>1, <4>1, TxSizes, ModAdd
    <3>5. TxOff(j) = (y + (i - 1)) % NumBds
      BY <3>1 DEF TxOff
    <3> QED BY <3>2, <3>3, <3>4, <3>5
  <2>5. txBd[b].ready /\ InRing(b)
    BY <2>2, <2>4 DEF TxInv, TxRing, InRing
  <2>6. Number(b) = posted - NumReady + i
    BY <2>1, <2>2, <2>4 DEF Number, Gone
  <2>7. WordsOf(b) >= 1 /\ WordsOf(b) \in Nat /\ Holds(b, Number(b))
    BY <2>4, <2>5, TxTypes DEF TxInv, TxMemory
  <2>8. \A j \in 1 .. WordsOf(b) : txMem[(txBd[b].ptr + j - 1) % (TxBufSize \div 4)] = <<Number(b), j>>
    BY <2>7 DEF Holds, Place, MemWords
  <2>9. FrameIn(b) = Number(b)
    <3> HIDE DEF Number
    <3>1. 1 \in 1 .. WordsOf(b)
      BY <2>7
    <3>2. txMem[(txBd[b].ptr + 1 - 1) % (TxBufSize \div 4)] = <<Number(b), 1>>
      BY <2>8, <3>1
    <3>3. txMem[(txBd[b].ptr + 1 - 1) % (TxBufSize \div 4)][1] = Number(b)
      BY <3>2
    <3> QED BY <2>8, <3>3 DEF FrameIn, WordsOf
  <2> QED BY <2>5, <2>6, <2>9
<1> QED BY <1>1 DEF Pending, Run

\* Steps of the transmit side are steps of the queue: posting a frame accepts
\* it, sending one takes the first, and taking one back is not seen.
LEMMA QueueStep ==
  ASSUME TxInv, Pending = Run(posted, NumReady), Pending' = Run(posted', NumReady'),
         [NetNext]_netVars
  PROVE  [Queue!Next]_Queue!qvars
<1> USE DEF Queue!Next, Queue!qvars
<1>1. posted \in Nat /\ NumReady \in Nat
  BY TxTypes
<1>2. ASSUME posted' = posted, \A b \in Bds : txBd'[b].ready = txBd[b].ready
      PROVE  UNCHANGED <<posted, Pending>>
  BY <1>2, ReadySame
<1>3. ASSUME NEW t \in Senders, Post(t) PROVE Queue!Accept
  <2>1. posted' = posted + 1 /\ NumReady' = NumReady + 1
    BY <1>3, PostShape, PostRing
  <2> QED BY <1>1, <2>1, RunLonger DEF Queue!Accept
<1>4. ASSUME NEW t \in Senders, Copy(t) PROVE UNCHANGED <<posted, Pending>>
  <2>1. posted' = posted /\ NumReady' = NumReady
    BY <1>4, CopyRing DEF Copy
  <2> QED BY <2>1
<1>5. ASSUME NEW t \in Senders, TxStep(t), ~Post(t), ~Copy(t) PROVE UNCHANGED <<posted, Pending>>
  <2>1. posted' = posted /\ txBd' = txBd
    BY <1>5 DEF TxStep, Sender, TxStart, TxTake, Retire, Full, Transmit, txRest
  <2> QED BY <1>2, <2>1
<1>6. ASSUME HwSend PROVE Queue!Send
  <2>1. NumReady > 0 /\ NumReady' = NumReady - 1 /\ posted' = posted
    BY <1>6, HwSendRing DEF TxInv, HwSend
  <2> QED BY <1>1, <2>1, RunShorter DEF Queue!Send
<1>7. CASE UNCHANGED txVars
  <2>1. posted' = posted /\ txBd' = txBd
    BY <1>7 DEF txVars
  <2> QED BY <1>2, <2>1
<1> QED BY <1>3, <1>4, <1>5, <1>6, <1>7, NetTxStep

\* The transmit ring is a queue, whatever the sizes of ring, memory and frames
\* and whichever threads send: every frame leaves whole, once and in order
\* (xfer.c:207).
THEOREM ImplementsTxQueueAlways == NetSpec => ImplementsTxQueue
<1> DEFINE Shown == Pending = Run(posted, NumReady)
<1>1. NetInit => Queue!Init
  <2> SUFFICES ASSUME NetInit PROVE Queue!Init
    OBVIOUS
  <2>1. TxInv /\ posted = 0
    BY TxInvInit DEF NetInit, TxInit
  <2>2. NumReady = 0
    <3>1. {b \in Bds : txBd[b].ready} = {}
      BY DEF NetInit, TxInit
    <3> QED BY <3>1, FS_EmptySet DEF NumReady
  <2>3. Pending = <<>>
    BY <2>1, <2>2, PendingIs, RunEmpty
  <2> QED BY <2>1, <2>3 DEF Queue!Init
<1>2. TxInv => Shown
  BY PendingIs
<1>3. TxInv /\ Shown /\ Shown' /\ [NetNext]_netVars => [Queue!Next]_Queue!qvars
  BY QueueStep
<1> QED BY <1>1, <1>2, <1>3, TxInvAlways, PTL DEF NetSpec, ImplementsTxQueue, Queue!Spec
-----------------------------------------------------------------------------
(* The stack *)

\* The table keeps each address with its own host; the packet goes to everyone
\* until the address it is to carry has been looked for, whatever peer_ip is.
Resolving ==
  /\ DOMAIN arp_table = 1 .. ArpEntries
  /\ \A i \in 1 .. ArpEntries : arp_table[i].mac = arp_table[i].ip
  /\ dst = Broadcast \/ (mpc = "connected" /\ dst = ip_dest)

LEMMA FirstEntry ==
  ASSUME DOMAIN arp_table = 1 .. ArpEntries, NEW ip, EntryOf(ip) # {}
  PROVE  FirstOf(EntryOf(ip)) \in EntryOf(ip)
<1>1. EntryOf(ip) \in SUBSET Nat
  BY MinistackAssumption DEF EntryOf
<1>2. \E i \in EntryOf(ip) : \A j \in EntryOf(ip) : i <= j
  BY <1>1, Smallest
<1> QED BY <1>2 DEF FirstOf

LEMMA FrameResolving ==
  ASSUME Resolving, NEW frame, handle_rx_eth(frame)
  PROVE  Resolving'
<1>1. UNCHANGED <<mpc, dst, ip_dest>>
  BY DEF handle_rx_eth
<1>2. DOMAIN arp_table' = 1 .. ArpEntries /\ \A i \in 1 .. ArpEntries : arp_table'[i].mac = arp_table'[i].ip
  <2>1. CASE UNCHANGED arp_table
    BY <2>1 DEF Resolving
  <2>2. CASE arp_add_entry(frame.from, frame.from)
    <3>1. arp_table' = [i \in 1 .. ArpEntries |->
                          IF i = SlotFor(frame.from) THEN [ip |-> frame.from, mac |-> frame.from]
                                                     ELSE arp_table[i]]
      BY <2>2 DEF Resolving, arp_add_entry
    <3> QED BY <3>1 DEF Resolving
  <2> QED BY <2>1, <2>2 DEF handle_rx_eth, Learn
<1> QED BY <1>1, <1>2 DEF Resolving

LEMMA ApplicationResolving ==
  ASSUME Resolving, Connect \/ PacketInit \/ Found \/ Unresolved \/ Request \/ Asked
  PROVE  Resolving'
<1> USE DEF resolveRest
<1>1. CASE Connect \/ PacketInit \/ Unresolved \/ Request \/ Asked
  BY <1>1 DEF Resolving, Connect, PacketInit, Unresolved, Request, Asked
<1>2. CASE Found
  <2>1. /\ EntryOf(ip_dest) # {} /\ dst' = arp_table[FirstOf(EntryOf(ip_dest))].mac
        /\ mpc' = "connected" /\ UNCHANGED <<arp_table, ip_dest>>
    BY <1>2 DEF Found, Known, AddressOf
  <2>2. FirstOf(EntryOf(ip_dest)) \in EntryOf(ip_dest)
    BY <2>1, FirstEntry DEF Resolving
  <2>3. dst' = ip_dest
    BY <2>1, <2>2 DEF Resolving, EntryOf
  <2> QED BY <2>1, <2>3 DEF Resolving
<1> QED BY <1>1, <1>2

LEMMA ResolvingStep == Resolving /\ [NetNext]_netVars => Resolving'
<1> SUFFICES ASSUME Resolving, [NetNext]_netVars PROVE Resolving'
  OBVIOUS
<1>1. CASE UNCHANGED stackVars
  BY <1>1 DEF Resolving, stackVars
<1>2. CASE Callback \/ CallbackEnds
  BY <1>1, <1>2, FrameResolving DEF Callback, CallbackEnds
<1>3. CASE Application
  BY <1>3, ApplicationResolving DEF Application, ArpRequest, ArpAsked
<1> QED
  BY <1>1, <1>2, <1>3
     DEF NetNext, IntrSide, Step, Send, Wire, Arrive, Received, Tick, Other, Cable, Start, Intr,
         intrOnly, txOnly, netVars

\* Whoever answers, and when, and however often the peer changes in the
\* meantime: the application's packets go to the host whose IP address they
\* carry, or to everyone (ministack_arp.c:97-111).
THEOREM DestReachesAlways == NetSpec => []DestReaches
<1>1. NetInit => Resolving
  BY DEF NetInit, StackInit, Resolving
<1>2. Resolving => DestReaches
  BY DEF Resolving, DestReaches
<1> QED BY <1>1, <1>2, ResolvingStep, PTL DEF NetSpec

=============================================================================
