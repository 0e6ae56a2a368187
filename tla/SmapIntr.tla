------------------------------ MODULE SmapIntr ------------------------------
(***************************************************************************)
(* The SMAP driver's interrupt side (smap.c, HandleRxIntr in xfer.c): the  *)
(* interrupt Dev9IntrCb, the alarm LinkCheckTimerCB and the thread         *)
(* IntrHandlerThread, which talk through an event flag; the PHY and the    *)
(* receive ring are hardware.                                              *)
(*                                                                         *)
(* A frame that arrives is counted (FRAME_CNT) before its BD is complete,  *)
(* and RXEND is asserted with the latter.  What the driver configures at   *)
(* compile time (automatic negotiation, no pin straps) is fixed here, and  *)
(* NetDevStopFlag, which nothing sets, is left out.                        *)
(***************************************************************************)
EXTENDS Integers, Sequences

CONSTANTS
  NumRxBds,    \* SMAP_BD_MAX_ENTRY (64)
  RxIndexMod   \* where the u8 RxBDIndex wraps (256)

ASSUME SmapIntrAssumption ==
  /\ {NumRxBds, RxIndexMod} \subseteq Nat \ {0}
  /\ RxIndexMod % NumRxBds = 0 /\ NumRxBds < RxIndexMod

VARIABLES
  ipc,       \* IntrHandlerThread: where it is
  ef,        \* Dev9IntrEventFlag
  efBits,    \* EFBits
  retries,   \* AutoNegoRetries, 0 outside the negotiation
  caller,    \* who called InitPHY: "start" or "check"
  counter,   \* link check alarms until the link is looked at
  SmapIsInitialized, EnableLinkCheckTimer, LinkStatus,
  RxBDIndex,
  \* hardware
  enabled,   \* dev9IntrEnable(DEV9_SMAP_INTR_MASK2)
  stat,      \* SPD_R_INTR_STAT
  frameCnt,  \* FRAME_CNT
  rxBd,      \* the receive ring: Empty, or a frame with its number
  hwRx,      \* the BD of the next frame
  filling,   \* a frame is counted and its BD not yet complete
  link,      \* the PHY sees a link
  \* history
  arrived,   \* frames so far
  ticks      \* alarms so far

intrVars == <<ipc, ef, efBits, retries, caller, counter, SmapIsInitialized,
              EnableLinkCheckTimer, LinkStatus, RxBDIndex, enabled, stat, frameCnt, rxBd,
              hwRx, filling, link, arrived, ticks>>

threadVars == <<retries, caller, counter, SmapIsInitialized, EnableLinkCheckTimer, LinkStatus>>
rxVars     == <<frameCnt, rxBd, hwRx, filling, arrived>>

IPCs == {"off", "wait", "start", "reset", "nego", "manual100", "manual10", "errata", "mode",
         "mac", "events", "rx", "callback", "enable", "check", "dead"}

RxBds == 0 .. NumRxBds - 1
Empty == [nr |-> 0, frame |-> [kind |-> "none", from |-> "none"]]

IntrInit ==
  /\ ipc = "off" /\ ef = {} /\ efBits = {} /\ retries = 0 /\ caller = "start" /\ counter = 3
  /\ SmapIsInitialized = FALSE /\ EnableLinkCheckTimer = FALSE /\ LinkStatus = FALSE
  /\ RxBDIndex = 0 /\ enabled = FALSE /\ stat = {} /\ frameCnt = 0
  /\ rxBd = [b \in RxBds |-> Empty] /\ hwRx = 0 /\ filling = FALSE
  /\ link \in BOOLEAN /\ arrived = 0 /\ ticks = 0

-----------------------------------------------------------------------------
(* smap_init, SetupNetDev *)

\* Every check of the hardware passed: rings empty, interrupts disabled and
\* cleared, handlers registered, the thread runs and START is set.  Any check
\* that fails, or the thread, and the module does not stay.
SmapInit(ok) ==
  /\ ipc = "off"
  /\ IF ok THEN ipc' = "wait" /\ ef' = {"START"} /\ stat' = {}
           ELSE ipc' = "dead" /\ UNCHANGED <<ef, stat>>
  /\ UNCHANGED <<efBits, threadVars, RxBDIndex, enabled, rxVars, link, ticks>>

-----------------------------------------------------------------------------
(* IntrHandlerThread *)

hwRest == <<stat, rxVars, link, ticks>>

\* WaitEventFlag takes and clears all bits
IntrWake ==
  /\ ipc = "wait" /\ ef # {}
  /\ efBits' = ef /\ ef' = {}
  /\ ipc' = IF "START" \in ef /\ ~SmapIsInitialized THEN "start" ELSE "events"
  /\ UNCHANGED <<threadVars, RxBDIndex, enabled, hwRest>>

\* interrupts are enabled before the PHY is up
IntrStart ==
  /\ ipc = "start"
  /\ enabled' = TRUE /\ caller' = "start" /\ ipc' = "reset"
  /\ UNCHANGED <<ef, efBits, retries, counter, SmapIsInitialized, EnableLinkCheckTimer,
                 LinkStatus, RxBDIndex, hwRest>>

intrRest == <<ef, efBits, RxBDIndex, enabled, hwRest>>

MacOn ==
  /\ ipc = "mac"
  /\ SmapIsInitialized' = TRUE /\ EnableLinkCheckTimer' = TRUE /\ ipc' = "events"
  /\ UNCHANGED <<retries, caller, counter, LinkStatus, intrRest>>

\* INTR has been handled once the driver is up; before that nothing but START
\* can have been set
Handled == SmapIsInitialized /\ "INTR" \in efBits

\* RXEND is cleared before the ring is emptied; and when it has been
ClearedAfter  == "after"
ClearedWhen == "before"

\* SPD_R_INTR_STAT is looked at once; EMAC3 and RXDNV ("OTHER") are only cleared
IntrEvents ==
  /\ ipc = "events"
  /\ IF Handled
       THEN /\ stat' = IF ClearedWhen = "before" THEN {} ELSE stat \ {"OTHER"}
            /\ ipc' = IF "RXEND" \in stat THEN "rx" ELSE "enable"
       ELSE ipc' = (IF SmapIsInitialized THEN "enable" ELSE "wait") /\ UNCHANGED stat
  /\ UNCHANGED <<ef, efBits, threadVars, RxBDIndex, enabled, rxVars, link, ticks>>

\* HandleRxIntr: a complete frame goes to the callback, unless it has an error;
\* an EMPTY BD ends the loop although the frame is counted.  A driver that goes
\* by the count alone
FilledByCount == TRUE
Filled == rxBd[RxBDIndex % NumRxBds] # Empty

RxSlot == RxBDIndex % NumRxBds

RxFrame ==
  /\ ipc = "rx" /\ frameCnt > 0 /\ Filled
  /\ ipc' = "callback"
  /\ UNCHANGED <<threadVars, intrRest>>

\* the frame is read or skipped, and its BD is the hardware's again
RxNext ==
  /\ ipc = "callback"
  /\ frameCnt' = frameCnt - 1 /\ rxBd' = [rxBd EXCEPT ![RxSlot] = Empty]
  /\ RxBDIndex' = (RxBDIndex + 1) % RxIndexMod
  /\ ipc' = "rx"
  /\ UNCHANGED <<ef, efBits, threadVars, enabled, stat, hwRx, filling, arrived, link, ticks>>

\* HandleRxIntr always returns 0, so the counter is never reset
RxDone ==
  /\ ipc = "rx" /\ ~(frameCnt > 0 /\ Filled)
  /\ ipc' = "enable" /\ UNCHANGED <<threadVars, intrRest>>

IntrEnable ==
  /\ ipc = "enable"
  /\ enabled' = TRUE   \* dev9IntrEnable
  /\ counter' = IF "LINK_CHECK" \in efBits /\ counter > 0 THEN counter - 1 ELSE counter
  /\ ipc' = IF "LINK_CHECK" \in efBits /\ counter' = 0 THEN "check" ELSE "wait"
  /\ stat' = IF ClearedWhen = "before" THEN stat ELSE {}
  /\ UNCHANGED <<ef, efBits, retries, caller, SmapIsInitialized, EnableLinkCheckTimer,
                 LinkStatus, RxBDIndex, rxVars, link, ticks>>

CheckLinkStatus ==
  /\ ipc = "check"
  /\ IF link THEN ipc' = "wait" /\ UNCHANGED <<LinkStatus, caller>>
             ELSE ipc' = "reset" /\ LinkStatus' = FALSE /\ caller' = "check"
  /\ UNCHANGED <<retries, counter, SmapIsInitialized, EnableLinkCheckTimer, intrRest>>

-----------------------------------------------------------------------------
(* InitPHY *)

phyRest == <<counter, SmapIsInitialized, EnableLinkCheckTimer, intrRest>>

\* The first look at the reset bit decides.  Its failure ends the thread, but
\* only when it is starting.
PhyReset(done) ==
  /\ ipc = "reset"
  /\ retries' = 0
  /\ ipc' = IF done THEN "nego" ELSE IF caller = "start" THEN "dead" ELSE "wait"
  /\ UNCHANGED <<caller, LinkStatus, phyRest>>

\* a negotiation that completes and a link within 20 looks, or another try
Negotiate(complete) ==
  /\ ipc = "nego"
  /\ IF complete /\ link
       THEN ipc' = "mode" /\ LinkStatus' = TRUE /\ retries' = 0
       ELSE /\ retries' = retries + 1 /\ UNCHANGED LinkStatus
            /\ ipc' = IF retries + 1 < 3 THEN "nego" ELSE "manual100"
  /\ UNCHANGED <<caller, phyRest>>

\* 100 Mbps, then 10 Mbps, then everything again
Manual(from, otherwise) ==
  /\ ipc = from
  /\ retries' = 0
  /\ IF link THEN ipc' = "mode" /\ LinkStatus' = TRUE
             ELSE ipc' = otherwise /\ UNCHANGED LinkStatus
  /\ UNCHANGED <<caller, phyRest>>

\* A DP83846A that counts errors is set to 10 Mbps, and the thread waits for
\* that link; then the link mode is set up.
LinkMode(errors) ==
  /\ ipc = "mode"
  /\ ipc' = IF errors THEN "errata" ELSE IF caller = "start" THEN "mac" ELSE "wait"
  /\ UNCHANGED <<retries, caller, LinkStatus, phyRest>>

WaitLink ==
  /\ ipc = "errata"
  /\ IF link THEN ipc' = "mode" /\ LinkStatus' = TRUE
             ELSE LinkStatus' \in {LinkStatus, FALSE} /\ UNCHANGED ipc   \* 0 from the fifth look on
  /\ UNCHANGED <<retries, caller, phyRest>>

InitPHY ==
  \/ \E ok \in BOOLEAN : PhyReset(ok) \/ Negotiate(ok) \/ LinkMode(ok)
  \/ Manual("manual100", "manual10") \/ Manual("manual10", "nego")
  \/ WaitLink

IntrThread ==
  \/ IntrWake \/ IntrStart \/ MacOn \/ IntrEvents \/ RxFrame \/ RxDone \/ IntrEnable
  \/ CheckLinkStatus \/ InitPHY

-----------------------------------------------------------------------------
(* Dev9IntrCb, LinkCheckTimerCB and the hardware *)

Interrupt ==
  /\ enabled /\ stat # {}
  /\ enabled' = FALSE /\ ef' = ef \cup {"INTR"}
  /\ UNCHANGED <<ipc, efBits, threadVars, RxBDIndex, hwRest>>

LinkCheckTimer ==
  /\ EnableLinkCheckTimer
  /\ ef' = ef \cup {"LINK_CHECK"} /\ ticks' = ticks + 1
  /\ UNCHANGED <<ipc, efBits, threadVars, RxBDIndex, enabled, stat, rxVars, link>>

softRest == <<ipc, ef, efBits, threadVars, RxBDIndex, enabled>>

\* the MAC receives: the frame is counted, then its BD is written and RXEND asserted
FrameArrives ==
  /\ SmapIsInitialized /\ ~filling /\ rxBd[hwRx] = Empty
  /\ filling' = TRUE /\ frameCnt' = frameCnt + 1 /\ arrived' = arrived + 1
  /\ UNCHANGED <<softRest, stat, rxBd, hwRx, link, ticks>>

FrameComplete(frame) ==
  /\ filling
  /\ rxBd' = [rxBd EXCEPT ![hwRx] = [nr |-> arrived, frame |-> frame]]
  /\ hwRx' = (hwRx + 1) % NumRxBds
  /\ filling' = FALSE /\ stat' = stat \cup {"RXEND"}
  /\ UNCHANGED <<softRest, frameCnt, arrived, link, ticks>>

\* EMAC3 reports an error, or there was no BD for a frame
OtherEvent ==
  /\ SmapIsInitialized /\ stat' = stat \cup {"OTHER"}
  /\ UNCHANGED <<softRest, rxVars, link, ticks>>

LinkChanges == link' = ~link /\ UNCHANGED <<softRest, stat, rxVars, ticks>>

-----------------------------------------------------------------------------

Events == {"START", "INTR", "LINK_CHECK"}

IntrTypeOK ==
  /\ ipc \in IPCs /\ ef \subseteq Events /\ efBits \subseteq Events
  /\ retries \in 0 .. 3 /\ caller \in {"start", "check"} /\ counter \in 0 .. 3
  /\ {SmapIsInitialized, EnableLinkCheckTimer, LinkStatus, enabled, filling, link} \subseteq BOOLEAN
  /\ RxBDIndex \in 0 .. RxIndexMod - 1 /\ hwRx \in RxBds
  /\ stat \subseteq {"RXEND", "OTHER"} /\ frameCnt \in 0 .. NumRxBds

Complete == {b \in RxBds : rxBd[b] # Empty}

\* The thread never goes to sleep on an interrupt it would not hear of: while
\* it waits, interrupts are enabled or INTR is already set, over interrupts
\* that come during InitPHY, the handling of an earlier one or a link check.
NoInterruptLost == ipc = "wait" /\ SmapIsInitialized => enabled \/ "INTR" \in ef

\* No received frame is forgotten in the ring: while the thread waits, a
\* complete frame has its RXEND still asserted, or INTR is set (smap.c:430
\* clears RXEND before the ring is emptied).
NoFrameForgotten ==
  ipc = "wait" /\ Complete # {} => "INTR" \in ef \/ (enabled /\ "RXEND" \in stat)

\* Frames leave the ring in the order they came, each once: the next one the
\* thread looks at is the oldest one there, across the wrap of both indices.
RxInOrder ==
  LET handled == arrived - frameCnt IN
  \A b \in Complete : rxBd[b].nr = handled + 1 + ((b - RxBDIndex) % NumRxBds)

\* A frame that is in the ring reaches the callback, or the link is lost, or
\* the thread has ended.
FramesHandled ==
  \A b \in RxBds : rxBd[b] # Empty ~> (rxBd[b] = Empty \/ ~link \/ ipc = "dead")

=============================================================================
