-------------------------------- MODULE Net --------------------------------
(***************************************************************************)
(* The console's network: the transmit and the interrupt side of the SMAP  *)
(* driver and the stack above it.  They meet in the receive callback, in   *)
(* which the interrupt thread itself calls smap_transmit for an ARP reply, *)
(* and in SmapIsInitialized, which senders wait for and without which the  *)
(* MAC sends nothing.                                                      *)
(***************************************************************************)
EXTENDS SmapTx, SmapIntr, Ministack

CONSTANTS
  Rx,     \* the interrupt thread, as a caller of smap_transmit
  App,    \* the application thread that resolves the server's address
  ArpSize, \* sizes of an ARP packet
  Loads   \* what happens in a behaviour: how many sends, received frames, alarms, other
          \* events and changes of the link, and which frames, each once

ASSUME NetAssumption == {Rx, App} \subseteq Senders /\ Rx # App /\ ArpSize \in FrameSizes

VARIABLES
  load,     \* what is left of it
  replying  \* the callback is in smap_transmit

netVars == <<txVars, intrVars, stackVars, load, replying>>

NetInit ==
  /\ TxInit /\ IntrInit /\ StackInit /\ load \in Loads /\ replying = FALSE

Spend(what) == load[what] > 0 /\ load' = [load EXCEPT ![what] = @ - 1]

txOnly   == UNCHANGED <<intrVars, stackVars, replying>>
intrOnly == UNCHANGED <<txVars, stackVars, replying>>

\* the frame the thread is looking at
AnyFrame == Frames \cup {[kind |-> "bad", from |-> NoHost]}
CurrentFrame == rxBd[RxSlot].frame

-----------------------------------------------------------------------------
(* The callback *)

\* a frame with an error never reaches it; a request for our address is answered
Callback ==
  /\ ipc = "callback" /\ ~replying /\ CurrentFrame.kind # "bad" /\ Asks(CurrentFrame)
  /\ handle_rx_eth(CurrentFrame)
  /\ Transmit(Rx, ArpSize) /\ replying' = TRUE
  /\ UNCHANGED <<intrVars, load>>

\* the reply is out, or there was none to send
CallbackEnds ==
  /\ ipc = "callback"
  /\ IF replying THEN txpc[Rx] = "idle" /\ UNCHANGED stackVars
     ELSE IF CurrentFrame.kind = "bad" THEN UNCHANGED stackVars
     ELSE ~Asks(CurrentFrame) /\ handle_rx_eth(CurrentFrame)
  /\ RxNext /\ replying' = FALSE
  /\ UNCHANGED <<txVars, load>>

IntrSide ==
  \/ IntrThread /\ intrOnly /\ UNCHANGED load
  \/ Callback \/ CallbackEnds

-----------------------------------------------------------------------------
(* The application and other callers *)

\* arp_send_request calls smap_transmit and returns with it
ArpRequest ==
  /\ Request /\ Transmit(App, ArpSize)
  /\ UNCHANGED <<intrVars, load, replying>>

ArpAsked == txpc[App] = "idle" /\ Asked /\ UNCHANGED <<txVars, intrVars, load, replying>>

Application ==
  \/ (Connect \/ PacketInit \/ Found \/ Unresolved) /\ UNCHANGED <<txVars, intrVars, load, replying>>
  \/ ArpRequest \/ ArpAsked

\* udprdma and udptty send
Send(t, size) ==
  /\ t # Rx /\ (t = App => mpc \in {"discover", "connected"})
  /\ Spend("tx") /\ Transmit(t, size) /\ txOnly

\* the wait of two seconds ends when the driver is up, or anyhow
Step(t) == Sender(t) /\ txOnly /\ UNCHANGED load

\* the MAC is on once the driver is up
Wire == SmapIsInitialized /\ HwSend /\ txOnly /\ UNCHANGED load

-----------------------------------------------------------------------------

Arrive == Spend("rx") /\ FrameArrives /\ intrOnly
Received(frame) ==
  FrameComplete(frame) /\ intrOnly /\ load' = [load EXCEPT !.frames = @ \ {frame}]
Tick == Spend("ticks") /\ LinkCheckTimer /\ intrOnly
Other == Spend("other") /\ OtherEvent /\ intrOnly
Cable == Spend("cable") /\ LinkChanges /\ intrOnly
Start(ok) == SmapInit(ok) /\ intrOnly /\ UNCHANGED load
Intr == Interrupt /\ intrOnly /\ UNCHANGED load

NetNext ==
  \/ \E ok \in BOOLEAN : Start(ok)
  \/ IntrSide \/ Intr \/ Tick \/ Other \/ Cable
  \/ Arrive \/ \E frame \in load.frames : Received(frame)
  \/ \E t \in Senders : Step(t) \/ \E size \in FrameSizes : Send(t, size)
  \/ Wire \/ Application

NetSpec == NetInit /\ [][NetNext]_netVars

\* Threads that can run do, interrupts are delivered, a frame that is coming in
\* is received, the MAC sends.  A semaphore that comes free again and again is
\* taken; a chip does not count errors at 100 Mbps for ever.
NetFairSpec ==
  /\ NetSpec
  /\ WF_netVars(IntrSide) /\ WF_netVars(Intr) /\ WF_netVars(Application) /\ WF_netVars(Wire)
  /\ WF_netVars(\E frame \in load.frames : Received(frame))
  /\ SF_netVars(LinkMode(FALSE) /\ intrOnly /\ UNCHANGED load)
  /\ \A t \in Senders :
       WF_netVars(Step(t)) /\ SF_netVars(TxTake(t) /\ txOnly /\ UNCHANGED load)

NetTypeOK == TxTypeOK /\ IntrTypeOK /\ StackTypeOK /\ replying \in BOOLEAN

\* The interrupt thread does not stay in the callback, although it waits there
\* for a place in a ring that other callers empty, under a semaphore they hold:
\* the driver comes back to its interrupts (xfer.c:257).
CallbackReturns == replying ~> ~replying

\* A caller of smap_transmit returns once the driver is up, or has stopped.
CallersReturn ==
  \A t \in Senders :
    (txpc[t] = "start" /\ SmapIsInitialized) ~> txpc[t] = "idle"

\* Nobody waits for ever: callers, the callback among them, and frames.
NobodyStuck == CallersReturn /\ CallbackReturns /\ FramesHandled

=============================================================================
