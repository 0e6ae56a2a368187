------------------------------- MODULE Atad --------------------------------
(***************************************************************************)
(* The ATA driver (ps2atad.c): a thread sends a command (ata_io_start),    *)
(* waits for its end (ata_io_finish) on an event flag that the drive's     *)
(* interrupt and an alarm set, and runs several commands for one exported  *)
(* call.  The drive, the SPEED chip's interrupts and FIFO and the alarm    *)
(* are other actors.                                                       *)
(*                                                                         *)
(* The expansion bay holds one drive, device 0, with no Sony security.     *)
(* Polling loops look until they succeed or give up; how long they look is *)
(* left out.  Calls come one at a time (from the HDD driver above).        *)
(***************************************************************************)
EXTENDS Integers, Sequences

CONSTANTS
  ByteMod,    \* 256: a register's values, and the sectors of one command
  NibbleMod,  \* 16: the address bits in the select register
  FifoMax,    \* sectors in the SPEED's FIFO (31)
  Requests,   \* <<lba, nsectors>> of the transfers asked for
  MaxCalls    \* bound on the calls of a behaviour

ASSUME AtadAssumption ==
  /\ {ByteMod, NibbleMod, FifoMax, MaxCalls} \subseteq Nat \ {0}
  /\ NibbleMod <= ByteMod /\ Requests \subseteq Nat \X Nat

VARIABLES
  \* the thread
  apc, call,
  script,               \* the commands the call has yet to run
  res, ret,             \* the result of a command, and of the call
  lba, nsectors, buf,   \* what is left of a transfer, and where it goes
  blkcount,             \* atad_cmd_state: blocks left of the command
  ev, armed,            \* ata_evflg; ata_alarm_cb is set
  exists, security, lba_48bit, inited,  \* atad_devinfo[0], lba_48bit[0], ata_devinfo_init
  dir,                  \* the SPEED's direction: "in" from the drive, "out" to it
  \* hardware
  mask,                 \* interrupts that dev9 lets through
  drv,                  \* the drive
  fifo,                 \* in the SPEED's FIFO: sectors read, or blocks to write
  \* history
  mem,                  \* what has moved: <<block of the caller's buffer, sector>>
  calls,                \* calls so far
  fired,                \* the alarm of the last command has gone off
  abandoned             \* a transfer was given up that the drive went on with

threadVars == <<apc, call, script, res, ret, lba, nsectors, buf, blkcount>>
infoVars   == <<exists, security, lba_48bit, inited, dir>>
hwVars     == <<mask, drv, fifo>>
histVars   == <<mem, calls, fired, abandoned>>
vars == <<threadVars, ev, armed, infoVars, hwVars, histVars>>

\* the commands by the way they end (ata_cmd_table): 1, 2, 3 and 4
\* ("simple" is any of FLUSH CACHE, IDLE and the SMART commands)
NonData == {"simple", "set_mode", "erase_prepare"}
PioIn   == {"identify"}
PioOut  == {"set_password", "unlock_drive", "erase_unit"}
Commands == NonData \cup PioIn \cup PioOut \cup {"dma"}

command == Head(script)

Init ==
  /\ apc = "idle" /\ call = "none" /\ script = <<>> /\ res = "ok" /\ ret = "ok"
  /\ lba = 0 /\ nsectors = 0 /\ buf = 0 /\ blkcount = 0
  /\ ev = {} /\ armed = FALSE
  /\ exists = FALSE /\ security = "none" /\ lba_48bit = FALSE /\ inited = FALSE
  /\ dir = "in" /\ mask = {} /\ fifo = <<>>
  /\ \E ext \in BOOLEAN, sec \in {"none", "locked"} :
       drv = [state |-> "ready", err |-> FALSE, irq |-> FALSE, nIEN |-> FALSE, cmd |-> "none", out |-> FALSE,
              left |-> 0, addr |-> 0, done |-> TRUE, ext |-> ext, security |-> sec]
  /\ mem = <<>> /\ calls = 0 /\ fired = FALSE /\ abandoned = FALSE

Goto(there) == apc' = there

-----------------------------------------------------------------------------
(* ata_io_start *)

startRest == <<call, script, ret, lba, nsectors, buf, infoVars, fifo, mem, calls, abandoned>>

\* the flag is cleared first
IoStart ==
  /\ apc = "start"
  /\ ev' = {}
  /\ IF exists THEN Goto("select") /\ res' = "ok" ELSE Goto("done") /\ res' = "no device"
  /\ UNCHANGED <<blkcount, armed, mask, drv, fired, startRest>>

Busy    == drv.state \in {"busy", "dma"}   \* bit 0x80
BusBusy == Busy \/ drv.state = "drq"       \* bits 0x88

\* ata_device_select waits; then the drive may not be ready
Select(ready) ==
  /\ apc = "select"
  /\ IF BusBusy THEN Goto("done") /\ res' = "timeout"
     ELSE IF ~ready THEN Goto("done") /\ res' = "not ready"
     ELSE Goto("arm") /\ UNCHANGED res
  /\ UNCHANGED <<blkcount, ev, armed, mask, drv, fired, startRest>>

\* PIO commands have no alarm; a driver that sets none for DMA, either
UsesAlarmNoDma == command \in NonData
UsesAlarm == command \in NonData \cup {"dma"}

\* SetAlarm can fail
Arm(ok) ==
  /\ apc = "arm"
  /\ IF UsesAlarm /\ ~ok THEN Goto("done") /\ res' = "no alarm" /\ UNCHANGED <<armed, fired>>
     ELSE Goto("issue") /\ armed' = UsesAlarm /\ fired' = FALSE /\ UNCHANGED res
  /\ UNCHANGED <<blkcount, ev, mask, drv, startRest>>

\* what ata_device_dma_transfer puts into the registers, and the drive reads
len == IF nsectors > ByteMod THEN ByteMod ELSE nsectors

\* by how much a shift by two and by three bytes divides
Shift16 == ByteMod * ByteMod
Shift24 == ByteMod * Shift16

Digit(n, shift) == (n \div shift) % ByteMod

AddressRegs ==
  [sector |-> lba % ByteMod, lcyl |-> Digit(lba, ByteMod), hcyl |-> Digit(lba, Shift16),
   sector_hob |-> IF lba_48bit THEN Digit(lba, Shift24) ELSE 0,
   select |-> IF lba_48bit THEN 0 ELSE (lba \div Shift24) % NibbleMod]

\* a driver that forgets the select register's bits
NoSelectRegs == [AddressRegs EXCEPT !.select = 0]
Regs == AddressRegs

DriveAddress ==
  Regs.sector + Regs.lcyl * ByteMod + Regs.hcyl * Shift16
    + (IF lba_48bit THEN Regs.sector_hob ELSE Regs.select) * Shift24

\* 0 in the count register is all its values
DriveCount ==
  LET all  == IF lba_48bit THEN Shift16 ELSE ByteMod
      regs == len % all
  IN  IF regs = 0 THEN all ELSE regs

Issue ==
  /\ apc = "issue"
  /\ mask' = IF command \in NonData THEN mask \cup {"command"} ELSE mask
  /\ drv' = [drv EXCEPT !.state = IF command = "dma" THEN "dma" ELSE "busy",
                        !.err = FALSE, !.irq = FALSE, !.nIEN = ~UsesAlarm, !.done = FALSE,
                        !.out = (command = "dma" /\ dir = "out"), !.cmd = command,
                        !.left = IF command = "dma" THEN DriveCount ELSE 1,
                        !.addr = IF command = "dma" THEN DriveAddress ELSE 0]
  /\ blkcount' = IF command = "dma" THEN len ELSE 1
  /\ Goto("finish")
  /\ UNCHANGED <<res, ev, armed, fired, startRest>>

-----------------------------------------------------------------------------
(* ata_io_finish *)

finishRest == <<call, script, ret, lba, nsectors, infoVars, calls, fired, abandoned>>

Finish ==
  /\ apc = "finish"
  /\ Goto(IF command \in NonData THEN "wait" ELSE IF command = "dma" THEN "dma" ELSE "pio")
  /\ UNCHANGED <<res, buf, blkcount, ev, armed, hwVars, mem, finishRest>>

TimedOut == "timeout" \in ev

\* A non-data command: a timeout returns at once, its alarm is gone.  Either
\* bit wakes the thread, and both are cleared.
WaitNonData ==
  /\ apc = "wait" /\ ev # {}
  /\ ev' = {}
  /\ IF TimedOut THEN Goto("done") /\ res' = "timeout" ELSE Goto("status") /\ UNCHANGED res
  /\ UNCHANGED <<buf, blkcount, armed, hwVars, mem, finishRest>>

Smaller(m, n) == IF m < n THEN m ELSE n

\* SPD register 0x38: the sectors in the FIFO, or the room for some
dma_stat == IF dir = "in" THEN Len(fifo) ELSE FifoMax - Len(fifo)

\* the blocks that move
Count == Smaller(blkcount, dma_stat)

FromFifo ==
  /\ dir = "in"
  /\ mem' = mem \o [i \in 1 .. Count |-> <<buf + i, fifo[i]>>]
  /\ fifo' = SubSeq(fifo, Count + 1, Len(fifo))

ToFifo ==
  /\ dir = "out" /\ fifo' = fifo \o [i \in 1 .. Count |-> buf + i] /\ UNCHANGED mem

\* dev9DmaTransfer of as many blocks as the SPEED is ready for
DmaMove(ok) ==
  /\ apc = "dma" /\ blkcount > 0 /\ dma_stat > 0
  /\ IF ok THEN /\ FromFifo \/ ToFifo
                /\ buf' = buf + Count /\ blkcount' = blkcount - Count
                /\ UNCHANGED <<res, apc>>
           ELSE res' = "dma error" /\ Goto("clean") /\ UNCHANGED <<mem, buf, blkcount, fifo>>
  /\ UNCHANGED <<ev, armed, mask, drv, finishRest>>

\* nothing to move: wait for either interrupt
DmaSleep ==
  /\ apc = "dma" /\ blkcount > 0 /\ dma_stat = 0
  /\ mask' = {"command", "data"} /\ Goto("dma_wait")
  /\ UNCHANGED <<res, buf, blkcount, ev, armed, drv, fifo, mem, finishRest>>

\* an interrupt with nothing to move is an error of the command, or not for it
DmaWake ==
  /\ apc = "dma_wait" /\ ev # {}
  /\ ev' = {}
  /\ IF TimedOut THEN Goto("clean") /\ res' = "timeout"
     ELSE IF dma_stat = 0 /\ drv.err THEN Goto("clean") /\ res' = "error"
     ELSE Goto("dma") /\ UNCHANGED res
  /\ UNCHANGED <<buf, blkcount, armed, hwVars, mem, finishRest>>

\* all blocks have moved; the command's own interrupt is to come or is there
DmaEnd ==
  /\ apc = "dma" /\ blkcount = 0
  /\ IF drv.irq THEN Goto("status") /\ UNCHANGED mask
                ELSE Goto("dma_end") /\ mask' = mask \cup {"command"}
  /\ UNCHANGED <<res, buf, blkcount, ev, armed, drv, fifo, mem, finishRest>>

DmaEndWake ==
  /\ apc = "dma_end" /\ ev # {}
  /\ ev' = {}
  /\ IF TimedOut THEN Goto("clean") /\ res' = "timeout" ELSE Goto("status") /\ UNCHANGED res
  /\ UNCHANGED <<buf, blkcount, armed, hwVars, mem, finishRest>>

\* PIO: before each block, and after the last, until the drive is not busy
PioWait ==
  /\ apc = "pio"
  /\ IF Busy THEN Goto("clean") /\ res' = "timeout"
             ELSE Goto(IF blkcount > 0 THEN "pio_block" ELSE "status") /\ UNCHANGED res
  /\ UNCHANGED <<buf, blkcount, ev, armed, hwVars, mem, finishRest>>

\* the drive takes the block, or has been read
PioBlock ==
  /\ apc = "pio_block"
  /\ IF drv.err \/ drv.state # "drq"
       THEN Goto("clean") /\ res' = (IF drv.err THEN "error" ELSE "no request")
            /\ UNCHANGED <<blkcount, drv>>
       ELSE Goto("pio") /\ blkcount' = blkcount - 1 /\ UNCHANGED res
            /\ drv' = IF drv.cmd \in PioIn
                        THEN [drv EXCEPT !.state = "ready", !.cmd = "none", !.left = 0, !.done = TRUE]
                        ELSE [drv EXCEPT !.state = "busy", !.left = 0]
  /\ UNCHANGED <<buf, ev, armed, mask, fifo, mem, finishRest>>

\* the drive may still be busy; reading its status takes the interrupt request
\* back.  A finish that trusts the event flag
StatusUnwaited == FALSE
StatusBusy == Busy

Status ==
  /\ apc = "status"
  /\ drv' = [drv EXCEPT !.irq = FALSE]
  /\ res' = IF drv.err THEN "error" ELSE IF StatusBusy THEN "timeout" ELSE res
  /\ Goto("clean")
  /\ UNCHANGED <<buf, blkcount, ev, armed, mask, fifo, mem, finishRest>>

\* every path that had an alarm, but the one of a non-data command's timeout,
\* comes here
KeptAlarm == armed
Cancelled == FALSE

Clean ==
  /\ apc = "clean"
  /\ armed' = Cancelled /\ Goto("done")
  /\ abandoned' = (abandoned \/ (drv.state = "dma" /\ drv.left > 0))
  /\ UNCHANGED <<call, script, res, ret, lba, nsectors, buf, blkcount, ev, infoVars, hwVars, mem,
                 calls, fired>>

-----------------------------------------------------------------------------
(* The exported calls *)

callRest == <<ev, armed, mask, fired, abandoned>>
opRest   == <<callRest, drv>>

Run(s) == script' = s /\ Goto(IF s = <<>> THEN "return" ELSE "start")

\* ata_dma_set_dir, before each command of a transfer, empties the FIFO
SetDir(s) == fifo' = IF s # <<>> /\ Head(s) = "dma" THEN <<>> ELSE fifo

Call(name, s) ==
  /\ apc = "idle" /\ calls < MaxCalls
  /\ calls' = calls + 1 /\ call' = name /\ Run(s) /\ SetDir(s)
  /\ res' = "ok" /\ buf' = 0 /\ mem' = <<>>
  /\ UNCHANGED <<blkcount, security, lba_48bit, callRest>>

NoInit     == ret' = "ok" /\ UNCHANGED <<exists, inited, drv>>
NoTransfer == UNCHANGED <<lba, nsectors, dir>>

\* ata_device_dma_transfer
DmaTransfer(l, n, d) ==
  /\ Call("transfer", IF n = 0 THEN <<>> ELSE <<"dma">>)
  /\ lba' = l /\ nsectors' = n /\ dir' = (IF n = 0 THEN dir ELSE d) /\ NoInit

\* ata_device_flush_cache, _idle and the SMART calls
Simple == Call("simple", <<"simple">>) /\ NoTransfer /\ NoInit

(* ata_get_devinfo: once, the bus and the drives are reset and looked for *)

\* the drive gives up what it was doing
Reset ==
  [drv EXCEPT !.state = "ready", !.err = FALSE, !.irq = FALSE, !.nIEN = TRUE, !.done = TRUE,
              !.out = FALSE, !.cmd = "none", !.left = 0, !.addr = 0]

Devinfo(s) == Call("devinfo", s) /\ NoTransfer

DevinfoKnown == inited /\ Devinfo(<<>>) /\ NoInit

\* ata_bus_reset fails on a drive that stays busy: NULL, and all is as it was
BusStuck ==
  ~inited /\ Devinfo(<<>>) /\ ret' = "NULL" /\ UNCHANGED <<exists, inited, drv>>

\* the drive is busy, or has no signature, when ata_device_probe looks
NoDrive ==
  /\ ~inited /\ Devinfo(<<>>) /\ ret' = "ok"
  /\ exists' = FALSE /\ inited' = TRUE /\ drv' = Reset

\* ata_device_select(1) fails: NULL, the first drive found but not identified
SelectFails ==
  /\ ~inited /\ Devinfo(<<>>) /\ ret' = "NULL"
  /\ exists' = TRUE /\ drv' = Reset /\ UNCHANGED inited

DriveFound ==
  /\ ~inited /\ Devinfo(<<"identify", "set_mode", "simple", "simple">>) /\ ret' = "ok"
  /\ exists' = TRUE /\ drv' = Reset /\ UNCHANGED inited

GetDevinfo == DevinfoKnown \/ BusStuck \/ NoDrive \/ SelectFails \/ DriveFound

\* ata_device_sec_set_password, _unlock and _erase look at what is known
SetPassword ==
  Call("set_password", IF security = "none" THEN <<"set_password", "identify">> ELSE <<>>)
  /\ NoTransfer /\ NoInit

Unlock ==
  Call("unlock", IF security = "locked" THEN <<"unlock_drive", "identify">> ELSE <<>>)
  /\ NoTransfer /\ NoInit

Erase ==
  Call("erase",
       IF security = "locked" THEN <<"erase_prepare", "erase_unit", "identify">> ELSE <<>>)
  /\ NoTransfer /\ NoInit

Ok == res = "ok"

\* the commands that follow: some calls go on only when a command succeeded
Following ==
  IF call = "transfer" THEN (IF Ok /\ nsectors > len THEN script ELSE <<>>)
  ELSE IF Ok \/ command = "erase_unit" \/ call = "set_password" THEN Tail(script)
  ELSE IF command = "erase_prepare" THEN <<"identify">>
  ELSE IF call = "devinfo" /\ command # "identify" THEN Tail(script)
  ELSE <<>>

\* IDENTIFY tells the security status; one that fails leaves what is known.
\* An unlock that is believed
BelievedStatus ==
  IF command = "unlock_drive" /\ Ok THEN "enabled" ELSE security
KnownStatus == IF command = "identify" /\ Ok THEN drv.security ELSE security

\* what the call returns, so far
Returned ==
  IF call = "devinfo" THEN "ok"
  ELSE IF call = "unlock" /\ command = "identify"
    THEN (IF KnownStatus = "locked" THEN "locked" ELSE "ok")
  ELSE IF command = "identify" THEN ret ELSE res

\* the start of the next command: the address moves by the sectors moved
NextLba == lba + len

\* one command of the call is over
Done ==
  /\ apc = "done"
  /\ security' = KnownStatus /\ ret' = Returned
  /\ IF call = "devinfo" /\ command = "identify"
       THEN exists' = (exists /\ Ok) /\ lba_48bit' = (IF Ok THEN drv.ext ELSE lba_48bit)
       ELSE UNCHANGED <<exists, lba_48bit>>
  /\ IF call = "transfer" /\ Ok THEN lba' = NextLba /\ nsectors' = nsectors - len /\ UNCHANGED dir
                                 ELSE NoTransfer
  /\ inited' = (inited \/ (call = "devinfo" /\ Following = <<>>))
  /\ Run(Following) /\ SetDir(Following)
  /\ UNCHANGED <<call, res, buf, blkcount, mem, calls, opRest>>

\* what the call used has no meaning after it
Return ==
  /\ apc = "return" /\ Goto("idle")
  /\ call' = "none" /\ res' = "ok" /\ ret' = "ok" /\ mem' = <<>>
  /\ lba' = 0 /\ nsectors' = 0 /\ buf' = 0 /\ blkcount' = 0
  /\ UNCHANGED <<script, calls, infoVars, fifo, opRest>>

Thread ==
  \/ IoStart \/ Issue \/ Finish \/ WaitNonData \/ Status \/ Clean \/ Done \/ Return
  \/ DmaSleep \/ DmaWake \/ DmaEnd \/ DmaEndWake \/ PioWait \/ PioBlock
  \/ \E ok \in BOOLEAN : Select(ok) \/ Arm(ok) \/ DmaMove(ok)

\* The HDD driver asks for sectors of the drive, which has no more than its
\* address format reaches (total_sectors).
Addressable(r) == r[1] + r[2] <= Shift24 * (IF lba_48bit THEN ByteMod ELSE NibbleMod)

Caller ==
  \/ \E r \in Requests, d \in {"in", "out"} : Addressable(r) /\ DmaTransfer(r[1], r[2], d)
  \/ GetDevinfo \/ Simple \/ SetPassword \/ Unlock \/ Erase

-----------------------------------------------------------------------------
(* The interrupt, the alarm and the drive *)

others  == <<threadVars, infoVars, calls, abandoned>>

Pending == (IF drv.irq THEN {"command"} ELSE {}) \cup (IF dma_stat > 0 THEN {"data"} ELSE {})

\* ata_intr_cb
Interrupt ==
  /\ mask \cap Pending # {}
  /\ mask' = {} /\ ev' = ev \cup {"interrupt"}
  /\ UNCHANGED <<armed, drv, fifo, mem, fired, others>>

NewCard ==
  /\ exists
  /\ exists' = FALSE /\ security' = "none"
  /\ UNCHANGED <<threadVars, ev, armed, lba_48bit, inited, dir, hwVars, histVars>>

\* ata_alarm_cb, once
Alarm ==
  /\ armed
  /\ armed' = FALSE /\ ev' = ev \cup {"timeout"}
  /\ fired' = TRUE
  /\ UNCHANGED <<hwVars, mem, others>>

driveRest == <<mask, ev, armed, fired, others>>

\* an unlock or an erase that works changes the status; a locked drive takes no
\* password, and may accept an unlock and stay locked (ata_device_sec_unlock
\* checks that)
Effects ==
  CASE drv.cmd = "set_password" -> (IF drv.security = "locked" THEN {} ELSE {"enabled"})
    [] drv.cmd = "unlock_drive" -> {"enabled", "locked"}
    [] drv.cmd = "erase_unit"   -> {"none"}
    [] OTHER                    -> {drv.security}

Ended(err, sec) ==
  [drv EXCEPT !.state = "ready", !.err = err, !.irq = ~drv.nIEN, !.done = TRUE, !.out = FALSE,
              !.cmd = "none", !.left = 0, !.addr = 0, !.security = sec]

DriveEnds ==
  /\ \/ drv.state = "busy" /\ (drv.cmd \in NonData \/ drv.left = 0)
     \/ drv.state = "dma" /\ drv.left = 0
  /\ \E sec \in Effects : drv' = Ended(FALSE, sec)
  /\ UNCHANGED <<fifo, mem, driveRest>>

DriveFails ==
  /\ Busy /\ drv' = Ended(TRUE, drv.security)
  /\ UNCHANGED <<fifo, mem, driveRest>>

DriveAsks ==
  /\ drv.state = "busy" /\ drv.cmd \in PioIn \cup PioOut /\ drv.left > 0
  /\ drv' = [drv EXCEPT !.state = "drq"]
  /\ UNCHANGED <<fifo, mem, driveRest>>

Moved == [drv EXCEPT !.left = @ - 1, !.addr = @ + 1]

DriveReads ==
  /\ drv.state = "dma" /\ ~drv.out /\ dir = "in" /\ drv.left > 0 /\ Len(fifo) < FifoMax
  /\ drv' = Moved /\ fifo' = Append(fifo, drv.addr)
  /\ UNCHANGED <<mem, driveRest>>

DriveWrites ==
  /\ drv.state = "dma" /\ drv.out /\ dir = "out" /\ drv.left > 0 /\ fifo # <<>>
  /\ drv' = Moved /\ fifo' = Tail(fifo) /\ mem' = Append(mem, <<Head(fifo), drv.addr>>)
  /\ UNCHANGED driveRest

DriveMoves == DriveReads \/ DriveWrites

Hardware == Interrupt \/ NewCard \/ Alarm \/ DriveEnds \/ DriveFails \/ DriveAsks \/ DriveMoves

-----------------------------------------------------------------------------

Next == Caller \/ Thread \/ Hardware

Spec == Init /\ [][Next]_vars

\* The thread runs, interrupts are delivered and the alarm goes off; the drive
\* may never answer.
FairSpec == Spec /\ WF_vars(Thread) /\ WF_vars(Interrupt) /\ WF_vars(Alarm)

Results == {"ok", "timeout", "error", "no device", "not ready", "no alarm", "dma error",
            "no request", "locked", "NULL"}

Drives ==
  [state : {"ready", "busy", "drq", "dma"}, err : BOOLEAN, irq : BOOLEAN, nIEN : BOOLEAN,
   cmd : Commands \cup {"none"}, out : BOOLEAN, left : Nat, addr : Nat, done : BOOLEAN, ext : BOOLEAN,
   security : {"none", "enabled", "locked"}]

ThreadTypes ==
  /\ apc \in {"idle", "start", "select", "arm", "issue", "finish", "wait", "dma", "dma_wait",
              "dma_end", "pio", "pio_block", "status", "clean", "done", "return"}
  /\ script \in Seq(Commands) /\ res \in Results /\ ret \in Results
  /\ lba \in Nat /\ nsectors \in Nat /\ buf \in Nat /\ blkcount \in Nat /\ mem \in Seq(Nat \X Nat)

DriverTypes ==
  /\ ev \subseteq {"interrupt", "timeout"} /\ armed \in BOOLEAN /\ fired \in BOOLEAN
  /\ exists \in BOOLEAN /\ lba_48bit \in BOOLEAN /\ inited \in BOOLEAN
  /\ dir \in {"in", "out"}
  /\ security \in {"none", "enabled", "locked"} /\ abandoned \in BOOLEAN

HardwareTypes ==
  mask \subseteq {"command", "data"} /\ drv \in Drives /\ fifo \in Seq(Nat) /\ Len(fifo) <= FifoMax

TypeOK == ThreadTypes /\ DriverTypes /\ HardwareTypes

\* A command is reported as done only when the drive has done it, without an
\* error: an interrupt of an earlier command that was given up, which comes
\* while the drive is selected, does not stand for it (ps2atad.c:437, 470).
DoneMeansDone == apc = "done" /\ Ok => drv.done /\ drv.state = "ready" /\ ~drv.err

\* A transfer that returns 0 has moved every sector asked for, in order, each
\* to or from its place in the buffer, over commands of at most 256 sectors,
\* both address formats and any split of the FIFO; a write's last block has
\* left the FIFO for the drive.  Unless an earlier transfer was given up and
\* the drive filled the FIFO after it.
TransferExact ==
  apc = "return" /\ call = "transfer" /\ ret = "ok" /\ ~abandoned =>
    /\ <<lba - buf, buf>> \in Requests
    /\ mem = [i \in 1 .. buf |-> <<i, lba - buf + i - 1>>]

\* The status that decides on unlocking never says that a locked drive is
\* open, although IDENTIFY may fail and the drive accept an unlock in vain.
SecurityKnown == inited /\ exists /\ drv.security = "locked" => security = "locked"

\* Time limits belong to one command each: a command is timed out by its own
\* alarm, never by an earlier one's bit that came between the wait and
\* CancelAlarm, and no call returns with an alarm that could go off under a
\* later command (ps2atad.c:482).
TimeoutsOwned ==
  [][/\ apc \in {"wait", "dma_wait", "dma_end"} /\ res' = "timeout" => fired
     /\ apc' = "idle" => ~armed']_vars

\* Every call returns, whatever the drive does.
CallsReturn == apc # "idle" ~> apc = "idle"

=============================================================================
