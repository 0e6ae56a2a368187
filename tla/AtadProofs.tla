----------------------------- MODULE AtadProofs -----------------------------
(***************************************************************************)
(* Proofs about Atad, for any register widths, FIFO and transfers: a       *)
(* command has its own alarm and no other, one that is reported as done    *)
(* has been done by the drive, what is known of a drive's security holds,  *)
(* and a transfer that returns 0 has moved every sector to its place.      *)
(***************************************************************************)
EXTENDS Atad, ModArithmetic, SequenceTheorems

-----------------------------------------------------------------------------
(* The alarm *)

\* a command has been armed, and its end is waited for
Waiting == {"issue", "finish", "wait", "dma", "dma_wait", "dma_end"}

\* The alarm is set only while a command runs; a time limit that passed is
\* this command's, and its alarm is gone; until a wait ends there is no error.
Alarms ==
  /\ armed \in BOOLEAN
  /\ armed => apc \in Waiting \cup {"pio", "pio_block", "status", "clean"}
  /\ apc \in {"select", "arm"} => "timeout" \notin ev
  /\ apc \in Waiting /\ "timeout" \in ev => fired /\ ~armed
  /\ apc \in Waiting \cup {"select", "arm"} => res = "ok"

LEMMA AlarmsInit == Init => Alarms
BY DEF Init, Alarms, Waiting

LEMMA ThreadAlarms == ASSUME Alarms, Thread PROVE Alarms'
<1> USE DEF Alarms, Waiting, Goto, startRest, finishRest, opRest, callRest, hwVars, infoVars
<1>1. CASE IoStart
  BY <1>1 DEF IoStart
<1>2. CASE \E ok \in BOOLEAN : Select(ok)
  <2>1. /\ apc = "select" /\ UNCHANGED <<ev, armed, fired>>
        /\ apc' = "done" \/ (apc' = "arm" /\ res' = res)
    BY <1>2 DEF Select
  <2> QED BY <2>1
<1>3. CASE \E ok \in BOOLEAN : Arm(ok)
  <2>1. /\ apc = "arm" /\ UNCHANGED ev
        /\ \/ apc' = "done" /\ UNCHANGED armed
           \/ apc' = "issue" /\ armed' = UsesAlarm /\ res' = res
    BY <1>3 DEF Arm
  <2>2. UsesAlarm \in BOOLEAN
    BY DEF UsesAlarm
  <2> QED BY <2>1, <2>2
<1>4. CASE Issue \/ Finish
  BY <1>4 DEF Issue, Finish
<1>5. CASE WaitNonData
  BY <1>5 DEF WaitNonData, TimedOut
<1>6. CASE \E ok \in BOOLEAN : DmaMove(ok)
  <2>1. /\ apc = "dma" /\ UNCHANGED <<ev, armed, fired>>
        /\ apc' = "clean" \/ (apc' = apc /\ res' = res)
    BY <1>6 DEF DmaMove
  <2> QED BY <2>1
<1>7. CASE DmaSleep \/ DmaEnd
  BY <1>7 DEF DmaSleep, DmaEnd
<1>8. CASE DmaWake
  BY <1>8 DEF DmaWake, TimedOut
<1>9. CASE DmaEndWake
  BY <1>9 DEF DmaEndWake, TimedOut
<1>10. CASE PioWait \/ PioBlock
  BY <1>10 DEF PioWait, PioBlock
<1>11. CASE Status
  BY <1>11 DEF Status
<1>12. CASE Clean
  BY <1>12 DEF Clean, Cancelled
<1>13. CASE Done
  BY <1>13 DEF Done, Run
<1>14. CASE Return
  BY <1>14 DEF Return
<1> QED BY <1>1, <1>2, <1>3, <1>4, <1>5, <1>6, <1>7, <1>8, <1>9, <1>10, <1>11, <1>12, <1>13, <1>14
        DEF Thread

\* What every exported call does first.
LEMMA CallerIs ==
  ASSUME Caller
  PROVE  /\ apc = "idle" /\ apc' \in {"start", "return"} /\ res' = "ok" /\ buf' = 0 /\ mem' = <<>>
         /\ UNCHANGED <<blkcount, security, lba_48bit, callRest>> /\ ret' \in {"ok", "NULL"}
         /\ drv' \in {drv, Reset} /\ fifo' \in {fifo, <<>>}
<1> DEFINE Begun ==
      /\ apc = "idle" /\ apc' \in {"start", "return"} /\ res' = "ok" /\ buf' = 0 /\ mem' = <<>>
      /\ UNCHANGED <<blkcount, security, lba_48bit, callRest>> /\ fifo' \in {fifo, <<>>}
<1>1. ASSUME NEW name, NEW s, Call(name, s) PROVE Begun
  BY <1>1 DEF Call, Run, SetDir, Goto
<1> HIDE DEF Begun
<1>2. CASE \E r \in Requests, d \in {"in", "out"} : DmaTransfer(r[1], r[2], d)
  <2>1. Begun  BY <1>1, <1>2 DEF DmaTransfer
  <2>2. ret' = "ok" /\ drv' = drv  BY <1>2 DEF DmaTransfer, NoInit
  <2> QED BY <2>1, <2>2 DEF Begun
<1>3. CASE GetDevinfo
  <2>1. Begun  BY <1>1, <1>3 DEF GetDevinfo, DevinfoKnown, BusStuck, NoDrive, SelectFails, DriveFound, Devinfo
  <2>2. ret' \in {"ok", "NULL"} /\ drv' \in {drv, Reset}
    BY <1>3 DEF GetDevinfo, DevinfoKnown, BusStuck, NoDrive, SelectFails, DriveFound, NoInit
  <2> QED BY <2>1, <2>2 DEF Begun
<1>4. CASE Simple \/ SetPassword \/ Unlock \/ Erase
  <2>1. Begun  BY <1>1, <1>4 DEF Simple, SetPassword, Unlock, Erase
  <2>2. ret' = "ok" /\ drv' = drv  BY <1>4 DEF Simple, SetPassword, Unlock, Erase, NoInit
  <2> QED BY <2>1, <2>2 DEF Begun
<1> QED BY <1>2, <1>3, <1>4 DEF Caller

LEMMA OthersAlarms == ASSUME Alarms, Caller \/ Hardware PROVE Alarms'
<1> USE DEF Alarms, Waiting
<1>1. CASE Caller
  <2>1. apc = "idle" /\ apc' \in {"start", "return"} /\ UNCHANGED <<armed, ev>>
    BY <1>1, CallerIs DEF callRest
  <2> QED BY <2>1
<1>2. CASE Interrupt
  BY <1>2 DEF Interrupt, others, threadVars
<1>3. CASE NewCard
  BY <1>3 DEF NewCard, threadVars, histVars
<1>4. CASE Alarm
  BY <1>4 DEF Alarm, others, threadVars
<1>5. CASE DriveEnds \/ DriveFails \/ DriveAsks \/ DriveMoves
  <2>1. UNCHANGED <<apc, res, ev, armed, fired>>
    BY <1>5 DEF DriveEnds, DriveFails, DriveAsks, DriveMoves, DriveReads, DriveWrites, Moved, driveRest, others, threadVars
  <2> QED BY <2>1
<1> QED BY <1>1, <1>2, <1>3, <1>4, <1>5 DEF Hardware

LEMMA AlarmsStep == Alarms /\ [Next]_vars => Alarms'
<1>1. ASSUME Alarms, UNCHANGED vars PROVE Alarms'
  BY <1>1 DEF Alarms, vars, threadVars, histVars
<1> QED BY <1>1, ThreadAlarms, OthersAlarms DEF Next

LEMMA AlarmsAlways == Spec => []Alarms
BY AlarmsInit, AlarmsStep, PTL DEF Spec

\* A command is timed out by its own alarm and no call returns with one left.
THEOREM TimeoutsOwnedAlways == Spec => TimeoutsOwned
<1> DEFINE Owned == /\ apc \in {"wait", "dma_wait", "dma_end"} /\ res' = "timeout" => fired
                    /\ apc' = "idle" => ~armed'
<1>1. ASSUME Alarms, [Next]_vars PROVE [Owned]_vars
  <2> SUFFICES ASSUME Next PROVE Owned
    BY <1>1
  <2>1. apc' = "idle" => ~armed'
    BY <1>1, AlarmsStep DEF Alarms, Waiting
  <2>2. ASSUME apc \in {"wait", "dma_wait", "dma_end"}, res' = "timeout" PROVE fired
    <3>1. res = "ok"
      BY <1>1, <2>2 DEF Alarms, Waiting
    <3>0. ~Caller
      BY <2>2, CallerIs
    <3>2. TimedOut
      BY <2>2, <3>0, <3>1
         DEF Next, Thread, Hardware, IoStart, Issue, Finish, WaitNonData, Status, Clean,
             Done, Return, DmaSleep, DmaWake, DmaEnd, DmaEndWake, PioWait, PioBlock, Select, Arm,
             DmaMove, Interrupt, NewCard, Alarm, DriveEnds, DriveFails, DriveAsks, DriveMoves, DriveReads, DriveWrites, Moved, driveRest,
             others, threadVars
    <3> QED BY <1>1, <2>2, <3>2 DEF Alarms, Waiting, TimedOut
  <2> QED BY <2>1, <2>2
<1>2. Alarms /\ [Next]_vars => [Owned]_vars
  BY <1>1
<1> QED BY <1>2, AlarmsAlways, PTL DEF Spec, TimeoutsOwned
-----------------------------------------------------------------------------
(* The drive *)

Pio == PioIn \cup PioOut

\* the drive will ask for no more data
NoAsk == drv.state # "drq" /\ (drv.cmd \in Pio => drv.left = 0)

\* Until a wait ends there is no error
Unfailing == {"select", "arm", "issue", "finish", "wait", "dma", "dma_wait", "dma_end",
              "pio", "pio_block", "status"}

\* A drive that is ready is done.  Once its blocks have moved, or for a command
\* without any, it will not ask for data; so one that is not busy is ready.
Drive ==
  /\ DOMAIN drv = {"state", "err", "irq", "nIEN", "cmd", "out", "left", "addr", "done", "ext", "security"}
  /\ drv.state = "ready" => drv.done = TRUE
  /\ drv.state \in {"ready", "busy", "drq", "dma"}
  /\ apc = "finish" => /\ drv.cmd \in {command, "none"}
                       /\ drv.state = "drq" => drv.cmd \in Pio
                       /\ command # "dma" => blkcount = 1
  /\ apc \in {"wait", "dma", "dma_wait", "dma_end", "status"} => NoAsk
  /\ apc = "pio" => blkcount \in Nat /\ (blkcount = 0 => NoAsk)
  /\ apc = "pio_block" => blkcount \in Nat \ {0}
  /\ apc \in Unfailing => res = "ok"
  /\ apc \in {"clean", "done"} /\ res = "ok" => drv.state = "ready" /\ ~drv.err

LEMMA DriveInit == Init => Drive
BY DEF Init, Drive, Unfailing

LEMMA ThreadDrive == ASSUME Drive, Thread PROVE Drive'
<1> USE DEF Drive, NoAsk, Unfailing, Goto
<1>1. CASE IoStart
  BY <1>1 DEF IoStart, startRest
<1>2. CASE \E ok \in BOOLEAN : Select(ok)
  <2>1. apc = "select" /\ UNCHANGED drv
        /\ ((apc' = "done" /\ res' # "ok") \/ (apc' = "arm" /\ UNCHANGED res))
    BY <1>2 DEF Select, startRest
  <2> QED BY <2>1
<1>3. CASE \E ok \in BOOLEAN : Arm(ok)
  <2>1. apc = "arm" /\ UNCHANGED drv
        /\ ((apc' = "done" /\ res' # "ok") \/ (apc' = "issue" /\ UNCHANGED res))
    BY <1>3 DEF Arm, startRest
  <2> QED BY <2>1
<1>4. CASE Issue
  <2>1. /\ apc = "issue" /\ apc' = "finish" /\ script' = script /\ res' = res
        /\ command # "dma" => blkcount' = 1
        /\ DOMAIN drv' = DOMAIN drv /\ drv'.state \in {"dma", "busy"} /\ drv'.cmd = command
    BY <1>4 DEF Issue, startRest
  <2>2. command' = command
    BY <2>1 DEF command
  <2> QED BY <2>1, <2>2
<1>5. CASE Finish
  <2>1. /\ apc = "finish" /\ UNCHANGED <<drv, res, blkcount>>
        /\ \/ apc' = "wait" /\ command \in NonData
           \/ apc' = "dma" /\ command = "dma"
           \/ apc' = "pio" /\ command # "dma"
    BY <1>5 DEF Finish, hwVars
  <2>2. command \in NonData \cup {"dma"} => drv.cmd \notin Pio
    BY <2>1 DEF NonData, Pio, PioIn, PioOut
  <2>3. apc' \in {"wait", "dma"} => NoAsk
    BY <2>1, <2>2
  <2>4. apc' = "pio" => blkcount' = 1
    BY <2>1
  <2> QED BY <2>1, <2>3, <2>4
<1>6. CASE WaitNonData \/ DmaWake \/ DmaEndWake
  <2>1. /\ apc \in {"wait", "dma_wait", "dma_end"} /\ UNCHANGED drv
        /\ \/ apc' \in {"clean", "done"} /\ res' # "ok"
           \/ apc' \in {"dma", "status"} /\ UNCHANGED res
    BY <1>6 DEF WaitNonData, DmaWake, DmaEndWake, hwVars
  <2> QED BY <2>1
<1>7. CASE \E ok \in BOOLEAN : DmaMove(ok)
  <2>1. /\ apc = "dma" /\ UNCHANGED drv
        /\ \/ apc' = "clean" /\ res' # "ok"
           \/ apc' = "dma" /\ UNCHANGED res
    BY <1>7 DEF DmaMove
  <2> QED BY <2>1
<1>8. CASE DmaSleep \/ DmaEnd
  <2>1. apc = "dma" /\ apc' \in {"dma_wait", "dma_end", "status"} /\ UNCHANGED <<drv, res>>
    BY <1>8 DEF DmaSleep, DmaEnd
  <2> QED BY <2>1
<1>9. CASE PioWait
  <2>1. /\ apc = "pio" /\ UNCHANGED <<drv, blkcount>>
        /\ \/ apc' = "clean" /\ res' # "ok"
           \/ apc' = "pio_block" /\ blkcount > 0 /\ UNCHANGED res
           \/ apc' = "status" /\ ~(blkcount > 0) /\ UNCHANGED res
    BY <1>9 DEF PioWait, hwVars
  <2> QED BY <2>1
<1>10. CASE PioBlock
  <2>1. CASE apc' = "clean"
    BY <1>10, <2>1 DEF PioBlock
  <2>2. CASE apc' # "clean"
    <3>1. /\ apc' = "pio" /\ UNCHANGED res /\ apc = "pio_block" /\ blkcount' = blkcount - 1
          /\ \/ drv' = [drv EXCEPT !.state = "ready", !.cmd = "none", !.left = 0, !.done = TRUE]
             \/ drv' = [drv EXCEPT !.state = "busy", !.left = 0]
      BY <1>10, <2>2 DEF PioBlock
    <3>2. /\ DOMAIN drv' = DOMAIN drv /\ drv'.left = 0 /\ drv'.state \in {"ready", "busy"}
          /\ drv'.state = "ready" => drv'.done = TRUE
      BY <3>1
    <3> QED BY <3>1, <3>2
  <2> QED BY <2>1, <2>2
<1>11. CASE Status
  <2>1. /\ apc = "status" /\ apc' = "clean"
        /\ res' = IF drv.err THEN "error"
                  ELSE IF drv.state \in {"busy", "dma"} THEN "timeout" ELSE res
        /\ drv' = [drv EXCEPT !.irq = FALSE]
    BY <1>11 DEF Status, StatusBusy, Busy
  <2>2. /\ DOMAIN drv' = DOMAIN drv /\ drv'.state = drv.state /\ drv'.err = drv.err
        /\ drv'.done = drv.done
    BY <2>1
  <2> QED BY <2>1, <2>2
<1>12. CASE Clean
  BY <1>12 DEF Clean, hwVars
<1>13. CASE Done
  <2>1. apc' \in {"return", "start"} /\ UNCHANGED drv
    BY <1>13 DEF Done, Run, opRest, callRest
  <2> QED BY <2>1
<1>14. CASE Return
  <2>1. apc' = "idle" /\ UNCHANGED drv
    BY <1>14 DEF Return, opRest, callRest
  <2> QED BY <2>1
<1> QED BY <1>1, <1>2, <1>3, <1>4, <1>5, <1>6, <1>7, <1>8, <1>9, <1>10, <1>11, <1>12, <1>13, <1>14
        DEF Thread

LEMMA OthersDrive == ASSUME Drive, Caller \/ Hardware PROVE Drive'
<1> USE DEF Drive, NoAsk, Unfailing
<1>1. CASE Caller
  <2>1. apc' \in {"start", "return"} /\ drv' \in {drv, Reset}
    BY <1>1, CallerIs
  <2>2. CASE drv' = Reset
    <3>1. DOMAIN drv' = DOMAIN drv /\ drv'.state = "ready" /\ drv'.done = TRUE
      BY <2>2 DEF Reset
    <3> QED BY <2>1, <3>1
  <2> QED BY <2>1, <2>2
<1>2. CASE Hardware
  <2>1. UNCHANGED <<apc, res, blkcount, script>>
    BY <1>2 DEF Hardware, Interrupt, NewCard, Alarm, DriveEnds, DriveFails, DriveAsks, DriveMoves, DriveReads, DriveWrites, Moved,
       driveRest, others, threadVars
  <2>2. command' = command
    BY <2>1 DEF command
  <2>3. CASE UNCHANGED drv
    BY <2>1, <2>2, <2>3
  <2>4. CASE DriveEnds \/ DriveFails
    <3>1. /\ drv.state \in {"busy", "dma"}
          /\ \E err \in BOOLEAN : \E sec : drv' = Ended(err, sec)
      BY <2>4 DEF DriveEnds, DriveFails, Busy
    <3>2. /\ DOMAIN drv' = DOMAIN drv /\ drv'.state = "ready" /\ drv'.done = TRUE
          /\ drv'.cmd = "none" /\ drv'.left = 0
      BY <3>1 DEF Ended
    <3>3. "none" \notin Pio
      BY DEF Pio, PioIn, PioOut
    <3> QED BY <2>1, <2>2, <3>1, <3>2, <3>3
  <2>5. CASE DriveAsks
    <3>1. /\ drv.state = "busy" /\ drv.cmd \in Pio /\ drv.left # 0
          /\ drv' = [drv EXCEPT !.state = "drq"]
      BY <2>5 DEF DriveAsks, Pio
    <3>2. /\ DOMAIN drv' = DOMAIN drv /\ drv'.state = "drq" /\ drv'.cmd = drv.cmd
          /\ drv'.left = drv.left
      BY <3>1
    <3> QED BY <2>1, <2>2, <3>1, <3>2
  <2>6. CASE DriveMoves
    <3>1. /\ drv.state = "dma" /\ drv.left # 0
          /\ drv' = [drv EXCEPT !.left = @ - 1, !.addr = @ + 1]
      BY <2>6 DEF DriveMoves, DriveReads, DriveWrites, Moved
    <3>2. /\ DOMAIN drv' = DOMAIN drv /\ drv'.state = "dma" /\ drv'.cmd = drv.cmd
      BY <3>1
    <3> QED BY <2>1, <2>2, <3>1, <3>2
  <2> QED BY <1>2, <2>3, <2>4, <2>5, <2>6 DEF Hardware, Interrupt, NewCard, Alarm, hwVars
<1> QED BY <1>1, <1>2

LEMMA DriveStep == Drive /\ [Next]_vars => Drive'
<1>1. ASSUME Drive, UNCHANGED vars PROVE Drive'
  <2>1. UNCHANGED <<apc, res, blkcount, script, drv>>
    BY <1>1 DEF vars, threadVars, hwVars
  <2>2. command' = command
    BY <2>1 DEF command
  <2> QED BY <1>1, <2>1, <2>2 DEF Drive, NoAsk
<1> QED BY <1>1, ThreadDrive, OthersDrive DEF Next

\* No command is reported as done that the drive has not done, or has failed.
THEOREM DoneMeansDoneAlways == Spec => []DoneMeansDone
<1>1. Drive => DoneMeansDone
  BY DEF Drive, DoneMeansDone, Ok
<1> QED BY <1>1, DriveInit, DriveStep, PTL DEF Spec
-----------------------------------------------------------------------------
(* What a call runs *)

Active == apc \notin {"idle", "return"}

\* Only a transfer moves sectors; the commands that follow another one of the
\* same call are no unlock, and an IDENTIFY only in the calls about security,
\* where an unlock is the first command of a drive known to be locked.
Scripts ==
  /\ script \in Seq(Commands) /\ (Active <=> script # <<>>)
  /\ \A i \in 2 .. Len(script) :
       script[i] \notin {"dma", "unlock_drive"} /\ (call = "devinfo" => script[i] # "identify")
  /\ Active => (command = "dma" <=> call = "transfer")
  /\ call = "transfer" => Len(script) <= 1
  /\ Active /\ command = "unlock_drive" /\ exists => security = "locked"

LEMMA ScriptsInit == Init => Scripts
BY DEF Init, Scripts, Active

\* A step inside a command leaves its script alone.
LEMMA ScriptsSame ==
  ASSUME Scripts, UNCHANGED <<script, call>>, Active <=> Active',
         UNCHANGED <<exists, security>> \/ ~exists'
  PROVE  Scripts'
<1>1. command' = command
  BY DEF command
<1> QED BY <1>1 DEF Scripts

LEMMA ScriptsBegin ==
  ASSUME Scripts, NEW name, NEW s \in Seq(Commands), Call(name, s),
         \A i \in 2 .. Len(s) :
           s[i] \notin {"dma", "unlock_drive"} /\ (name = "devinfo" => s[i] # "identify"),
         s # <<>> => (s[1] = "dma" <=> name = "transfer"), name = "transfer" => Len(s) <= 1,
         s # <<>> /\ s[1] = "unlock_drive" /\ exists' => security = "locked"
  PROVE  Scripts'
<1>1. script' = s /\ call' = name /\ security' = security
      /\ apc' = IF s = <<>> THEN "return" ELSE "start"
  BY DEF Call, Run, Goto
<1>2. Active' <=> s # <<>>
  BY <1>1 DEF Active
<1>3. command' = s[1]
  BY <1>1 DEF command
<1> QED BY <1>1, <1>2, <1>3 DEF Scripts

LEMMA ScriptsCaller == ASSUME Scripts, Caller PROVE Scripts'
<1> USE DEF Commands, NonData, PioIn, PioOut
<1>1. ASSUME NEW r \in Requests, NEW d, DmaTransfer(r[1], r[2], d) PROVE Scripts'
  <2> DEFINE s == <<"dma">>
  <2>1. s \in Seq(Commands) /\ s[1] = "dma" /\ Len(s) <= 1 /\ 2 .. Len(s) = {}
    OBVIOUS
  <2>2. <<>> \in Seq(Commands) /\ 2 .. Len(<<>>) = {} /\ Len(<<>>) <= 1
    OBVIOUS
  <2> HIDE DEF s
  <2>3. Call("transfer", s) \/ Call("transfer", <<>>)
    BY <1>1 DEF DmaTransfer, s
  <2>4. CASE Call("transfer", s)  BY <2>1, <2>4, ScriptsBegin
  <2>5. CASE Call("transfer", <<>>)  BY <2>2, <2>5, ScriptsBegin
  <2> QED BY <2>3, <2>4, <2>5
<1>2. CASE Simple
  <2>1. /\ <<"simple">> \in Seq(Commands) /\ Len(<<"simple">>) = 1 /\ <<"simple">>[1] = "simple"
        /\ 2 .. 1 = {}
    OBVIOUS
  <2> QED BY <1>2, <2>1, ScriptsBegin DEF Simple
<1>3. CASE GetDevinfo
  <2> DEFINE s == <<"identify", "set_mode", "simple", "simple">>
  <2>1. /\ s \in Seq(Commands) /\ s[1] = "identify" /\ s # <<>>
        /\ \A i \in 2 .. Len(s) : s[i] \notin {"dma", "unlock_drive", "identify"}
    OBVIOUS
  <2>2. <<>> \in Seq(Commands) /\ 2 .. Len(<<>>) = {}
    OBVIOUS
  <2> HIDE DEF s
  <2>3. Call("devinfo", s) \/ Call("devinfo", <<>>)
    BY <1>3 DEF GetDevinfo, DevinfoKnown, BusStuck, NoDrive, SelectFails, DriveFound, Devinfo, s
  <2>4. CASE Call("devinfo", s)  BY <2>1, <2>4, ScriptsBegin
  <2>5. CASE Call("devinfo", <<>>)  BY <2>2, <2>5, ScriptsBegin
  <2> QED BY <2>3, <2>4, <2>5
<1>4. CASE SetPassword
  <2> DEFINE s == <<"set_password", "identify">>
  <2>1. /\ s \in Seq(Commands) /\ s[1] = "set_password"
        /\ \A i \in 2 .. Len(s) : s[i] \notin {"dma", "unlock_drive"}
    OBVIOUS
  <2>2. <<>> \in Seq(Commands) /\ 2 .. Len(<<>>) = {}
    OBVIOUS
  <2> HIDE DEF s
  <2>3. (Call("set_password", s)) \/ Call("set_password", <<>>)
    BY <1>4 DEF SetPassword, s
  <2>4. CASE Call("set_password", s)  BY <2>1, <2>4, ScriptsBegin
  <2>5. CASE Call("set_password", <<>>)  BY <2>2, <2>5, ScriptsBegin
  <2> QED BY <2>3, <2>4, <2>5
<1>5. CASE Unlock
  <2> DEFINE s == <<"unlock_drive", "identify">>
  <2>1. /\ s \in Seq(Commands) /\ s[1] = "unlock_drive"
        /\ \A i \in 2 .. Len(s) : s[i] \notin {"dma", "unlock_drive"}
    OBVIOUS
  <2>2. <<>> \in Seq(Commands) /\ 2 .. Len(<<>>) = {}
    OBVIOUS
  <2> HIDE DEF s
  <2>3. (Call("unlock", s) /\ security = "locked") \/ Call("unlock", <<>>)
    BY <1>5 DEF Unlock, s
  <2>4. CASE Call("unlock", s) /\ security = "locked"  BY <2>1, <2>4, ScriptsBegin
  <2>5. CASE Call("unlock", <<>>)  BY <2>2, <2>5, ScriptsBegin
  <2> QED BY <2>3, <2>4, <2>5
<1>6. CASE Erase
  <2> DEFINE s == <<"erase_prepare", "erase_unit", "identify">>
  <2>1. /\ s \in Seq(Commands) /\ s[1] = "erase_prepare"
        /\ \A i \in 2 .. Len(s) : s[i] \notin {"dma", "unlock_drive"}
    OBVIOUS
  <2>2. <<>> \in Seq(Commands) /\ 2 .. Len(<<>>) = {}
    OBVIOUS
  <2> HIDE DEF s
  <2>3. (Call("erase", s)) \/ Call("erase", <<>>)
    BY <1>6 DEF Erase, s
  <2>4. CASE Call("erase", s)  BY <2>1, <2>4, ScriptsBegin
  <2>5. CASE Call("erase", <<>>)  BY <2>2, <2>5, ScriptsBegin
  <2> QED BY <2>3, <2>4, <2>5
<1> QED BY <1>1, <1>2, <1>3, <1>4, <1>5, <1>6 DEF Caller

LEMMA ScriptsDone == ASSUME Scripts, Done PROVE Scripts'
<1> DEFINE s == Following
<1>1. /\ apc = "done" /\ script' = s /\ call' = call
      /\ apc' = IF s = <<>> THEN "return" ELSE "start"
  BY DEF Done, Run, Goto
<1>2. Active' <=> s # <<>>
  BY <1>1 DEF Active
<1>3. command' = s[1]
  BY <1>1 DEF command
<1>4. Active /\ script # <<>> /\ script \in Seq(Commands)
  BY <1>1 DEF Active, Scripts
<1>5. \/ s = <<>>
      \/ s = script /\ call = "transfer"
      \/ s = Tail(script) /\ call # "transfer"
      \/ s = <<"identify">> /\ call # "transfer"
  <2>1. CASE call = "transfer"  BY <2>1 DEF Following
  <2>2. CASE call # "transfer" /\ command # "erase_prepare"  BY <2>2 DEF Following
  <2> QED BY <2>1, <2>2 DEF Following
<1> HIDE DEF s
<1>6. CASE s = <<>>
  <2>1. s \in Seq(Commands) /\ Len(s) = 0 /\ 2 .. Len(s) = {}
    BY <1>6
  <2> QED BY <1>1, <1>2, <1>6, <2>1 DEF Scripts
<1>7. CASE s = script /\ call = "transfer"
  <2>1. command = "dma" /\ command' = command
    BY <1>1, <1>4, <1>7 DEF Scripts, command
  <2> QED BY <1>1, <1>2, <1>4, <1>7, <2>1 DEF Scripts
<1>8. CASE s = Tail(script) /\ call # "transfer" /\ s # <<>>
  <2>1. /\ s \in Seq(Commands) /\ Len(s) = Len(script) - 1 /\ Len(script) \in Nat
        /\ \A i \in 1 .. Len(s) : s[i] = script[i + 1] /\ i + 1 \in 2 .. Len(script)
    BY <1>4, <1>8
  <2>2. 1 \in 1 .. Len(s) /\ \A i \in 2 .. Len(s) : i \in 1 .. Len(s)
    BY <1>8, <2>1
  <2>3. \A i \in 1 .. Len(s) : s[i] \notin {"dma", "unlock_drive"}
                            /\ (call = "devinfo" => s[i] # "identify")
    BY <2>1 DEF Scripts
  <2> QED BY <1>1, <1>2, <1>3, <1>8, <2>1, <2>2, <2>3 DEF Scripts
<1>9. CASE s = <<"identify">> /\ call # "transfer"
  <2>1. s \in Seq(Commands) /\ s[1] = "identify" /\ 2 .. Len(s) = {} /\ s # <<>>
    BY <1>9 DEF Commands, PioIn
  <2> QED BY <1>1, <1>2, <1>3, <1>9, <2>1 DEF Scripts
<1> QED BY <1>5, <1>6, <1>7, <1>8, <1>9

LEMMA ScriptsStep == Scripts /\ [Next]_vars => Scripts'
<1> SUFFICES ASSUME Scripts, [Next]_vars PROVE Scripts'
  OBVIOUS
<1> USE DEF startRest, finishRest, infoVars, Goto
<1>1. CASE IoStart \/ Issue \/ \E ok \in BOOLEAN : Select(ok) \/ Arm(ok)
  <2>1. UNCHANGED <<script, call, exists, security>> /\ Active /\ Active'
    BY <1>1 DEF IoStart, Issue, Select, Arm, Active
  <2> QED BY <2>1, ScriptsSame
<1>2. CASE Finish \/ WaitNonData \/ Status \/ PioWait \/ PioBlock
  <2>1. UNCHANGED <<script, call, exists, security>> /\ Active /\ Active'
    BY <1>2 DEF Finish, WaitNonData, Status, PioWait, PioBlock, Active
  <2> QED BY <2>1, ScriptsSame
<1>3. CASE DmaSleep \/ DmaWake \/ DmaEnd \/ DmaEndWake \/ \E ok \in BOOLEAN : DmaMove(ok)
  <2>1. UNCHANGED <<script, call, exists, security>> /\ Active /\ Active'
    BY <1>3 DEF DmaSleep, DmaWake, DmaEnd, DmaEndWake, DmaMove, Active
  <2> QED BY <2>1, ScriptsSame
<1>4. CASE Clean
  <2>1. UNCHANGED <<script, call, exists, security>> /\ Active /\ Active'
    BY <1>4 DEF Clean, Active
  <2> QED BY <2>1, ScriptsSame
<1>5. CASE Done  BY <1>5, ScriptsDone
<1>6. CASE Return
  <2>1. /\ apc = "return" /\ apc' = "idle" /\ call' = "none" /\ script' = script
    BY <1>6 DEF Return
  <2>2. script = <<>> /\ Len(<<>>) = 0 /\ 2 .. 0 = {}
    BY <2>1 DEF Scripts, Active
  <2> QED BY <2>1, <2>2 DEF Scripts, Active
<1>7. CASE Caller  BY <1>7, ScriptsCaller
<1>8. CASE NewCard
  <2>1. UNCHANGED <<script, call, apc>> /\ ~exists'
    BY <1>8 DEF NewCard, threadVars
  <2>2. Active <=> Active'
    BY <2>1 DEF Active
  <2> QED BY <2>1, <2>2, ScriptsSame
<1>9. CASE (Hardware /\ ~NewCard) \/ UNCHANGED vars
  <2>1. UNCHANGED <<script, call, apc, exists, security>>
    BY <1>9 DEF Hardware, Interrupt, Alarm, DriveEnds, DriveFails, DriveAsks, DriveMoves, DriveReads, DriveWrites, Moved,
       driveRest, others, threadVars, vars
  <2>2. Active <=> Active'
    BY <2>1 DEF Active
  <2> QED BY <2>1, <2>2, ScriptsSame
<1> QED BY <1>1, <1>2, <1>3, <1>4, <1>5, <1>6, <1>7, <1>8, <1>9 DEF Next, Thread

-----------------------------------------------------------------------------
(* The security status *)

\* IDENTIFY has told the status, and the drive is in use.
Known == inited \/ (call = "devinfo" /\ Active /\ command # "identify")

\* A drive that may be unlocking, or is locked, is known to be locked.
Security ==
  /\ drv.state = "ready" => drv.cmd = "none"
  /\ apc \in {"arm", "issue"} => drv.state = "ready"
  /\ drv.cmd = "unlock_drive" /\ exists => security = "locked"
  /\ Known /\ exists /\ drv.security = "locked" => security = "locked"

LEMMA SecurityInit == Init => Security
BY DEF Init, Security, Known, Active

\* A step inside a command, or of the alarm.
LEMMA SecuritySame ==
  ASSUME Security, UNCHANGED <<script, call, inited>>, Active <=> Active',
         UNCHANGED <<exists, security>> \/ ~exists', drv'.security = drv.security,
         drv'.state = "ready" => drv'.cmd = "none",
         drv'.cmd \in {drv.cmd, "none"},
         apc' \in {"arm", "issue"} => drv'.state = "ready"
  PROVE  Security'
<1>1. command' = command
  BY DEF command
<1>2. Known' <=> Known
  BY <1>1 DEF Known
<1> QED BY <1>2 DEF Security

LEMMA SecurityThread ==
  ASSUME Scripts, Drive, Security, Thread
  PROVE  Security'
<1> USE DEF startRest, finishRest, infoVars, Goto
<1>1. CASE IoStart \/ \E ok \in BOOLEAN : Select(ok) \/ Arm(ok)
  <2>1. UNCHANGED <<script, call, inited, exists, security, drv>> /\ Active /\ Active'
    BY <1>1 DEF IoStart, Select, Arm, Active
  <2>2. apc' \in {"arm", "issue"} => drv.state = "ready"
    <3>1. apc' = "arm" => ~BusBusy
      BY <1>1 DEF IoStart, Select, Arm
    <3>2. apc' = "issue" => apc = "arm"
      BY <1>1 DEF IoStart, Select, Arm
    <3> QED BY <3>1, <3>2 DEF BusBusy, Busy, Drive, Security
  <2>3. drv.state = "ready" => drv.cmd = "none"
    BY DEF Security
  <2> QED BY <2>1, <2>2, <2>3, SecuritySame
<1>2. CASE Issue
  <2>1. /\ UNCHANGED <<script, call, inited, exists, security>> /\ Active /\ Active'
        /\ apc' = "finish" /\ drv'.security = drv.security /\ drv'.cmd = command
        /\ drv'.state \in {"dma", "busy"}
    BY <1>2 DEF Issue, Active, Drive
  <2>2. command' = command
    BY <2>1 DEF command
  <2>3. Known' <=> Known
    BY <2>1, <2>2 DEF Known
  <2>4. command = "unlock_drive" /\ exists => security = "locked"
    BY <2>1 DEF Scripts
  <2> QED BY <2>1, <2>3, <2>4 DEF Security
<1>3. CASE Finish \/ WaitNonData \/ PioWait
  <2>1. UNCHANGED <<script, call, inited, exists, security, drv>> /\ Active /\ Active'
        /\ apc' \notin {"arm", "issue"}
    BY <1>3 DEF Finish, WaitNonData, PioWait, Active, hwVars
  <2>2. drv.state = "ready" => drv.cmd = "none"
    BY DEF Security
  <2> QED BY <2>1, <2>2, SecuritySame
<1>4. CASE Clean \/ DmaSleep \/ DmaWake \/ DmaEnd \/ DmaEndWake \/ \E ok \in BOOLEAN : DmaMove(ok)
  <2>1. UNCHANGED <<script, call, inited, exists, security, drv>> /\ Active /\ Active'
        /\ apc' \notin {"arm", "issue"}
    BY <1>4 DEF Clean, DmaSleep, DmaWake, DmaEnd, DmaEndWake, DmaMove, Active, hwVars
  <2>2. drv.state = "ready" => drv.cmd = "none"
    BY DEF Security
  <2> QED BY <2>1, <2>2, SecuritySame
<1>5. CASE Status
  <2>1. UNCHANGED <<script, call, inited, exists, security>> /\ Active /\ Active'
        /\ apc' = "clean" /\ drv' = [drv EXCEPT !.irq = FALSE]
    BY <1>5 DEF Status, Active
  <2>2. drv'.security = drv.security /\ drv'.cmd = drv.cmd /\ drv'.state = drv.state
    BY <2>1 DEF Drive
  <2>3. drv.state = "ready" => drv.cmd = "none"
    BY DEF Security
  <2> QED BY <2>1, <2>2, <2>3, SecuritySame
<1>6. CASE PioBlock
  <2>1. UNCHANGED <<script, call, inited, exists, security>> /\ Active /\ Active'
        /\ apc' \in {"clean", "pio"}
        /\ \/ drv' = drv
           \/ drv' = [drv EXCEPT !.state = "ready", !.cmd = "none", !.left = 0, !.done = TRUE]
           \/ drv' = [drv EXCEPT !.state = "busy", !.left = 0]
    BY <1>6 DEF PioBlock, Active
  <2>2. /\ drv'.security = drv.security /\ drv'.cmd \in {drv.cmd, "none"}
        /\ drv'.state = "ready" => drv'.cmd = "none"
    BY <2>1 DEF Drive, Security
  <2> QED BY <2>1, <2>2, SecuritySame
<1>7. CASE Done
  <2>1. /\ apc = "done" /\ UNCHANGED <<drv, call>> /\ apc' \in {"return", "start"}
        /\ security' = KnownStatus /\ (exists' => exists)
        /\ exists' /\ call = "devinfo" /\ command = "identify" => Ok
        /\ inited' <=> inited \/ (call = "devinfo" /\ Following = <<>>)
        /\ script' = Following /\ (Active' => Following # <<>>)
    BY <1>7 DEF Done, Run, opRest, callRest, Active
  <2>2. command = "identify" /\ Ok => drv.state = "ready" /\ drv.cmd = "none" /\ security' = drv.security
    BY <2>1 DEF Drive, Ok, Security, KnownStatus
  <2>3. ~(command = "identify" /\ Ok) => security' = security
    BY <2>1 DEF KnownStatus
  <2>4. Known' /\ exists' => Known \/ (command = "identify" /\ Ok)
    <3>1. CASE inited  BY <3>1 DEF Known
    <3>2. CASE call = "devinfo"
      BY <2>1, <3>2 DEF Known, Active
    <3>3. CASE ~inited /\ call # "devinfo"
      BY <2>1, <3>3 DEF Known
    <3> QED BY <3>1, <3>2, <3>3
  <2> QED BY <2>1, <2>2, <2>3, <2>4 DEF Security
<1>8. CASE Return
  <2>1. /\ apc = "return" /\ apc' = "idle" /\ call' = "none"
        /\ UNCHANGED <<drv, exists, inited, security>>
    BY <1>8 DEF Return, opRest, callRest
  <2> QED BY <2>1 DEF Security, Known, Active
<1> QED BY <1>1, <1>2, <1>3, <1>4, <1>5, <1>6, <1>7, <1>8 DEF Thread

LEMMA SecurityOthers ==
  ASSUME Scripts, Drive, Security, Caller \/ Hardware \/ UNCHANGED vars
  PROVE  Security'
<1>1. CASE Caller
  <2>1. apc = "idle" /\ apc' \in {"return", "start"} /\ security' = security
    BY <1>1, CallerIs
  <2>2. CASE UNCHANGED <<exists, inited, drv>> /\ (call' # "devinfo" \/ inited \/ ~Active')
    BY <2>1, <2>2 DEF Security, Known
  <2>3. ASSUME Devinfo(<<>>) PROVE ~Active'
    BY <2>3 DEF Devinfo, Call, Run, Goto, Active
  <2>4. ASSUME drv' = Reset PROVE drv'.state = "ready" /\ drv'.cmd = "none"
    BY <2>4 DEF Reset, Drive
  <2>5. CASE DevinfoKnown \/ BusStuck
    BY <2>2, <2>3, <2>5 DEF DevinfoKnown, BusStuck, NoInit
  <2>6. CASE NoDrive
    BY <2>1, <2>4, <2>6 DEF NoDrive, Security
  <2>7. CASE SelectFails
    <3>1. ~inited' /\ ~Active' /\ drv' = Reset
      BY <2>3, <2>7 DEF SelectFails
    <3> QED BY <2>1, <2>4, <3>1 DEF Security, Known
  <2>8. CASE DriveFound
    <3> DEFINE s == <<"identify", "set_mode", "simple", "simple">>
    <3>1. Devinfo(s) /\ ~inited' /\ drv' = Reset
      BY <2>8 DEF DriveFound
    <3>2. script' = s
      BY <3>1 DEF Devinfo, Call, Run
    <3>3. command' = "identify"
      BY <3>2 DEF command
    <3> QED BY <2>1, <2>4, <3>1, <3>3 DEF Security, Known
  <2>9. CASE ~GetDevinfo
    <3>1. UNCHANGED <<exists, inited, drv>> /\ call' # "devinfo"
      BY <1>1, <2>9 DEF Caller, DmaTransfer, Simple, SetPassword, Unlock, Erase, Call, NoInit
    <3> QED BY <2>2, <3>1
  <2> QED BY <2>5, <2>6, <2>7, <2>8, <2>9 DEF GetDevinfo
<1>2. CASE Interrupt \/ Alarm \/ NewCard \/ UNCHANGED vars
  <2>1. UNCHANGED <<drv, apc, script, call, inited>> /\ (UNCHANGED <<exists, security>> \/ ~exists')
    BY <1>2 DEF Interrupt, Alarm, NewCard, others, threadVars, infoVars, hwVars, vars
  <2>2. Active' <=> Active
    BY <2>1 DEF Active
  <2>3. /\ drv.state = "ready" => drv.cmd = "none"
        /\ apc \in {"arm", "issue"} => drv.state = "ready"
    BY DEF Security
  <2> QED BY <2>1, <2>2, <2>3, SecuritySame
<1>3. CASE DriveAsks \/ DriveMoves
  <2>1. /\ UNCHANGED <<apc, script, call, inited, exists, security>> /\ drv.state \in {"busy", "dma"}
        /\ \/ drv' = [drv EXCEPT !.state = "drq"] /\ drv.state = "busy"
           \/ drv' = [drv EXCEPT !.left = @ - 1, !.addr = @ + 1] /\ drv.state = "dma"
    BY <1>3 DEF DriveAsks, DriveMoves, DriveReads, DriveWrites, Moved, driveRest, others, threadVars, infoVars
  <2>2. /\ drv'.security = drv.security /\ drv'.cmd = drv.cmd /\ drv'.state \in {"drq", "dma"}
    BY <2>1 DEF Drive
  <2>3. (Active' <=> Active) /\ ~(apc \in {"arm", "issue"})
    BY <2>1 DEF Active, Security
  <2> QED BY <2>1, <2>2, <2>3, SecuritySame
<1>4. CASE DriveEnds \/ DriveFails
  <2>1. UNCHANGED <<apc, script, call, inited, exists, security>>
    BY <1>4 DEF DriveEnds, DriveFails, driveRest, others, threadVars, infoVars
  <2>2. PICK err \in BOOLEAN, sec \in Effects \cup {drv.security} : drv' = Ended(err, sec)
    <3>1. CASE DriveEnds  BY <3>1 DEF DriveEnds
    <3>2. CASE DriveFails  BY <3>2 DEF DriveFails
    <3> QED BY <1>4, <3>1, <3>2
  <2>3. drv'.state = "ready" /\ drv'.cmd = "none" /\ drv'.security = sec
    BY <2>2 DEF Ended, Drive
  <2>4. sec = "locked" => drv.cmd = "unlock_drive" \/ drv.security = "locked"
    BY DEF Effects
  <2>5. command' = command /\ (Active' <=> Active)
    BY <2>1 DEF command, Active
  <2>6. Known' <=> Known
    BY <2>1, <2>5 DEF Known
  <2> QED BY <2>1, <2>3, <2>4, <2>6 DEF Security
<1> QED BY <1>1, <1>2, <1>3, <1>4 DEF Hardware

LEMMA SecurityAlways == Spec => [](Scripts /\ Drive /\ Security)
<1>1. Scripts /\ Drive /\ Security /\ [Next]_vars => Security'
  BY SecurityThread, SecurityOthers DEF Next
<1> QED BY <1>1, ScriptsInit, ScriptsStep, DriveInit, DriveStep, SecurityInit, PTL DEF Spec

\* The status that decides on unlocking never says that a locked drive is
\* open: ata_device_sec_unlock and the other calls ask the drive again, and a
\* drive that is given up on, or fails to identify itself, is not believed.
THEOREM SecurityKnownAlways == Spec => []SecurityKnown
<1>1. Security => SecurityKnown
  BY DEF Security, Known, SecurityKnown
<1> QED BY <1>1, SecurityAlways, PTL

-----------------------------------------------------------------------------
(* Type correctness *)

LEMMA Constants ==
  /\ ByteMod \in Nat /\ ByteMod > 0 /\ NibbleMod \in Nat /\ NibbleMod > 0 /\ FifoMax \in Nat
  /\ FifoMax > 0 /\ NibbleMod <= ByteMod /\ Requests \subseteq Nat \X Nat
  /\ Shift16 \in Nat /\ Shift16 > 0 /\ Shift24 \in Nat /\ Shift24 > 0
<1>1. /\ ByteMod \in Nat /\ ByteMod > 0 /\ NibbleMod \in Nat /\ NibbleMod > 0 /\ FifoMax \in Nat
      /\ FifoMax > 0 /\ NibbleMod <= ByteMod /\ Requests \subseteq Nat \X Nat
  BY AtadAssumption
<1>2. Shift16 \in Nat /\ Shift16 > 0
  BY <1>1, DivDiv, 0 \in Nat DEF Shift16
<1>3. Shift24 \in Nat /\ Shift24 > 0
  BY <1>1, <1>2, DivDiv, 0 \in Nat DEF Shift24
<1> QED BY <1>1, <1>2, <1>3

LEMMA LenIs ==
  ASSUME nsectors \in Nat
  PROVE  /\ len \in Nat /\ len <= nsectors /\ len <= ByteMod /\ (nsectors > 0 => len > 0)
         /\ (~(nsectors > len) => len = nsectors)
BY Constants DEF len

\* What the drive reads from the registers are numbers.
LEMMA DigitIs ==
  ASSUME NEW n \in Nat, NEW shift \in Nat, shift > 0, NEW m \in Nat, m > 0
  PROVE  n % m \in Nat /\ (n \div shift) % m \in Nat
<1>1. n = shift * (n \div shift) + (n % shift) /\ n \div shift \in Int
  BY DivMod
<1> QED BY <1>1, DivMod

LEMMA RegistersType ==
  ASSUME TypeOK
  PROVE  DriveAddress \in Nat /\ DriveCount \in Nat
<1>1. /\ lba % ByteMod \in Nat /\ Digit(lba, ByteMod) \in Nat /\ Digit(lba, Shift16) \in Nat
      /\ Digit(lba, Shift24) \in Nat /\ (lba \div Shift24) % NibbleMod \in Nat
  BY Constants, DigitIs DEF TypeOK, ThreadTypes, Digit
<1>2. /\ Regs.sector \in Nat /\ Regs.lcyl \in Nat /\ Regs.hcyl \in Nat /\ Regs.sector_hob \in Nat
      /\ Regs.select \in Nat
  BY <1>1 DEF Regs, AddressRegs
<1>3. ASSUME NEW a \in Nat, NEW b \in Nat PROVE a * b \in Nat
  BY <1>3, Z3
<1>4. DriveAddress \in Nat
  <2> DEFINE last == IF lba_48bit THEN Regs.sector_hob ELSE Regs.select
  <2>1. last \in Nat
    BY <1>2
  <2>2. Regs.lcyl * ByteMod \in Nat /\ Regs.hcyl * Shift16 \in Nat /\ last * Shift24 \in Nat
    BY <1>2, <1>3, <2>1, Constants
  <2> QED BY <1>2, <2>2 DEF DriveAddress
<1>5. DriveCount \in Nat
  <2>1. len \in Nat
    BY LenIs DEF TypeOK, ThreadTypes
  <2> QED BY <2>1, Constants, DigitIs DEF DriveCount
<1> QED BY <1>4, <1>5

LEMMA Empty == <<>> \in Seq(Nat) /\ <<>> \in Seq(Nat \X Nat) /\ Len(<<>>) = 0
OBVIOUS

\* The drive's fields change type-correctly, a few at a time.
LEMMA DriveStatus ==
  ASSUME NEW d \in Drives, NEW state \in {"ready", "busy", "drq", "dma"}, NEW err \in BOOLEAN,
         NEW irq \in BOOLEAN
  PROVE  [d EXCEPT !.state = state, !.err = err, !.irq = irq] \in Drives
BY DEF Drives

LEMMA DriveFlags ==
  ASSUME NEW d \in Drives, NEW nIEN \in BOOLEAN, NEW done \in BOOLEAN, NEW out \in BOOLEAN
  PROVE  [d EXCEPT !.nIEN = nIEN, !.done = done, !.out = out] \in Drives
BY DEF Drives

LEMMA DriveCommand ==
  ASSUME NEW d \in Drives, NEW cmd \in Commands \cup {"none"}, NEW left \in Nat, NEW addr \in Nat
  PROVE  [d EXCEPT !.cmd = cmd, !.left = left, !.addr = addr] \in Drives
BY DEF Drives

LEMMA UsesAlarmIs == UsesAlarm \in BOOLEAN /\ (~UsesAlarm) \in BOOLEAN
BY DEF UsesAlarm

LEMMA TypeInit == Init => TypeOK
<1> SUFFICES ASSUME Init PROVE TypeOK
  OBVIOUS
<1>1. drv \in Drives
  BY DEF Init, Drives
<1>2. HardwareTypes
  BY <1>1, Constants, Empty DEF Init, HardwareTypes
<1>3. ThreadTypes
  <2>1. <<>> \in Seq(Commands)
    OBVIOUS
  <2> QED BY <2>1, Empty DEF Init, ThreadTypes, Results
<1>4. DriverTypes
  BY DEF Init, DriverTypes
<1> QED BY <1>2, <1>3, <1>4 DEF TypeOK

\* A step of a command that moves no sectors.
LEMMA TypeStep ==
  ASSUME TypeOK, UNCHANGED <<script, ret, lba, nsectors, buf, mem, infoVars, abandoned, fifo>>,
         ThreadTypes => apc' \in {"start", "select", "arm", "issue", "finish", "wait", "dma",
           "dma_wait", "dma_end", "pio", "pio_block", "status", "clean", "done"},
         res' \in Results, blkcount' \in Nat, ev' \subseteq {"interrupt", "timeout"},
         armed' \in BOOLEAN, fired' \in BOOLEAN, mask' \subseteq {"command", "data"},
         drv' \in Drives
  PROVE  TypeOK'
<1>1. ThreadTypes'  BY DEF TypeOK, ThreadTypes
<1>2. DriverTypes'  BY DEF TypeOK, DriverTypes, infoVars
<1>3. HardwareTypes'  BY DEF TypeOK, HardwareTypes
<1> QED BY <1>1, <1>2, <1>3 DEF TypeOK

LEMMA TypeThread ==
  ASSUME TypeOK, Scripts, Scripts', Drive, Thread
  PROVE  TypeOK'
<1> USE DEF Goto, startRest, finishRest
<1>0. /\ res \in Results /\ blkcount \in Nat /\ ev \subseteq {"interrupt", "timeout"}
      /\ armed \in BOOLEAN /\ fired \in BOOLEAN /\ mask \subseteq {"command", "data"}
      /\ drv \in Drives /\ fifo \in Seq(Nat) /\ mem \in Seq(Nat \X Nat) /\ lba \in Nat /\ nsectors \in Nat
      /\ buf \in Nat /\ Len(fifo) <= FifoMax /\ dir \in {"in", "out"}
  BY DEF TypeOK, ThreadTypes, DriverTypes, HardwareTypes
<1>1. CASE IoStart \/ \E ok \in BOOLEAN : Select(ok)
  <2>1. UNCHANGED <<blkcount, armed, mask, drv, fired, startRest>> /\ ev' \in {ev, {}}
        /\ apc' \in {"select", "arm", "done"} /\ res' \in {res, "ok", "no device", "timeout", "not ready"}
    BY <1>1 DEF IoStart, Select
  <2>2. res' \in Results /\ ev' \subseteq {"interrupt", "timeout"}
    BY <1>0, <2>1 DEF Results
  <2> QED BY <1>0, <2>1, <2>2, TypeStep
<1>2. CASE \E ok \in BOOLEAN : Arm(ok)
  <2>1. UNCHANGED <<blkcount, ev, mask, drv, startRest>> /\ armed' \in {armed, UsesAlarm}
        /\ fired' \in {fired, FALSE} /\ apc' \in {"issue", "done"} /\ res' \in {res, "no alarm"}
    BY <1>2 DEF Arm
  <2>2. res' \in Results /\ armed' \in BOOLEAN /\ fired' \in BOOLEAN
    BY <1>0, <2>1, UsesAlarmIs DEF Results
  <2> QED BY <1>0, <2>1, <2>2, TypeStep
<1>3. CASE Issue
  <2>1. command \in Commands
    <3>1. script # <<>> /\ script \in Seq(Commands)
      BY <1>3 DEF Issue, Scripts, Active
    <3> QED BY <3>1 DEF command
  <2>2. len \in Nat
    BY <1>0, LenIs
  <2>3. drv' \in Drives
    <3> DEFINE state == IF command = "dma" THEN "dma" ELSE "busy"
               left == IF command = "dma" THEN DriveCount ELSE 1
               addr == IF command = "dma" THEN DriveAddress ELSE 0
               out == command = "dma" /\ dir = "out"
    <3>1. state \in {"dma", "busy"} /\ left \in Nat /\ addr \in Nat
      <4>1. DriveAddress \in Nat /\ DriveCount \in Nat
        BY RegistersType
      <4> HIDE DEF TypeOK
      <4>2. CASE command = "dma"  BY <4>1, <4>2
      <4>3. CASE command # "dma"  BY <4>3
      <4> QED BY <4>2, <4>3
    <3>3. (~UsesAlarm) \in BOOLEAN
      BY UsesAlarmIs
    <3>2. drv' = [drv EXCEPT !.state = state, !.err = FALSE, !.irq = FALSE, !.nIEN = ~UsesAlarm,
                             !.done = FALSE, !.out = out, !.cmd = command, !.left = left,
                             !.addr = addr]
      BY <1>3 DEF Issue
    <3>4. out \in BOOLEAN
      OBVIOUS
    <3> HIDE DEF state, left, addr, out
    <3> DEFINE d1 == [drv EXCEPT !.state = state, !.err = FALSE, !.irq = FALSE]
               d2 == [d1 EXCEPT !.nIEN = ~UsesAlarm, !.done = FALSE, !.out = out]
               d3 == [d2 EXCEPT !.cmd = command, !.left = left, !.addr = addr]
    <3>5. drv' = d3
      BY <3>2
    <3>6. d1 \in Drives
      BY <1>0, <3>1, DriveStatus
    <3> HIDE DEF d1
    <3>7. d2 \in Drives
      BY <3>3, <3>4, <3>6, DriveFlags
    <3> HIDE DEF d2
    <3>8. d3 \in Drives
      BY <2>1, <3>1, <3>7, DriveCommand
    <3> QED BY <3>5, <3>8
  <2>4. /\ blkcount' \in {len, 1} /\ mask' \in {mask, mask \cup {"command"}} /\ apc' = "finish"
        /\ UNCHANGED <<res, ev, armed, fired, startRest>>
    BY <1>3 DEF Issue
  <2>5. blkcount' \in Nat /\ mask' \subseteq {"command", "data"}
    BY <1>0, <2>2, <2>4
  <2> QED BY <1>0, <2>3, <2>4, <2>5, TypeStep
<1>4. CASE Finish \/ WaitNonData \/ PioWait
  <2>1. /\ UNCHANGED <<buf, blkcount, armed, hwVars, mem, finishRest>> /\ ev' \in {ev, {}}
        /\ apc' \in {"wait", "dma", "pio", "done", "status", "clean", "pio_block"}
        /\ res' \in {res, "timeout"}
    BY <1>4 DEF Finish, WaitNonData, PioWait
  <2>2. res' \in Results /\ ev' \subseteq {"interrupt", "timeout"}
    BY <1>0, <2>1 DEF Results
  <2> QED BY <1>0, <2>1, <2>2, TypeStep DEF hwVars
<1>5. ASSUME NEW ok \in BOOLEAN, DmaMove(ok) PROVE TypeOK'
  <2>1. CASE ok
    <3>1. /\ Count \in Nat /\ Count <= blkcount /\ Len(fifo) \in Nat
          /\ dir = "in" => Count <= Len(fifo)
          /\ dir = "out" => Len(fifo) + Count <= FifoMax
      BY <1>0, Constants DEF Count, Smaller, dma_stat
    <3>2. /\ FromFifo \/ ToFifo
          /\ buf' = buf + Count /\ blkcount' = blkcount - Count
          /\ UNCHANGED <<res, apc, ev, armed, mask, drv, finishRest>>
      BY <1>5, <2>1 DEF DmaMove
    <3>3. mem' \in Seq(Nat \X Nat) /\ fifo' \in Seq(Nat) /\ Len(fifo') <= FifoMax
      <4>1. CASE FromFifo
        <5>1. [i \in 1 .. Count |-> <<buf + i, fifo[i]>>] \in Seq(Nat \X Nat)
          <6>1. \A i \in 1 .. Count : i \in 1 .. Len(fifo)
            BY <3>1, <4>1 DEF FromFifo
          <6>2. \A i \in 1 .. Count : <<buf + i, fifo[i]>> \in Nat \X Nat
            BY <1>0, <3>1, <6>1
          <6> QED BY <3>1, <6>2
        <5>2. mem' = mem \o [i \in 1 .. Count |-> <<buf + i, fifo[i]>>]
              /\ fifo' = SubSeq(fifo, Count + 1, Len(fifo))
          BY <4>1 DEF FromFifo
        <5>3. fifo' \in Seq(Nat) /\ Len(fifo') <= Len(fifo)
          BY <1>0, <3>1, <4>1, <5>2 DEF FromFifo
        <5> QED BY <1>0, <3>1, <5>1, <5>2, <5>3, Constants
      <4>2. CASE ToFifo
        <5> DEFINE new == [i \in 1 .. Count |-> buf + i]
        <5>1. new \in Seq(Nat) /\ Len(new) = Count
          <6>1. \A i \in 1 .. Count : buf + i \in Nat
            BY <1>0, <3>1
          <6> QED BY <3>1, <6>1
        <5>2. fifo' = fifo \o new /\ mem' = mem
          BY <4>2 DEF ToFifo
        <5> HIDE DEF new
        <5>3. fifo' \in Seq(Nat) /\ Len(fifo') = Len(fifo) + Count
          BY <1>0, <5>1, <5>2, ConcatProperties
        <5> QED BY <1>0, <3>1, <4>2, <5>2, <5>3 DEF ToFifo
      <4> QED BY <3>2, <4>1, <4>2
    <3>4. buf' \in Nat /\ blkcount' \in Nat
      BY <1>0, <3>1, <3>2
    <3>6. ThreadTypes'  BY <3>2, <3>3, <3>4 DEF TypeOK, ThreadTypes
    <3>7. DriverTypes'  BY <3>2 DEF TypeOK, DriverTypes, infoVars
    <3>8. HardwareTypes'  BY <3>2, <3>3 DEF TypeOK, HardwareTypes
    <3> QED BY <3>6, <3>7, <3>8 DEF TypeOK
  <2>2. CASE ~ok
    <3>1. UNCHANGED <<mem, buf, blkcount, fifo, ev, armed, mask, drv, finishRest>> /\ apc' = "clean"
          /\ res' = "dma error"
      BY <1>5, <2>2 DEF DmaMove
    <3> QED BY <1>0, <3>1, TypeStep DEF Results
  <2> QED BY <2>1, <2>2
<1>6. CASE DmaSleep \/ DmaWake \/ DmaEnd \/ DmaEndWake
  <2>1. /\ UNCHANGED <<buf, blkcount, armed, drv, fifo, mem, finishRest>> /\ ev' \in {ev, {}}
        /\ apc' \in {"dma_wait", "dma", "status", "clean", "dma_end"}
        /\ res' \in {res, "timeout", "error"}
        /\ mask' \in {mask, {"command", "data"}, mask \cup {"command"}}
    BY <1>6 DEF DmaSleep, DmaWake, DmaEnd, DmaEndWake, hwVars
  <2>2. res' \in Results /\ ev' \subseteq {"interrupt", "timeout"} /\ mask' \subseteq {"command", "data"}
    BY <1>0, <2>1 DEF Results
  <2> QED BY <1>0, <2>1, <2>2, TypeStep
<1>7. CASE PioBlock
  <2>1. apc = "pio_block"
    BY <1>7 DEF PioBlock
  <2>2. blkcount - 1 \in Nat
    BY <2>1 DEF Drive
  <2>3. /\ UNCHANGED <<buf, ev, armed, mask, fifo, mem, finishRest>>
        /\ blkcount' \in {blkcount, blkcount - 1}
        /\ apc' \in {"clean", "pio"} /\ res' \in {res, "error", "no request"}
        /\ \/ drv' = drv
           \/ drv' = [drv EXCEPT !.state = "ready", !.cmd = "none", !.left = 0, !.done = TRUE]
           \/ drv' = [drv EXCEPT !.state = "busy", !.left = 0]
    BY <1>7 DEF PioBlock
  <2>4. drv' \in Drives
    <3>1. CASE drv' = drv
      BY <1>0, <3>1
    <3>2. CASE drv' = [drv EXCEPT !.state = "ready", !.cmd = "none", !.left = 0, !.done = TRUE]
      BY <1>0, <3>2 DEF Drives
    <3>3. CASE drv' = [drv EXCEPT !.state = "busy", !.left = 0]
      BY <1>0, <3>3 DEF Drives
    <3> QED BY <2>3, <3>1, <3>2, <3>3
  <2>5. res' \in Results /\ blkcount' \in Nat
    BY <1>0, <2>2, <2>3 DEF Results
  <2> QED BY <1>0, <2>3, <2>4, <2>5, TypeStep
<1>8. CASE Status
  <2>1. /\ drv' = [drv EXCEPT !.irq = FALSE] /\ apc' = "clean" /\ res' \in {res, "error", "timeout"}
        /\ UNCHANGED <<buf, blkcount, ev, armed, mask, fifo, mem, finishRest>>
    BY <1>8 DEF Status
  <2>2. drv' \in Drives /\ res' \in Results
    BY <1>0, <2>1 DEF Drives, Results
  <2> QED BY <1>0, <2>1, <2>2, TypeStep
<1>9. CASE Clean
  <2>1. /\ armed' = FALSE /\ apc' = "done"
        /\ abandoned' = (abandoned \/ (drv.state = "dma" /\ drv.left > 0))
        /\ UNCHANGED <<call, script, res, ret, lba, nsectors, buf, blkcount, ev, infoVars, hwVars,
                       mem, calls, fired>>
    BY <1>9 DEF Clean, Cancelled
  <2>2. ThreadTypes'  BY <2>1 DEF TypeOK, ThreadTypes
  <2>3. DriverTypes'  BY <2>1 DEF TypeOK, DriverTypes, infoVars
  <2>4. HardwareTypes'  BY <2>1 DEF TypeOK, HardwareTypes, hwVars
  <2> QED BY <2>2, <2>3, <2>4 DEF TypeOK
<1>10. CASE Done
  <2>1. len \in Nat /\ len <= nsectors
    BY <1>0, LenIs
  <2>2. KnownStatus \in {"none", "enabled", "locked"}
    BY DEF KnownStatus, TypeOK, DriverTypes, HardwareTypes, Drives
  <2>3. Returned \in Results
    BY DEF Returned, TypeOK, ThreadTypes, Results
  <2>4. /\ UNCHANGED <<res, buf, blkcount, mem, opRest>> /\ security' = KnownStatus /\ ret' = Returned
        /\ apc' \in {"return", "start"} /\ fifo' \in {fifo, <<>>}
        /\ exists' \in {exists, exists /\ Ok} /\ lba_48bit' \in {lba_48bit, drv.ext}
        /\ inited' = (inited \/ (call = "devinfo" /\ Following = <<>>))
    BY <1>10 DEF Done, Run, SetDir
  <2>5. /\ UNCHANGED dir
        /\ \/ lba' = lba + len /\ nsectors' = nsectors - len
           \/ UNCHANGED <<lba, nsectors>>
    BY <1>10 DEF Done, NextLba, NoTransfer
  <2>6. lba' \in Nat /\ nsectors' \in Nat
    BY <1>0, <2>1, <2>5
  <2>7. script' \in Seq(Commands)
    BY DEF Scripts
  <2>8. fifo' \in Seq(Nat) /\ Len(fifo') <= FifoMax
    <3>1. CASE fifo' = fifo  BY <1>0, <3>1
    <3>2. CASE fifo' = <<>>
      <4>1. 0 <= FifoMax  BY Constants
      <4> QED BY <3>2, <4>1, Empty
    <3> QED BY <2>4, <3>1, <3>2
  <2>9. ThreadTypes'  BY <2>3, <2>4, <2>6, <2>7 DEF TypeOK, ThreadTypes
  <2>10. DriverTypes'  BY <2>2, <2>4, <2>5 DEF TypeOK, DriverTypes, HardwareTypes, Drives, opRest, callRest, Ok
  <2>11. HardwareTypes'  BY <2>4, <2>8 DEF TypeOK, HardwareTypes, opRest, callRest
  <2> QED BY <2>9, <2>10, <2>11 DEF TypeOK
<1>11. CASE Return
  <2>1. /\ apc' = "idle" /\ res' = "ok" /\ ret' = "ok" /\ mem' = <<>> /\ lba' = 0 /\ nsectors' = 0
        /\ buf' = 0 /\ blkcount' = 0 /\ UNCHANGED <<script, calls, infoVars, fifo, opRest>>
    BY <1>11 DEF Return
  <2>2. ThreadTypes'  BY <2>1, Empty DEF TypeOK, ThreadTypes, Results
  <2>3. DriverTypes'  BY <2>1 DEF TypeOK, DriverTypes, infoVars, opRest, callRest
  <2>4. HardwareTypes'  BY <2>1 DEF TypeOK, HardwareTypes, opRest, callRest
  <2> QED BY <2>2, <2>3, <2>4 DEF TypeOK
<1> QED BY <1>1, <1>2, <1>3, <1>4, <1>5, <1>6, <1>7, <1>8, <1>9, <1>10, <1>11 DEF Thread

LEMMA TypeOthers ==
  ASSUME TypeOK, Scripts', Caller \/ Hardware \/ UNCHANGED vars
  PROVE  TypeOK'
<1>1. CASE Caller
  <2>1. UNCHANGED <<blkcount, security, lba_48bit, callRest>> /\ mem' = <<>> /\ buf' = 0
        /\ res' = "ok" /\ ret' \in {"ok", "NULL"} /\ apc' \in {"return", "start"}
        /\ fifo' \in {fifo, <<>>} /\ drv' \in {drv, Reset}
    BY <1>1, CallerIs
  <2>2. lba' \in Nat /\ nsectors' \in Nat /\ dir' \in {"in", "out"}
    <3>1. ASSUME NEW r \in Requests, NEW d \in {"in", "out"}, DmaTransfer(r[1], r[2], d)
          PROVE  lba' \in Nat /\ nsectors' \in Nat /\ dir' \in {"in", "out"}
      BY <3>1, Constants DEF DmaTransfer, TypeOK, DriverTypes
    <3>2. CASE NoTransfer
      BY <3>2 DEF NoTransfer, TypeOK, ThreadTypes, DriverTypes
    <3> QED BY <1>1, <3>1, <3>2 DEF Caller, GetDevinfo, DevinfoKnown, BusStuck, NoDrive, SelectFails,
               DriveFound, Devinfo, Simple, SetPassword, Unlock, Erase
  <2>3. exists' \in BOOLEAN /\ inited' \in BOOLEAN
    BY <1>1 DEF Caller, DmaTransfer, Simple, SetPassword, Unlock, Erase, NoInit, GetDevinfo,
       DevinfoKnown, BusStuck, NoDrive, SelectFails, DriveFound, TypeOK, DriverTypes
  <2>9. drv' \in Drives
    <3>1. drv \in Drives
      BY DEF TypeOK, HardwareTypes
    <3>2. Reset \in Drives
      <4> DEFINE d1 == [drv EXCEPT !.state = "ready", !.err = FALSE, !.irq = FALSE]
                 d2 == [d1 EXCEPT !.nIEN = TRUE, !.done = TRUE, !.out = FALSE]
                 d3 == [d2 EXCEPT !.cmd = "none", !.left = 0, !.addr = 0]
      <4>1. Reset = d3
        BY DEF Reset
      <4>2. d1 \in Drives
        BY <3>1, DriveStatus
      <4> HIDE DEF d1
      <4>3. d2 \in Drives
        BY <4>2, DriveFlags
      <4> HIDE DEF d2
      <4> QED BY <4>1, <4>3, DriveCommand
    <3> QED BY <2>1, <3>1, <3>2
  <2>4. script' \in Seq(Commands)
    BY DEF Scripts
  <2>5. fifo' \in Seq(Nat) /\ Len(fifo') <= FifoMax
    <3>1. CASE fifo' = fifo  BY <3>1 DEF TypeOK, HardwareTypes
    <3>2. CASE fifo' = <<>>
      <4>1. 0 <= FifoMax  BY Constants
      <4> QED BY <3>2, <4>1, Empty
    <3> QED BY <2>1, <3>1, <3>2
  <2>6. ThreadTypes'  BY <2>1, <2>2, <2>4, Empty DEF TypeOK, ThreadTypes, Results
  <2>7. DriverTypes'  BY <2>1, <2>2, <2>3 DEF TypeOK, DriverTypes, callRest
  <2>8. HardwareTypes'  BY <2>1, <2>5, <2>9 DEF TypeOK, HardwareTypes, callRest
  <2> QED BY <2>6, <2>7, <2>8 DEF TypeOK
<1>2. CASE Interrupt \/ Alarm \/ NewCard \/ UNCHANGED vars
  <2>1. ThreadTypes'
    BY <1>2 DEF Interrupt, Alarm, NewCard, others, threadVars, histVars, vars, TypeOK, ThreadTypes
  <2>2. DriverTypes'
    BY <1>2 DEF Interrupt, Alarm, NewCard, others, infoVars, histVars, vars, TypeOK, DriverTypes
  <2>3. HardwareTypes'
    BY <1>2 DEF Interrupt, Alarm, NewCard, hwVars, vars, TypeOK, HardwareTypes
  <2> QED BY <2>1, <2>2, <2>3 DEF TypeOK
<1>3. CASE DriveEnds \/ DriveFails \/ DriveAsks \/ DriveMoves
  <2>1. drv \in Drives /\ fifo \in Seq(Nat) /\ Len(fifo) <= FifoMax /\ drv.left \in Nat /\ drv.addr \in Nat
    BY DEF TypeOK, HardwareTypes, Drives
  <2>2. drv' \in Drives
    <3>1. CASE DriveAsks
      BY <2>1, <3>1 DEF DriveAsks, Drives
    <3>2. CASE DriveEnds \/ DriveFails
      <4>1. Effects \cup {drv.security} \subseteq {"none", "enabled", "locked"}
        BY <2>1 DEF Effects, Drives
      <4>2. PICK err \in BOOLEAN, sec \in {"none", "enabled", "locked"} : drv' = Ended(err, sec)
        BY <3>2, <4>1 DEF DriveEnds, DriveFails
      <4> DEFINE d1 == [drv EXCEPT !.state = "ready", !.err = err, !.irq = ~drv.nIEN]
                 d2 == [d1 EXCEPT !.nIEN = d1.nIEN, !.done = TRUE, !.out = FALSE]
                 d3 == [d2 EXCEPT !.cmd = "none", !.left = 0, !.addr = 0]
                 d4 == [d3 EXCEPT !.security = sec]
      <4>3. drv' = d4
        BY <2>1, <4>2 DEF Ended, Drives
      <4>4. (~drv.nIEN) \in BOOLEAN
        BY <2>1 DEF Drives
      <4>5. d1 \in Drives
        BY <2>1, <4>2, <4>4, DriveStatus
      <4> HIDE DEF d1
      <4>6. d1.nIEN \in BOOLEAN
        BY <4>5 DEF Drives
      <4>7. d2 \in Drives
        BY <4>5, <4>6, DriveFlags
      <4> HIDE DEF d2
      <4>8. d3 \in Drives
        BY <4>7, DriveCommand
      <4> HIDE DEF d3
      <4>9. d4 \in Drives
        BY <4>2, <4>8 DEF Drives
      <4> QED BY <4>3, <4>9
    <3>3. CASE DriveMoves
      <4>1. drv.left - 1 \in Nat /\ drv.addr + 1 \in Nat
            /\ drv' = [drv EXCEPT !.left = @ - 1, !.addr = @ + 1]
        BY <2>1, <3>3 DEF DriveMoves, DriveReads, DriveWrites, Moved
      <4> QED BY <2>1, <4>1 DEF Drives
    <3> QED BY <1>3, <3>1, <3>2, <3>3
  <2>3. fifo' \in Seq(Nat) /\ Len(fifo') <= FifoMax /\ mem' \in Seq(Nat \X Nat)
    <3>0. mem \in Seq(Nat \X Nat)
      BY DEF TypeOK, ThreadTypes
    <3>1. CASE DriveReads
      <4>1. fifo' = Append(fifo, drv.addr) /\ Len(fifo) < FifoMax /\ mem' = mem
        BY <3>1 DEF DriveReads
      <4> QED BY <2>1, <3>0, <4>1, Constants
    <3>2. CASE DriveWrites
      <4>1. fifo' = Tail(fifo) /\ fifo # <<>> /\ mem' = Append(mem, <<Head(fifo), drv.addr>>)
        BY <3>2 DEF DriveWrites
      <4>2. Head(fifo) \in Nat /\ fifo' \in Seq(Nat) /\ Len(fifo') <= Len(fifo)
        BY <2>1, <4>1
      <4> QED BY <2>1, <3>0, <4>1, <4>2, Constants
    <3>3. CASE ~DriveMoves
      BY <1>3, <2>1, <3>0, <3>3 DEF DriveEnds, DriveFails, DriveAsks
    <3> QED BY <3>1, <3>2, <3>3 DEF DriveMoves
  <2>4. UNCHANGED driveRest
    BY <1>3 DEF DriveEnds, DriveFails, DriveAsks, DriveMoves, DriveReads, DriveWrites
  <2>5. ThreadTypes'  BY <2>3, <2>4 DEF driveRest, others, threadVars, TypeOK, ThreadTypes
  <2>6. DriverTypes'  BY <2>4 DEF driveRest, others, infoVars, TypeOK, DriverTypes
  <2>7. HardwareTypes'  BY <2>2, <2>3, <2>4 DEF driveRest, TypeOK, HardwareTypes
  <2> QED BY <2>5, <2>6, <2>7 DEF TypeOK
<1> QED BY <1>1, <1>2, <1>3 DEF Hardware

\* The registers of the drive and the driver's counters are numbers, the FIFO
\* never holds more than the SPEED's 31 sectors, and the driver is where its
\* control flow can be.
THEOREM TypeCorrect == Spec => []TypeOK
<1>1. TypeOK /\ Scripts /\ Scripts' /\ Drive /\ [Next]_vars => TypeOK'
  BY TypeThread, TypeOthers DEF Next
<1> QED BY <1>1, TypeInit, SecurityAlways, ScriptsInit, ScriptsStep, PTL DEF Spec
-----------------------------------------------------------------------------
(* Transfers *)

\* n sectors of the drive
Sectors(first, n) == [i \in 1 .. n |-> first + i - 1]

LEMMA SectorsIs ==
  ASSUME NEW first \in Nat, NEW n \in Nat
  PROVE  /\ Sectors(first, n) \in Seq(Nat) /\ Len(Sectors(first, n)) = n
         /\ \A i \in 1 .. n : Sectors(first, n)[i] = first + i - 1
<1>1. \A i \in 1 .. n : first + i - 1 \in Nat
  OBVIOUS
<1> QED BY <1>1 DEF Sectors

LEMMA SectorsNone == \A first \in Nat : Sectors(first, 0) = <<>>
<1> SUFFICES ASSUME NEW first \in Nat PROVE Sectors(first, 0) = <<>>
  OBVIOUS
<1>1. Sectors(first, 0) \in Seq(Nat) /\ Len(Sectors(first, 0)) = 0
  BY SectorsIs
<1> QED BY <1>1

LEMMA SectorsJoin ==
  ASSUME NEW first \in Nat, NEW n \in Nat, NEW k \in Nat
  PROVE  Sectors(first, n) \o Sectors(first + n, k) = Sectors(first, n + k)
<1> DEFINE s == Sectors(first, n)
           t == Sectors(first + n, k)
           u == Sectors(first, n + k)
<1>0. first + n \in Nat /\ n + k \in Nat
  OBVIOUS
<1>1. /\ s \in Seq(Nat) /\ Len(s) = n /\ \A i \in 1 .. n : s[i] = first + i - 1
  BY SectorsIs
<1>4. t \in Seq(Nat) /\ Len(t) = k /\ \A i \in 1 .. k : t[i] = first + n + i - 1
  BY <1>0, SectorsIs
<1>5. u \in Seq(Nat) /\ Len(u) = n + k /\ \A i \in 1 .. n + k : u[i] = first + i - 1
  BY <1>0, SectorsIs
<1> HIDE DEF s, t, u
<1>2. /\ s \o t \in Seq(Nat) /\ Len(s \o t) = n + k
      /\ \A i \in 1 .. n + k : (s \o t)[i] = IF i <= n THEN s[i] ELSE t[i - n]
  BY <1>1, <1>4, ConcatProperties
<1>3. \A i \in 1 .. n + k : (s \o t)[i] = u[i]
  BY <1>1, <1>2, <1>4, <1>5
<1>6. s \o t = u
  BY <1>2, <1>3, <1>5, SeqEqual
<1> QED BY <1>6 DEF s, t, u

LEMMA SectorsNext ==
  ASSUME NEW first \in Nat, NEW n \in Nat
  PROVE  Append(Sectors(first, n), first + n) = Sectors(first, n + 1)
<1> DEFINE s == Sectors(first, n)
           u == Sectors(first, n + 1)
<1>1. s \in Seq(Nat) /\ Len(s) = n /\ \A i \in 1 .. n : s[i] = first + i - 1
  BY SectorsIs
<1>3. u \in Seq(Nat) /\ Len(u) = n + 1 /\ \A i \in 1 .. n + 1 : u[i] = first + i - 1
  BY n + 1 \in Nat, SectorsIs
<1> HIDE DEF s, u
<1>2. /\ Append(s, first + n) \in Seq(Nat) /\ Len(Append(s, first + n)) = n + 1
      /\ \A i \in 1 .. n + 1 : Append(s, first + n)[i] = u[i]
  BY <1>1, <1>3
<1>4. Append(s, first + n) = u
  BY <1>2, <1>3, SeqEqual
<1> QED BY <1>4 DEF s, u

LEMMA SectorsFirst ==
  ASSUME NEW first \in Nat, NEW n \in Nat, n > 0
  PROVE  Head(Sectors(first, n)) = first /\ Tail(Sectors(first, n)) = Sectors(first + 1, n - 1)
<1> DEFINE s == Sectors(first, n)
           u == Sectors(first + 1, n - 1)
<1>1. s \in Seq(Nat) /\ Len(s) = n /\ \A i \in 1 .. n : s[i] = first + i - 1
  BY SectorsIs
<1>2. u \in Seq(Nat) /\ Len(u) = n - 1 /\ \A i \in 1 .. n - 1 : u[i] = first + 1 + i - 1
  BY first + 1 \in Nat, n - 1 \in Nat, SectorsIs
<1> HIDE DEF s, u
<1>3. s # <<>> /\ Head(s) = first
  BY <1>1
<1>4. Tail(s) \in Seq(Nat) /\ Len(Tail(s)) = n - 1 /\ \A i \in 1 .. n - 1 : Tail(s)[i] = s[i + 1]
  BY <1>1, <1>3, HeadTailProperties
<1>5. \A i \in 1 .. n - 1 : Tail(s)[i] = u[i]
  BY <1>1, <1>2, <1>4
<1>6. Tail(s) = u
  BY <1>2, <1>4, <1>5, SeqEqual
<1> QED BY <1>3, <1>6 DEF s, u

\* the first n blocks of the buffer with the sectors of the drive from first on
Pairs(first, n) == [i \in 1 .. n |-> <<i, first + i - 1>>]

LEMMA PairsIs ==
  ASSUME NEW first \in Nat, NEW n \in Nat
  PROVE  /\ Pairs(first, n) \in Seq(Nat \X Nat) /\ Len(Pairs(first, n)) = n
         /\ \A i \in 1 .. n : Pairs(first, n)[i] = <<i, first + i - 1>>
<1>1. \A i \in 1 .. n : <<i, first + i - 1>> \in Nat \X Nat
  OBVIOUS
<1> QED BY <1>1 DEF Pairs

LEMMA PairsNone == \A first \in Nat : Pairs(first, 0) = <<>>
<1> SUFFICES ASSUME NEW first \in Nat PROVE Pairs(first, 0) = <<>>
  OBVIOUS
<1>1. Pairs(first, 0) \in Seq(Nat \X Nat) /\ Len(Pairs(first, 0)) = 0
  BY PairsIs
<1> QED BY <1>1

LEMMA PairsJoin ==
  ASSUME NEW first \in Nat, NEW n \in Nat, NEW k \in Nat
  PROVE  Pairs(first, n) \o [i \in 1 .. k |-> <<n + i, first + n + i - 1>>] = Pairs(first, n + k)
<1> DEFINE s == Pairs(first, n)
           t == [i \in 1 .. k |-> <<n + i, first + n + i - 1>>]
           u == Pairs(first, n + k)
<1>1. s \in Seq(Nat \X Nat) /\ Len(s) = n /\ \A i \in 1 .. n : s[i] = <<i, first + i - 1>>
  BY PairsIs
<1>2. t \in Seq(Nat \X Nat) /\ Len(t) = k /\ \A i \in 1 .. k : t[i] = <<n + i, first + n + i - 1>>
  <2>1. \A i \in 1 .. k : <<n + i, first + n + i - 1>> \in Nat \X Nat
    OBVIOUS
  <2> QED BY <2>1
<1>3. u \in Seq(Nat \X Nat) /\ Len(u) = n + k /\ \A i \in 1 .. n + k : u[i] = <<i, first + i - 1>>
  BY n + k \in Nat, PairsIs
<1> HIDE DEF s, t, u
<1>4. /\ s \o t \in Seq(Nat \X Nat) /\ Len(s \o t) = n + k
      /\ \A i \in 1 .. n + k : (s \o t)[i] = IF i <= n THEN s[i] ELSE t[i - n]
  BY <1>1, <1>2, ConcatProperties
<1>5. ASSUME NEW i \in 1 .. n + k PROVE (s \o t)[i] = u[i]
  <2>0. u[i] = <<i, first + i - 1>>
    BY <1>3
  <2>3. i <= n \/ i > n
    OBVIOUS
  <2>1. CASE i <= n
    <3>1. i \in 1 .. n /\ (s \o t)[i] = s[i]
      BY <1>4, <2>1
    <3>2. s[i] = <<i, first + i - 1>>
      BY <1>1, <3>1
    <3> QED BY <2>0, <3>1, <3>2
  <2>2. CASE i > n
    <3>1. i - n \in 1 .. k /\ n + (i - n) = i /\ first + n + (i - n) - 1 = first + i - 1
      BY <2>2
    <3>2. t[i - n] = <<n + (i - n), first + n + (i - n) - 1>>
      BY <1>2, <3>1
    <3>3. ~(i <= n)
      BY <2>2
    <3>4. (s \o t)[i] = t[i - n]
      BY <1>4, <3>3
    <3> QED BY <2>0, <3>1, <3>2, <3>4
  <2> QED BY <2>1, <2>2, <2>3
<1>6. s \o t = u
  BY <1>3, <1>4, <1>5, SeqEqual
<1> QED BY <1>6 DEF s, t, u

LEMMA PairsNext ==
  ASSUME NEW first \in Nat, NEW n \in Nat
  PROVE  Append(Pairs(first, n), <<n + 1, first + n>>) = Pairs(first, n + 1)
<1> DEFINE s == Pairs(first, n)
           u == Pairs(first, n + 1)
           p == <<n + 1, first + n>>
<1>1. s \in Seq(Nat \X Nat) /\ Len(s) = n /\ \A i \in 1 .. n : s[i] = <<i, first + i - 1>>
  BY PairsIs
<1>2. u \in Seq(Nat \X Nat) /\ Len(u) = n + 1 /\ \A i \in 1 .. n + 1 : u[i] = <<i, first + i - 1>>
  BY n + 1 \in Nat, PairsIs
<1>3. u[n + 1] = p /\ p \in Nat \X Nat
  <2>1. first + (n + 1) - 1 = first + n
    OBVIOUS
  <2> QED BY <1>2, <2>1
<1> HIDE DEF s, u, p
<1>4. /\ Append(s, p) \in Seq(Nat \X Nat) /\ Len(Append(s, p)) = n + 1
      /\ \A i \in 1 .. n : Append(s, p)[i] = s[i]
      /\ Append(s, p)[n + 1] = p
  BY <1>1, <1>3
<1>5. ASSUME NEW i \in 1 .. n PROVE s[i] = u[i]
  <2>1. i \in 1 .. n + 1
    OBVIOUS
  <2>2. s[i] = <<i, first + i - 1>> /\ u[i] = <<i, first + i - 1>>
    BY <1>1, <1>2, <2>1
  <2> QED BY <2>2
<1>6. ASSUME NEW i \in 1 .. n + 1 PROVE Append(s, p)[i] = u[i]
  <2>1. i \in 1 .. n \/ i = n + 1
    OBVIOUS
  <2> QED BY <1>3, <1>4, <1>5, <2>1
<1>7. Append(s, p) = u
  BY <1>2, <1>4, <1>6, SeqEqual
<1> QED BY <1>7 DEF s, u, p

\* the sectors that an address of the drive's format reaches
Reach == Shift24 * (IF lba_48bit THEN ByteMod ELSE NibbleMod)

LEMMA Whole == ASSUME NEW m \in Nat, m > 0 PROVE m % m = 0
<1>1. m = m * 1 + 0
  OBVIOUS
<1> QED BY <1>1, ModIs

\* The drive reads from the registers what the driver means: any address it
\* can reach, and a count of at most ByteMod, which 0 stands for.
LEMMA RegistersRead ==
  ASSUME TypeOK, nsectors > 0, lba + nsectors <= Reach
  PROVE  DriveAddress = lba /\ DriveCount = len
<1>1. lba \in Nat /\ nsectors \in Nat /\ lba_48bit \in BOOLEAN
  BY DEF TypeOK, ThreadTypes, DriverTypes
<1>2. /\ ByteMod \in Nat /\ ByteMod > 0 /\ NibbleMod \in Nat /\ NibbleMod > 0
      /\ Shift16 \in Nat /\ Shift16 > 0 /\ Shift24 \in Nat /\ Shift24 > 0
  BY Constants
<1>3. DriveAddress = lba
  <2> DEFINE d == IF lba_48bit THEN ByteMod ELSE NibbleMod
             last == (lba \div Shift24) % d
  <2>1. d \in Nat /\ d > 0
    BY <1>2
  <2>2. lba < Shift24 * d
    <3>1. Shift24 * d \in Nat
      BY <1>2, <2>1, Z3
    <3> QED BY <1>1, <3>1 DEF Reach
  <2>3. lba = (lba % ByteMod) + Digit(lba, ByteMod) * ByteMod + Digit(lba, Shift16) * Shift16
                  + last * Shift24
    <3> HIDE DEF d
    <3> QED BY <1>1, <1>2, <2>1, <2>2, Places DEF Digit, Shift16, Shift24
  <2>4. /\ Regs.sector = lba % ByteMod /\ Regs.lcyl = Digit(lba, ByteMod)
        /\ Regs.hcyl = Digit(lba, Shift16)
        /\ (IF lba_48bit THEN Regs.sector_hob ELSE Regs.select) = last
    BY DEF Regs, AddressRegs, Digit
  <2> HIDE DEF d, last
  <2> QED BY <2>3, <2>4 DEF DriveAddress
<1>4. DriveCount = len
  <2> DEFINE all == IF lba_48bit THEN Shift16 ELSE ByteMod
  <2>1. len \in Nat /\ len > 0 /\ len <= ByteMod
    BY <1>1, LenIs
  <2>2. ByteMod <= Shift16
    <3>1. ByteMod * ByteMod >= ByteMod * 1
      BY <1>2, Z3
    <3> QED BY <1>2, <3>1 DEF Shift16
  <2>3. all \in Nat /\ all > 0 /\ len <= all
    BY <1>2, <2>1, <2>2
  <2>4. DriveCount = IF len % all = 0 THEN all ELSE len % all
    BY DEF DriveCount
  <2> HIDE DEF all
  <2>5. CASE len = all
    BY <2>3, <2>4, <2>5, Whole
  <2>6. CASE len < all
    <3>1. len % all = len
      BY <2>1, <2>3, <2>6, ModSmall
    <3> QED BY <2>1, <2>4, <3>1
  <2> QED BY <2>1, <2>3, <2>5, <2>6
<1> QED BY <1>3, <1>4

\* while a command moves sectors; the sectors it has moved, where the whole
\* transfer began, and the blocks of a write that are still in the FIFO
Moving == {"finish", "dma", "dma_wait", "dma_end", "status", "clean"}
moved  == IF apc \in Moving \cup {"done"} THEN len - blkcount ELSE 0
from   == lba + moved - buf
Held   == IF dir = "out" /\ apc \in Moving THEN Len(fifo) ELSE 0

\* a transfer that may return 0
Counted ==
  call = "transfer" /\ ~abandoned /\ (apc = "done" => Ok) /\ (apc = "return" => ret = "ok")

\* What has moved and what is left make up what was asked for.
Placed ==
  /\ from \in Nat /\ <<from, buf - moved + nsectors>> \in Requests
  /\ lba + nsectors <= Reach /\ (nsectors = 0 <=> apc = "return")
  /\ Held <= buf /\ mem = Pairs(from, buf - Held)

\* Between the commands nothing is under way; a command that ends without an
\* error has moved its sectors.
Phases ==
  /\ apc \in Moving => blkcount <= len
  /\ apc \in {"start", "select", "arm", "issue"} => fifo = <<>>
  /\ apc \in {"dma_end", "status"} \/ (apc \in {"clean", "done"} /\ Ok) => blkcount = 0

\* Of a read, the FIFO holds the sectors that follow those in the buffer, and
\* the drive goes on after them.
Reading ==
  /\ fifo = Sectors(lba + moved, Len(fifo)) /\ Len(fifo) <= blkcount
  /\ drv.state = "dma" => /\ drv.addr = lba + moved + Len(fifo)
                          /\ drv.left = blkcount - Len(fifo)

\* Of a write, it holds the last blocks handed over, which the drive is still
\* to get; the drive ends without an error only when it has got all.
Writing ==
  /\ fifo = Sectors(buf - Len(fifo) + 1, Len(fifo))
  /\ drv.state \in {"dma", "ready"}
  /\ drv.state = "dma" => /\ drv.addr = from + buf - Len(fifo)
                          /\ drv.left = blkcount + Len(fifo)
  /\ drv.state = "ready" /\ ~drv.err => blkcount = 0 /\ fifo = <<>>

InFlight ==
  apc \in Moving =>
    /\ drv.state = "dma" => (drv.out <=> dir = "out")
    /\ dir = "in" => Reading
    /\ dir = "out" => Writing

Exact ==
  /\ apc = "idle" => call = "none"
  /\ call = "transfer" => apc \notin {"wait", "pio", "pio_block"}
  /\ Counted => Placed /\ Phases /\ InFlight

\* A drive that moves sectors moves them for the command at hand, unless a
\* transfer has been given up.
Quiet ==
  drv.state = "dma" /\ drv.left > 0 /\ ~abandoned => apc \in Moving /\ command = "dma"

LEMMA TransferInit == Init => Exact /\ Quiet
BY DEF Init, Exact, Quiet, Counted

\* A step of a command that moves no sector, or none at all.
LEMMA ExactSame ==
  ASSUME Exact, UNCHANGED <<call, lba, nsectors, buf, blkcount, mem, fifo, lba_48bit, dir>>,
         apc' = "idle" => apc = "idle",
         call = "transfer" => apc' \notin {"wait", "pio", "pio_block"},
         Counted' =>
           /\ Counted /\ (apc \in Moving \cup {"done"} <=> apc' \in Moving \cup {"done"})
           /\ apc' = "return" <=> apc = "return"
           /\ apc' \in Moving => apc \in Moving
           /\ apc \in Moving /\ apc' \notin Moving /\ dir = "out" => Len(fifo) = 0
           /\ apc' \in {"start", "select", "arm", "issue"} => apc \in {"start", "select", "arm", "issue"}
           /\ apc' \in {"dma_end", "status"} \/ (apc' \in {"clean", "done"} /\ Ok') => blkcount = 0,
         drv'.state = "dma" => /\ drv.state = "dma" /\ drv'.addr = drv.addr /\ drv'.left = drv.left
                               /\ drv'.out = drv.out,
         \/ drv'.state = drv.state /\ drv'.err = drv.err
         \/ drv.state = "busy"
         \/ drv.state = "dma" /\ drv'.state = "ready" /\ (drv'.err \/ drv.left = 0),
         blkcount \in Nat, Len(fifo) \in Nat, Len(fifo) = 0 => fifo = <<>>
  PROVE  Exact'
<1>1. len' = len /\ Reach' = Reach
  BY DEF len, Reach
<1> SUFFICES ASSUME Counted' PROVE Placed' /\ Phases' /\ InFlight'
  BY DEF Exact
<1>2. moved' = moved
  BY <1>1 DEF moved
<1>3. from' = from
  BY <1>2 DEF from
<1>4. Placed /\ Phases /\ InFlight
  BY DEF Exact
<1>5. Held' = Held
  BY DEF Held
<1>6. Placed'
  BY <1>1, <1>2, <1>3, <1>4, <1>5 DEF Placed, Pairs
<1>7. Phases'
  BY <1>1, <1>4 DEF Phases
<1>8. InFlight'
  <2> SUFFICES ASSUME apc' \in Moving
               PROVE  /\ drv'.state = "dma" => (drv'.out <=> dir = "out")
                      /\ dir = "in" => Reading'
                      /\ dir = "out" => Writing'
    BY DEF InFlight
  <2>1. apc \in Moving
    OBVIOUS
  <2>2. CASE dir = "in"
    BY <1>1, <1>2, <1>4, <2>1, <2>2 DEF InFlight, Reading, Sectors
  <2>3. CASE dir = "out"
    <3>1. Writing /\ (drv.state = "dma" => (drv.out <=> dir = "out"))
      BY <1>4, <2>1, <2>3 DEF InFlight
    <3>2. drv'.state = "ready" /\ ~drv'.err => blkcount = 0 /\ fifo = <<>>
      BY <3>1 DEF Writing
    <3>3. Writing'
      BY <1>3, <3>1, <3>2 DEF Writing, Sectors
    <3> QED BY <2>3, <3>1, <3>3
  <2>4. CASE dir \notin {"in", "out"}
    BY <1>4, <2>1, <2>4 DEF InFlight
  <2> QED BY <2>2, <2>3, <2>4
<1> QED BY <1>6, <1>7, <1>8

\* The step that moves sectors between the buffer and the FIFO.
LEMMA ExactMove ==
  ASSUME TypeOK, Exact, DmaMove(TRUE)
  PROVE  Exact'
<1>1. /\ apc = "dma" /\ UNCHANGED <<apc, drv, finishRest>> /\ (FromFifo \/ ToFifo)
      /\ buf' = buf + Count /\ blkcount' = blkcount - Count /\ blkcount > 0
  BY DEF DmaMove
<1> SUFFICES ASSUME Counted' PROVE Placed' /\ Phases' /\ InFlight'
  BY <1>1 DEF Exact, finishRest
<1>2. Counted
  BY <1>1 DEF Counted, finishRest
<1>3. Placed /\ Phases /\ InFlight
  BY <1>2 DEF Exact
<1> DEFINE k == Len(fifo)
<1>4. /\ fifo \in Seq(Nat) /\ k \in Nat /\ k <= FifoMax /\ FifoMax \in Nat /\ lba \in Nat
      /\ nsectors \in Nat /\ buf \in Nat /\ blkcount \in Nat /\ dir \in {"in", "out"}
  BY Constants DEF TypeOK, ThreadTypes, DriverTypes, HardwareTypes
<1>5. Count \in Nat /\ Count <= blkcount
  BY <1>4 DEF Count, Smaller, dma_stat
<1>6. /\ len' = len /\ Reach' = Reach /\ len \in Nat /\ blkcount <= len
      /\ UNCHANGED <<call, lba, nsectors, dir>>
  BY <1>1, <1>3, <1>4, LenIs DEF len, Reach, infoVars, finishRest, Phases, Moving
<1>7. moved = len - blkcount /\ moved' = moved + Count
  BY <1>1, <1>4, <1>5, <1>6 DEF moved, Moving
<1>8. from' = from /\ from + buf = lba + moved /\ from \in Nat
  BY <1>1, <1>3, <1>4, <1>5, <1>6, <1>7 DEF from, Placed
<1>9. Phases'
  BY <1>1, <1>4, <1>5, <1>6 DEF Phases
<1>10. buf' - moved' = buf - moved
  BY <1>1, <1>4, <1>5, <1>6, <1>7
<1>11. ASSUME Held' <= buf', mem' = Pairs(from, buf' - Held') PROVE Placed'
  BY <1>1, <1>3, <1>6, <1>8, <1>10, <1>11 DEF Placed, Pairs
<1>12. drv'.state = "dma" => (drv'.out <=> dir' = "out")
  BY <1>1, <1>3, <1>6 DEF InFlight, Moving
<1>13. CASE dir = "in"
  <2>1. /\ FromFifo /\ Reading /\ Held = 0 /\ Held' = 0
    BY <1>1, <1>3, <1>6, <1>13 DEF ToFifo, InFlight, Moving, Held
  <2>2. Count = k /\ k <= blkcount
    BY <1>4, <1>13, <2>1 DEF Count, Smaller, dma_stat, Reading
  <2>3. fifo' = <<>>
    <3>1. SubSeq(fifo, k + 1, k) = <<>>
      BY <1>4, SubSeqEmpty
    <3> QED BY <2>1, <2>2, <3>1 DEF FromFifo
  <2>4. mem' = Pairs(from, buf + k)
    <3>1. fifo = Sectors(from + buf, k)
      BY <1>8, <2>1 DEF Reading
    <3>2. ASSUME NEW i \in 1 .. k PROVE fifo[i] = from + buf + i - 1
      <4> DEFINE first == from + buf
      <4>1. first \in Nat /\ k \in Nat /\ fifo = Sectors(first, k)
        BY <1>4, <1>8, <3>1
      <4> HIDE DEF first
      <4>2. fifo[i] = first + i - 1
        BY <4>1, SectorsIs
      <4> QED BY <4>2 DEF first
    <3>3. [i \in 1 .. Count |-> <<buf + i, fifo[i]>>]
            = [i \in 1 .. k |-> <<buf + i, from + buf + i - 1>>]
      BY <2>2, <3>2
    <3>4. mem = Pairs(from, buf)
      BY <1>3, <1>4, <2>1 DEF Placed
    <3>5. mem' = Pairs(from, buf) \o [i \in 1 .. k |-> <<buf + i, from + buf + i - 1>>]
      BY <2>1, <3>3, <3>4 DEF FromFifo
    <3> QED BY <1>4, <1>8, <3>5, PairsJoin
  <2>5. Placed'
    <3>1. buf' = buf + k /\ buf' - Held' = buf + k /\ Held' <= buf'
      BY <1>1, <1>4, <2>1, <2>2
    <3> QED BY <1>11, <2>4, <3>1
  <2>6. Reading'
    <3>1. Len(fifo') = 0
      BY <2>3
    <3>2. lba' + moved' \in Nat
      BY <1>4, <1>5, <1>6, <1>7
    <3>3. fifo' = Sectors(lba' + moved', Len(fifo'))
      BY <2>3, <3>1, <3>2, SectorsNone
    <3>4. drv'.state = "dma" => /\ drv'.addr = lba' + moved' + Len(fifo')
                               /\ drv'.left = blkcount' - Len(fifo')
      BY <1>1, <1>4, <1>6, <1>7, <2>1, <2>2, <3>1 DEF Reading
    <3> QED BY <1>1, <1>4, <1>5, <3>1, <3>3, <3>4 DEF Reading
  <2>7. InFlight'
    BY <1>6, <1>12, <1>13, <2>6 DEF InFlight
  <2> QED BY <1>9, <2>5, <2>7
<1>14. CASE dir = "out"
  <2>1. /\ ToFifo /\ Writing /\ Held = k /\ k <= buf
    BY <1>1, <1>3, <1>14 DEF FromFifo, InFlight, Moving, Held, Placed
  <2>2. fifo' = Sectors(buf - k + 1, k + Count)
    <3>1. buf - k + 1 \in Nat /\ buf - k + 1 + k = buf + 1
      BY <1>4, <2>1
    <3>2. [i \in 1 .. Count |-> buf + i] = Sectors(buf + 1, Count)
      <4>1. \A i \in 1 .. Count : buf + i = buf + 1 + i - 1
        BY <1>4, <1>5
      <4> QED BY <4>1 DEF Sectors
    <3>3. fifo' = Sectors(buf - k + 1, k) \o Sectors(buf - k + 1 + k, Count)
      BY <2>1, <3>1, <3>2 DEF ToFifo, Writing
    <3> QED BY <1>4, <1>5, <3>1, <3>3, SectorsJoin
  <2>3. Len(fifo') = k + Count
    <3>1. buf - k + 1 \in Nat /\ k + Count \in Nat
      BY <1>4, <1>5, <2>1
    <3> QED BY <2>2, <3>1, SectorsIs
  <2>4. Held' = k + Count /\ buf' - Held' = buf - k
    BY <1>1, <1>4, <1>5, <1>6, <1>14, <2>3 DEF Held, Moving
  <2>5. Placed'
    <3>1. mem' = Pairs(from, buf - k)
      BY <1>3, <2>1 DEF ToFifo, Placed
    <3>2. Held' <= buf'
      BY <1>1, <1>4, <1>5, <2>1, <2>4
    <3> QED BY <1>11, <2>4, <3>1, <3>2
  <2>6. Writing'
    <3>1. fifo' = Sectors(buf' - Len(fifo') + 1, Len(fifo'))
      <4>1. buf' - Len(fifo') + 1 = buf - k + 1
        BY <1>1, <1>4, <1>5, <2>3
      <4> QED BY <2>2, <2>3, <4>1
    <3>2. drv'.state \in {"dma", "ready"}
      BY <1>1, <2>1 DEF Writing
    <3>3. drv'.state = "dma" => /\ drv'.addr = from' + buf' - Len(fifo')
                               /\ drv'.left = blkcount' + Len(fifo')
      BY <1>1, <1>4, <1>5, <1>8, <2>1, <2>3 DEF Writing
    <3>4. ~(drv'.state = "ready" /\ ~drv'.err)
      BY <1>1, <1>4, <2>1 DEF Writing
    <3> QED BY <3>1, <3>2, <3>3, <3>4 DEF Writing
  <2>7. InFlight'
    BY <1>6, <1>12, <1>14, <2>6 DEF InFlight
  <2> QED BY <1>9, <2>5, <2>7
<1> QED BY <1>4, <1>13, <1>14

LEMMA ExactThread ==
  ASSUME TypeOK, Scripts, Drive, Exact, Quiet, Thread
  PROVE  Exact'
<1> USE DEF Goto, startRest, finishRest
<1>0. blkcount \in Nat /\ Len(fifo) \in Nat /\ (Len(fifo) = 0 => fifo = <<>>)
  BY DEF TypeOK, ThreadTypes, HardwareTypes
<1>1. CASE IoStart \/ \E ok \in BOOLEAN : Select(ok) \/ Arm(ok)
  <2>1. /\ apc \in {"start", "select", "arm"} /\ UNCHANGED <<blkcount, drv, startRest>>
        /\ apc' \in {"select", "arm", "issue"} \/ (apc' = "done" /\ res' # "ok")
    BY <1>1 DEF IoStart, Select, Arm
  <2>2. Counted' => Counted /\ apc' # "done"
    BY <2>1 DEF Counted, Ok
  <2> QED BY <1>0, <2>1, <2>2, ExactSame DEF infoVars, Moving
<1>2. CASE Issue
  <2>0. drv'.out = (command = "dma" /\ dir = "out")
    BY <1>2 DEF Issue, Drive
  <2>1. /\ apc = "issue" /\ apc' = "finish"
        /\ UNCHANGED <<call, lba, nsectors, buf, mem, fifo, lba_48bit, dir, abandoned>>
        /\ command = "dma" => /\ blkcount' = len /\ drv'.left = DriveCount
                              /\ drv'.addr = DriveAddress /\ drv'.state = "dma"
    BY <1>2 DEF Issue, infoVars, Drive
  <2> SUFFICES ASSUME Counted' PROVE Placed' /\ Phases' /\ InFlight'
    BY <2>1 DEF Exact
  <2>2. Counted /\ command = "dma"
    BY <2>1 DEF Counted, Scripts, Active
  <2>3. Placed /\ fifo = <<>>
    BY <2>1, <2>2 DEF Exact, Phases
  <2>4. len' = len /\ Reach' = Reach /\ len \in Nat /\ lba \in Nat /\ nsectors \in Nat /\ nsectors > 0
    BY <2>1, <2>3, LenIs DEF len, Reach, TypeOK, ThreadTypes, Placed
  <2>5. moved = 0 /\ moved' = 0
    BY <2>1, <2>2, <2>4 DEF moved, Moving
  <2>6. from' = from
    BY <2>1, <2>5 DEF from
  <2>7. DriveAddress = lba /\ DriveCount = len
    BY <2>3, <2>4, RegistersRead DEF Placed
  <2>11. Held = 0 /\ Held' = 0
    <3>1. Len(<<>>) = 0
      OBVIOUS
    <3> QED BY <2>1, <2>3, <3>1 DEF Held, Moving
  <2>8. Placed'
    BY <2>1, <2>3, <2>4, <2>5, <2>6, <2>11 DEF Placed, Pairs
  <2>9. Phases'
    BY <2>1, <2>2, <2>4 DEF Phases, Moving
  <2>10. InFlight'
    <3>1. fifo' = <<>> /\ Len(fifo') = 0
      BY <2>1, <2>3
    <3>2. fifo' = Sectors(lba' + moved', Len(fifo'))
      BY <2>1, <2>4, <2>5, <3>1, SectorsNone
    <3>3. /\ blkcount' = len /\ drv'.left = len /\ drv'.addr = lba
      BY <2>1, <2>2, <2>7
    <3>4. Reading'
      BY <2>1, <2>4, <2>5, <3>1, <3>2, <3>3 DEF Reading
    <3>5. buf \in Nat /\ from + buf = lba
      BY <2>4, <2>5 DEF from, TypeOK, ThreadTypes
    <3>6. Sectors(buf' - Len(fifo') + 1, Len(fifo')) = <<>>
      BY <2>1, <3>1, <3>5, SectorsNone
    <3>7. drv'.state = "dma"
      BY <2>1, <2>2
    <3>8. drv'.addr = from' + buf' - Len(fifo')
      BY <2>1, <2>4, <2>6, <3>1, <3>3, <3>5
    <3>9. drv'.left = blkcount' + Len(fifo')
      BY <2>4, <3>1, <3>3
    <3>10. Writing'
      BY <3>1, <3>6, <3>7, <3>8, <3>9 DEF Writing
    <3> QED BY <2>0, <2>1, <2>2, <3>4, <3>10 DEF InFlight
  <2> QED BY <2>8, <2>9, <2>10
<1>3. CASE Finish
  <2>1. /\ apc = "finish" /\ UNCHANGED <<res, buf, blkcount, hwVars, mem, finishRest>>
        /\ apc' \in {"wait", "dma", "pio"} /\ (command = "dma" => apc' = "dma")
    BY <1>3 DEF Finish, NonData
  <2>2. call = "transfer" => apc' = "dma"
    BY <2>1 DEF Scripts, Active
  <2>3. Counted' => Counted
    BY <2>1 DEF Counted
  <2> QED BY <1>0, <2>1, <2>2, <2>3, ExactSame DEF infoVars, hwVars, Moving, Counted
<1>4. CASE WaitNonData \/ PioWait \/ PioBlock
  <2>1. /\ apc \in {"wait", "pio", "pio_block"} /\ apc' # "idle" /\ UNCHANGED call
    BY <1>4 DEF WaitNonData, PioWait, PioBlock
  <2> QED BY <2>1 DEF Exact, Counted
<1>5. ASSUME NEW ok \in BOOLEAN, DmaMove(ok) PROVE Exact'
  <2>1. CASE ok
    BY <1>5, <2>1, ExactMove
  <2>2. CASE ~ok
    <3>1. /\ UNCHANGED <<mem, buf, blkcount, fifo, drv, finishRest>> /\ apc = "dma" /\ apc' = "clean"
          /\ res' = "dma error"
      BY <1>5, <2>2 DEF DmaMove
    <3>2. Counted' => Counted
      BY <3>1 DEF Counted
    <3> QED BY <1>0, <3>1, <3>2, ExactSame DEF infoVars, Moving, Ok
  <2> QED BY <2>1, <2>2
<1>6. CASE DmaSleep \/ DmaWake \/ DmaEnd \/ DmaEndWake
  <2>1. /\ apc \in {"dma", "dma_wait", "dma_end"} /\ UNCHANGED <<call, buf, blkcount, drv, fifo, mem, finishRest>>
        /\ \/ apc' \in {"dma_wait", "dma"}
           \/ apc' \in {"status", "dma_end"} /\ apc = "dma" /\ blkcount = 0
           \/ apc' = "status" /\ apc = "dma_end"
           \/ apc' = "clean" /\ res' # "ok"
    BY <1>6 DEF DmaSleep, DmaWake, DmaEnd, DmaEndWake, hwVars
  <2>2. Counted' => Counted
    BY <2>1 DEF Counted
  <2>3. Counted /\ apc = "dma_end" => blkcount = 0
    BY DEF Exact, Phases
  <2> QED BY <1>0, <2>1, <2>2, <2>3, ExactSame DEF infoVars, Moving, Ok
<1>7. CASE Status
  <2>1. /\ apc = "status" /\ apc' = "clean" /\ drv' = [drv EXCEPT !.irq = FALSE]
        /\ UNCHANGED <<buf, blkcount, fifo, mem, finishRest>>
    BY <1>7 DEF Status
  <2>2. /\ drv'.state = drv.state /\ drv'.addr = drv.addr /\ drv'.left = drv.left
        /\ drv'.out = drv.out /\ drv'.err = drv.err
    BY <2>1 DEF Drive
  <2>3. Counted' => Counted
    BY <2>1 DEF Counted
  <2>4. Counted => blkcount = 0
    BY <2>1 DEF Exact, Phases
  <2> QED BY <1>0, <2>1, <2>2, <2>3, <2>4, ExactSame DEF infoVars, Moving
<1>8. CASE Clean
  <2>1. /\ apc = "clean" /\ apc' = "done" /\ (abandoned => abandoned')
        /\ UNCHANGED <<call, res, lba, nsectors, buf, blkcount, infoVars, hwVars, mem>>
    BY <1>8 DEF Clean
  <2>2. (Counted' => Counted) /\ (Ok' <=> Ok)
    BY <2>1 DEF Counted, Ok
  <2>3. Counted /\ Ok => blkcount = 0
    BY <2>1 DEF Exact, Phases
  <2>4. Counted /\ Ok /\ dir = "out" => Len(fifo) = 0
    <3> SUFFICES ASSUME Counted, Ok, dir = "out" PROVE Len(fifo) = 0
      OBVIOUS
    <3>1. Writing
      BY <2>1 DEF Exact, InFlight, Moving
    <3>2. drv.state = "ready" /\ ~drv.err
      BY <2>1 DEF Drive, Ok
    <3>3. fifo = <<>>
      BY <3>1, <3>2 DEF Writing
    <3> QED BY <3>3
  <2> QED BY <1>0, <2>1, <2>2, <2>3, <2>4, ExactSame DEF infoVars, hwVars, Moving, Counted
<1>9. CASE Done
  <2>1. /\ apc = "done" /\ UNCHANGED <<call, buf, blkcount, mem, drv, abandoned>>
        /\ script' = Following /\ apc' = (IF Following = <<>> THEN "return" ELSE "start")
        /\ fifo' = (IF Following # <<>> /\ Head(Following) = "dma" THEN <<>> ELSE fifo)
        /\ ret' = Returned
    BY <1>9 DEF Done, Run, SetDir, opRest, callRest
  <2> SUFFICES ASSUME Counted' PROVE Placed' /\ Phases' /\ InFlight'
    BY <2>1 DEF Exact
  <2>2. call = "transfer" /\ command = "dma" /\ script # <<>> /\ ~abandoned
    BY <2>1 DEF Counted, Scripts, Active
  <2>3. Ok
    <3> SUFFICES ASSUME ~Ok PROVE FALSE
      OBVIOUS
    <3>1. Following = <<>>
      BY <2>2 DEF Following
    <3>2. apc' = "return" /\ ret' = res
      BY <2>1, <2>2, <3>1 DEF Returned
    <3> QED BY <3>2 DEF Counted, Ok
  <2>4. Counted /\ Placed /\ blkcount = 0
    BY <2>1, <2>2, <2>3 DEF Counted, Exact, Phases
  <2>13. Held = 0 /\ Held' = 0
    BY <2>1 DEF Held, Moving
  <2>5. /\ lba' = lba + len /\ nsectors' = nsectors - len /\ lba_48bit' = lba_48bit
        /\ Following = IF nsectors > len THEN script ELSE <<>>
    BY <1>9, <2>2, <2>3 DEF Done, NextLba, Following
  <2>6. /\ lba \in Nat /\ nsectors \in Nat /\ buf \in Nat /\ len \in Nat /\ len <= nsectors
        /\ (~(nsectors > len) => len = nsectors) /\ Reach' = Reach
    BY <2>5, LenIs DEF TypeOK, ThreadTypes, Reach
  <2>7. moved = len /\ moved' = 0
    BY <2>1, <2>4, <2>6 DEF moved, Moving
  <2>8. from' = from /\ buf' - moved' + nsectors' = buf - moved + nsectors
    BY <2>1, <2>5, <2>6, <2>7 DEF from
  <2>9. nsectors' = 0 <=> apc' = "return"
    BY <2>1, <2>2, <2>5, <2>6
  <2>10. Placed'
    BY <2>1, <2>4, <2>5, <2>6, <2>8, <2>9, <2>13 DEF Placed, Pairs
  <2>11. apc' = "start" => fifo' = <<>>
    BY <2>1, <2>2, <2>5 DEF command
  <2>12. Phases' /\ InFlight'
    BY <2>1, <2>11 DEF Phases, InFlight, Moving
  <2> QED BY <2>10, <2>12
<1>10. CASE Return
  BY <1>10 DEF Return, Exact, Counted
<1> QED BY <1>1, <1>2, <1>3, <1>4, <1>5, <1>6, <1>7, <1>8, <1>9, <1>10 DEF Thread

LEMMA QuietThread ==
  ASSUME TypeOK, Scripts, Drive, Quiet, Thread
  PROVE  Quiet'
<1> USE DEF Goto, startRest, finishRest
<1>1. CASE IoStart \/ \E ok \in BOOLEAN : Select(ok) \/ Arm(ok)
  BY <1>1 DEF IoStart, Select, Arm, Quiet, Moving
<1>2. CASE Issue
  <2>1. apc' = "finish" /\ script' = script /\ drv'.state = (IF command = "dma" THEN "dma" ELSE "busy")
    BY <1>2 DEF Issue, Drive
  <2>2. command' = command
    BY <2>1 DEF command
  <2> QED BY <2>1, <2>2 DEF Quiet, Moving
<1>3. CASE Finish \/ (\E ok \in BOOLEAN : DmaMove(ok)) \/ DmaSleep \/ DmaWake \/ DmaEnd \/ DmaEndWake
  <2>1. /\ UNCHANGED <<script, drv, abandoned>> /\ apc \in Moving
        /\ apc' \in {"wait", "pio"} => command # "dma"
        /\ apc' \in Moving \cup {"wait", "pio"}
    BY <1>3 DEF Finish, DmaMove, DmaSleep, DmaWake, DmaEnd, DmaEndWake, hwVars, Moving, NonData
  <2>2. command' = command
    BY <2>1 DEF command
  <2> QED BY <2>1, <2>2 DEF Quiet
<1>4. CASE WaitNonData \/ PioWait
  BY <1>4 DEF WaitNonData, PioWait, hwVars, Quiet, Moving
<1>5. CASE PioBlock
  <2>1. /\ apc = "pio_block" /\ UNCHANGED abandoned
        /\ \/ drv' = drv
           \/ drv' = [drv EXCEPT !.state = "ready", !.cmd = "none", !.left = 0, !.done = TRUE]
           \/ drv' = [drv EXCEPT !.state = "busy", !.left = 0]
    BY <1>5 DEF PioBlock
  <2>2. drv' = drv \/ drv'.state # "dma"
    <3>1. CASE drv' = [drv EXCEPT !.state = "ready", !.cmd = "none", !.left = 0, !.done = TRUE]
      <4>1. drv'.state = "ready"
        BY <3>1 DEF Drive
      <4> QED BY <4>1
    <3>2. CASE drv' = [drv EXCEPT !.state = "busy", !.left = 0]
      <4>1. drv'.state = "busy"
        BY <3>2 DEF Drive
      <4> QED BY <4>1
    <3> QED BY <2>1, <3>1, <3>2
  <2> QED BY <2>1, <2>2 DEF Quiet, Moving
<1>6. CASE Status
  <2>1. /\ UNCHANGED <<script, abandoned>> /\ apc' = "clean" /\ drv' = [drv EXCEPT !.irq = FALSE]
    BY <1>6 DEF Status
  <2>2. drv'.state = drv.state /\ drv'.left = drv.left /\ command' = command
    BY <2>1 DEF Drive, command
  <2> QED BY <2>1, <2>2 DEF Quiet, Moving
<1>7. CASE Clean
  BY <1>7 DEF Clean, hwVars, Quiet
<1>8. CASE Done \/ Return
  <2>1. apc \in {"done", "return"} /\ UNCHANGED <<drv, abandoned>>
    BY <1>8 DEF Done, Return, opRest, callRest
  <2> QED BY <2>1 DEF Quiet, Moving
<1> QED BY <1>1, <1>2, <1>3, <1>4, <1>5, <1>6, <1>7, <1>8 DEF Thread

LEMMA DriveStops ==
  ASSUME Drive, DriveEnds \/ DriveFails \/ DriveAsks
  PROVE  /\ drv'.state # "dma"
         /\ \/ drv.state = "busy"
            \/ drv.state = "dma" /\ drv'.state = "ready" /\ (drv'.err \/ drv.left = 0)
<1>0. ASSUME NEW err, NEW sec, drv' = Ended(err, sec) PROVE drv'.state = "ready" /\ drv'.err = err
  BY <1>0 DEF Ended, Drive
<1>1. CASE DriveEnds
  <2>1. PICK sec : drv' = Ended(FALSE, sec)
    BY <1>1 DEF DriveEnds
  <2> QED BY <1>0, <1>1, <2>1 DEF DriveEnds
<1>2. CASE DriveFails
  <2>1. drv'.state = "ready" /\ drv'.err = TRUE /\ (drv.state = "busy" \/ drv.state = "dma")
    BY <1>0, <1>2 DEF DriveFails, Busy
  <2> QED BY <2>1
<1>3. CASE DriveAsks
  <2>1. drv.state = "busy" /\ drv'.state = "drq"
    BY <1>3 DEF DriveAsks, Drive
  <2> QED BY <2>1
<1> QED BY <1>1, <1>2, <1>3

LEMMA ExactBegins ==
  ASSUME NEW r \in Requests, NEW d, Addressable(r), DmaTransfer(r[1], r[2], d)
  PROVE  Exact'
<1>1. r \in Nat \X Nat
  BY Constants
<1>2. r = <<r[1], r[2]>> /\ r[1] \in Nat /\ r[2] \in Nat
  BY <1>1
<1>3. /\ call' = "transfer" /\ lba' = r[1] /\ nsectors' = r[2] /\ buf' = 0 /\ mem' = <<>>
      /\ UNCHANGED lba_48bit
      /\ apc' = (IF r[2] = 0 THEN "return" ELSE "start")
      /\ r[2] # 0 => fifo' = <<>>
  <2>1. CASE r[2] = 0
    BY <2>1 DEF DmaTransfer, Call, Run, Goto
  <2>2. CASE r[2] # 0
    <3> DEFINE s == <<"dma">>
    <3>1. s # <<>> /\ Head(s) = "dma"
      OBVIOUS
    <3>2. Call("transfer", s) /\ lba' = r[1] /\ nsectors' = r[2]
      BY <2>2 DEF DmaTransfer
    <3> HIDE DEF s
    <3> QED BY <2>2, <3>1, <3>2 DEF Call, Run, Goto, SetDir
  <2> QED BY <2>1, <2>2
<1>4. moved' = 0 /\ Held' = 0
  BY <1>3 DEF moved, Held, Moving
<1>5. from' = r[1]
  BY <1>2, <1>3, <1>4 DEF from
<1>6. buf' - Held' = 0 /\ Held' <= buf'
  BY <1>3, <1>4
<1>7. mem' = Pairs(from', buf' - Held')
  BY <1>2, <1>3, <1>5, <1>6, PairsNone
<1>8. lba' + nsectors' <= Reach'
  BY <1>3 DEF Addressable, Reach, Shift24, Shift16
<1>9. Placed'
  <2>1. buf' - moved' + nsectors' = r[2]
    BY <1>2, <1>3, <1>4
  <2> QED BY <1>2, <1>3, <1>5, <1>6, <1>7, <1>8, <2>1 DEF Placed
<1>10. Phases' /\ InFlight'
  BY <1>3 DEF Phases, InFlight, Moving
<1> QED BY <1>3, <1>9, <1>10 DEF Exact

\* The drive moves a sector.
LEMMA ExactMoves ==
  ASSUME TypeOK, Drive, Exact, Quiet, DriveMoves
  PROVE  Exact'
<1>1. /\ UNCHANGED <<apc, call, res, ret, lba, nsectors, buf, blkcount, lba_48bit, dir, abandoned>>
      /\ drv.state = "dma" /\ drv.left > 0 /\ drv' = Moved
  BY DEF DriveMoves, DriveReads, DriveWrites, driveRest, others, threadVars, infoVars
<1>2. (Counted' <=> Counted) /\ len' = len /\ Reach' = Reach
  BY <1>1 DEF Counted, Ok, len, Reach
<1> SUFFICES ASSUME Counted' PROVE Placed' /\ Phases' /\ InFlight'
  BY <1>1 DEF Exact
<1>3. Placed /\ Phases /\ InFlight /\ apc \in Moving
  BY <1>1, <1>2 DEF Exact, Quiet, Counted
<1>4. moved' = moved
  BY <1>1, <1>2 DEF moved
<1>5. from' = from
  BY <1>1, <1>4 DEF from
<1> DEFINE k == Len(fifo)
<1>6. /\ fifo \in Seq(Nat) /\ k \in Nat /\ lba \in Nat /\ nsectors \in Nat /\ blkcount \in Nat
      /\ len \in Nat /\ drv.left \in Nat /\ drv.addr \in Nat /\ buf \in Nat
  BY LenIs DEF TypeOK, ThreadTypes, HardwareTypes, Drives
<1>7. /\ drv'.state = "dma" /\ drv'.out = drv.out /\ drv'.err = drv.err
      /\ drv'.addr = drv.addr + 1 /\ drv'.left = drv.left - 1
  BY <1>1 DEF Drive, Moved
<1>8. moved \in Nat /\ from \in Nat
  BY <1>3, <1>6 DEF moved, Phases, Placed
<1>9. (drv.out <=> dir = "out") /\ (drv'.out <=> dir' = "out")
  BY <1>1, <1>3, <1>7 DEF InFlight
<1>10. ASSUME fifo' = <<>> => blkcount' = blkcount PROVE Phases'
  BY <1>1, <1>2, <1>3 DEF Phases, Moving, Ok
<1>11. Phases'
  BY <1>1, <1>10
<1>12. CASE DriveReads
  <2>1. /\ dir = "in" /\ dir' = "in" /\ mem' = mem /\ fifo' = Append(fifo, drv.addr)
    BY <1>1, <1>12 DEF DriveReads
  <2>2. fifo = Sectors(lba + moved, k) /\ drv.addr = lba + moved + k /\ drv.left = blkcount - k
    BY <1>1, <1>3, <2>1 DEF InFlight, Reading
  <2>3. Len(fifo') = k + 1
    BY <1>6, <2>1
  <2>4. fifo' = Sectors(lba + moved, k + 1)
    <3>1. lba + moved \in Nat
      BY <1>6, <1>8
    <3> QED BY <1>6, <2>1, <2>2, <3>1, SectorsNext
  <2>5. Placed'
    <3>1. Held = 0 /\ Held' = 0
      BY <2>1 DEF Held
    <3> QED BY <1>1, <1>2, <1>3, <1>4, <1>5, <2>1, <3>1 DEF Placed, Pairs
  <2>6. Reading'
    <3>1. /\ Len(fifo') <= blkcount' /\ drv'.addr = lba' + moved' + Len(fifo')
          /\ drv'.left = blkcount' - Len(fifo')
      BY <1>1, <1>4, <1>6, <1>7, <1>8, <2>2, <2>3
    <3>2. fifo' = Sectors(lba' + moved', Len(fifo'))
      BY <1>1, <1>4, <2>3, <2>4
    <3> QED BY <3>1, <3>2 DEF Reading
  <2>7. InFlight'
    BY <1>9, <2>1, <2>6 DEF InFlight
  <2> QED BY <1>11, <2>5, <2>7
<1>13. CASE DriveWrites
  <2>1. /\ dir = "out" /\ dir' = "out" /\ fifo # <<>> /\ fifo' = Tail(fifo)
        /\ mem' = Append(mem, <<Head(fifo), drv.addr>>)
    BY <1>1, <1>13 DEF DriveWrites
  <2>2. Writing /\ Held = k /\ k <= buf /\ mem = Pairs(from, buf - k)
    BY <1>3, <2>1 DEF InFlight, Held, Placed
  <2>3. /\ fifo = Sectors(buf - k + 1, k) /\ drv.addr = from + buf - k /\ drv.left = blkcount + k
    BY <1>1, <2>2 DEF Writing
  <2>4. k > 0 /\ buf - k \in Nat /\ buf - k + 1 \in Nat
    BY <1>6, <2>1, <2>2
  <2>5. Len(fifo') = k - 1
    BY <1>6, <2>1, <2>4
  <2>6. Head(fifo) = buf - k + 1 /\ Tail(fifo) = Sectors(buf - k + 1 + 1, k - 1)
    BY <1>6, <2>3, <2>4, SectorsFirst
  <2>7. Held' = k - 1
    BY <1>1, <1>3, <2>1, <2>5 DEF Held
  <2>8. mem' = Pairs(from, buf - k + 1)
    <3>1. drv.addr = from + (buf - k)
      BY <1>6, <1>8, <2>3
    <3>2. mem' = Append(Pairs(from, buf - k), <<buf - k + 1, from + (buf - k)>>)
      BY <2>1, <2>2, <2>6, <3>1
    <3> QED BY <1>8, <2>4, <3>2, PairsNext
  <2>9. Placed'
    <3>1. buf' - Held' = buf - k + 1 /\ Held' <= buf'
      BY <1>1, <1>6, <2>2, <2>7
    <3> QED BY <1>1, <1>2, <1>3, <1>4, <1>5, <2>8, <3>1 DEF Placed, Pairs
  <2>10. Writing'
    <3>1. buf' - Len(fifo') + 1 = buf - k + 1 + 1
      BY <1>1, <1>6, <2>5
    <3>2. fifo' = Sectors(buf' - Len(fifo') + 1, Len(fifo'))
      BY <2>1, <2>5, <2>6, <3>1
    <3>3. drv'.addr = from' + buf' - Len(fifo') /\ drv'.left = blkcount' + Len(fifo')
      BY <1>1, <1>5, <1>6, <1>7, <1>8, <2>3, <2>5
    <3> QED BY <1>7, <3>2, <3>3 DEF Writing
  <2>11. InFlight'
    BY <1>9, <2>1, <2>10 DEF InFlight
  <2> QED BY <1>11, <2>9, <2>11
<1> QED BY <1>12, <1>13 DEF DriveMoves

LEMMA ExactOthers ==
  ASSUME TypeOK, Drive, Exact, Quiet, Caller \/ Hardware \/ UNCHANGED vars
  PROVE  Exact'
<1>0. blkcount \in Nat /\ Len(fifo) \in Nat /\ (Len(fifo) = 0 => fifo = <<>>)
  BY DEF TypeOK, ThreadTypes, HardwareTypes
<1>1. CASE Caller
  <2>1. CASE \E r \in Requests, d \in {"in", "out"} : Addressable(r) /\ DmaTransfer(r[1], r[2], d)
    BY <2>1, ExactBegins
  <2>2. CASE GetDevinfo \/ Simple \/ SetPassword \/ Unlock \/ Erase
    <3>1. call' # "transfer" /\ apc' # "idle"
      BY <2>2 DEF GetDevinfo, DevinfoKnown, BusStuck, NoDrive, SelectFails, DriveFound, Devinfo,
         Simple, SetPassword, Unlock, Erase, Call, Run, Goto
    <3> QED BY <3>1 DEF Exact, Counted
  <2> QED BY <1>1, <2>1, <2>2 DEF Caller
<1>2. CASE Interrupt \/ Alarm \/ NewCard \/ DriveEnds \/ DriveFails \/ DriveAsks \/ UNCHANGED vars
  <2>1. UNCHANGED <<apc, call, res, ret, lba, nsectors, buf, blkcount, mem, fifo, lba_48bit, dir,
                    abandoned>>
    BY <1>2 DEF Interrupt, Alarm, NewCard, DriveEnds, DriveFails, DriveAsks, others, threadVars,
       infoVars, hwVars, histVars, driveRest, vars
  <2>2. /\ drv' = drv \/ drv'.state # "dma"
        /\ \/ drv' = drv
           \/ drv.state = "busy"
           \/ drv.state = "dma" /\ drv'.state = "ready" /\ (drv'.err \/ drv.left = 0)
    BY <1>2, DriveStops DEF Interrupt, Alarm, NewCard, others, hwVars, vars
  <2>3. (Counted' <=> Counted) /\ (Ok' <=> Ok)
    BY <2>1 DEF Counted, Ok
  <2>4. call = "transfer" => apc \notin {"wait", "pio", "pio_block"}
    BY DEF Exact
  <2>5. Counted /\ (apc \in {"dma_end", "status"} \/ (apc \in {"clean", "done"} /\ Ok)) => blkcount = 0
    BY DEF Exact, Phases
  <2> QED BY <1>0, <2>1, <2>2, <2>3, <2>4, <2>5, ExactSame
<1>3. CASE DriveMoves
  BY <1>3, ExactMoves
<1> QED BY <1>1, <1>2, <1>3 DEF Hardware

LEMMA QuietOthers ==
  ASSUME TypeOK, Drive, Exact, Quiet, Caller \/ Hardware \/ UNCHANGED vars
  PROVE  Quiet'
<1>1. CASE Caller
  <2>1. apc = "idle" /\ UNCHANGED abandoned /\ drv' \in {drv, Reset}
    BY <1>1, CallerIs DEF callRest
  <2>2. drv' = drv \/ drv'.state # "dma"
    <3>1. CASE drv' = Reset
      <4>1. drv'.state = "ready"
        BY <3>1 DEF Reset, Drive
      <4> QED BY <4>1
    <3> QED BY <2>1, <3>1
  <2> QED BY <2>1, <2>2 DEF Quiet, Moving
<1>2. CASE Hardware \/ UNCHANGED vars
  <2>1. UNCHANGED <<apc, script, abandoned>>
    BY <1>2 DEF Hardware, Interrupt, Alarm, NewCard, DriveEnds, DriveFails, DriveAsks, DriveMoves, DriveReads, DriveWrites, Moved, others,
       threadVars, driveRest, histVars, vars
  <2>2. \/ drv' = drv \/ drv'.state # "dma"
        \/ drv.state = "dma" /\ drv.left > 0
    BY <1>2, DriveStops DEF Hardware, Interrupt, Alarm, NewCard, DriveMoves, DriveReads, DriveWrites, Moved, others, hwVars, vars
  <2>3. command' = command
    BY <2>1 DEF command
  <2> QED BY <2>1, <2>2, <2>3 DEF Quiet
<1> QED BY <1>1, <1>2

\* A transfer that returns 0 has moved every sector asked for, each to its
\* place in the buffer or from it to its place on the drive, whatever its size,
\* the width of the registers and the FIFO's, and however the drive fills or
\* empties the FIFO while the driver does the other.
THEOREM TransferExactAlways == Spec => []TransferExact
<1>1. TypeOK /\ Scripts /\ Drive /\ Exact /\ Quiet /\ [Next]_vars => Exact' /\ Quiet'
  BY ExactThread, QuietThread, ExactOthers, QuietOthers DEF Next
<1>2. TypeOK /\ Exact => TransferExact
  <2> SUFFICES ASSUME TypeOK, Exact, apc = "return", call = "transfer", ret = "ok", ~abandoned
               PROVE  /\ <<lba - buf, buf>> \in Requests
                      /\ mem = [i \in 1 .. buf |-> <<i, lba - buf + i - 1>>]
    BY DEF TransferExact
  <2>1. Placed
    BY DEF Exact, Counted
  <2>2. moved = 0 /\ nsectors = 0 /\ Held = 0
    BY <2>1 DEF moved, Moving, Placed, Held
  <2>3. from = lba - buf /\ buf - moved + nsectors = buf /\ buf - Held = buf
    BY <2>2 DEF from, TypeOK, ThreadTypes
  <2> QED BY <2>1, <2>3 DEF Placed, Pairs
<1> QED BY <1>1, <1>2, TransferInit, TypeCorrect, SecurityAlways, PTL DEF Spec
=============================================================================
