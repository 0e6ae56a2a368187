------------------------------- MODULE UdpBd -------------------------------
(***************************************************************************)
(* The UDPBD block device driver (udpbd.c): commands numbered modulo 8,    *)
(* one reply stream per command, a single event flag for every outcome.    *)
(*                                                                         *)
(* Three activities interleave: the file system's thread in udpbd_read or  *)
(* udpbd_write (pc), the receive thread in udpbd_isr (the Isr actions) and *)
(* the alarm interrupt (AlarmFires).  The receive thread has a higher      *)
(* priority than the file system's: it runs udpbd_isr to its end before    *)
(* pc moves.  The alarm interrupts both, and it writes the g_read_size     *)
(* that _cmd_read_rdma counts down, so that function is three steps (isr). *)
(* The server and the network are outside the source: whatever a recent    *)
(* request entitles the server to send may arrive at any time, in any      *)
(* order, any number of times or never.                                    *)
(*                                                                         *)
(* A block is what one _udpbd_read asks for; its data is BlockPkts reply   *)
(* packets, and g_read_size counts packets here.  g_errno is only logged   *)
(* and is left out.                                                        *)
(***************************************************************************)
EXTENDS Integers, Sequences

CONSTANTS
  CmdMod,      \* size of the command number space (8: the 3 bit cmdid)
  SizeMod,     \* where the unsigned g_read_size wraps
  BlockPkts,   \* reply packets of one block
  MaxBlocks,   \* most blocks of one udpbd_read
  MaxRetries,  \* UDPBD_MAX_RETRIES (4)
  MaxLag,      \* how many commands old an arriving packet can be
  MaxCmds,     \* bound on the commands of a run
  Writes       \* does the file system write too

ASSUME UdpBdAssumption ==
  /\ {CmdMod, SizeMod, BlockPkts, MaxBlocks, MaxRetries} \subseteq Nat \ {0}
  /\ {MaxLag, MaxCmds} \subseteq Nat
  /\ MaxLag < CmdMod /\ BlockPkts + BlockPkts < SizeMod
  /\ Writes \in BOOLEAN

DONE  == 1   \* bits of g_ev_done
ERROR == 2

VARIABLES
  cmdid,      \* g_cmdid
  connected,  \* bdm_connected
  registered, \* bdm has the device (between bdm_connect_bd and bdm_disconnect_bd)
  evDone,     \* bits of g_ev_done
  readPkt,    \* g_read_cmdpkt
  readSize,   \* g_read_size
  buffer,     \* g_buffer # NULL
  got,        \* what the buffer holds: <<command, packet>>, up to g_buffer_act
  alarm,      \* is _udpbd_timeout pending
  isr,        \* how far _cmd_read_rdma has come with a packet
  left,       \* its difference g_read_size - size, in a register
  \* the caller's thread
  pc, bits, blocks, retries, ret,
  \* history
  cmd,        \* commands so far: cmdid before its mask
  clean,      \* evDone was empty when the current command began
  misread,    \* _cmd_read_rdma took an alarm's 0 for the end of the data
  requests    \* requests the server may still be answering

dataVars == <<readPkt, readSize, buffer, got>>
bdmVars  == <<connected, registered>>
isrVars  == <<isr, left, misread>>
vars     == <<cmdid, bdmVars, evDone, dataVars, alarm, isrVars, pc, bits, blocks, retries,
              ret, cmd, clean, requests>>

ReadPCs  == {"r_arm", "r_send", "r_wait", "r_woken", "r_disc", "r_down"}
WritePCs == {"w_arm", "w_send", "w_wait", "w_woken"}

-----------------------------------------------------------------------------
(* udpbd_init has bound the socket and broadcast its INFO request *)

Init ==
  /\ cmdid = 0 /\ cmd = 0 /\ connected = FALSE /\ registered = FALSE
  /\ evDone = {} /\ alarm = FALSE
  /\ readPkt = 0 /\ readSize = 0 /\ buffer = FALSE /\ got = <<>>
  /\ pc = "idle" /\ bits = {} /\ blocks = 0 /\ retries = 0 /\ ret = "none"
  /\ clean = TRUE /\ requests = {}
  /\ isr = "idle" /\ left = 0 /\ misread = FALSE

-----------------------------------------------------------------------------
(* udpbd_read and _udpbd_read *)

\* a range inside the device, read in n blocks of at most UDPBD_MAX_SECTOR_READ
CallRead(n) ==
  /\ pc = "idle" /\ connected /\ cmd < MaxCmds
  /\ blocks' = n /\ retries' = 0 /\ ret' = "none" /\ pc' = "r_arm"
  /\ UNCHANGED <<cmdid, bdmVars, evDone, dataVars, alarm, isrVars, bits, cmd, clean, requests>>

\* (g_cmdid + 1) & 0x7
NextCmdId(n) == (n + 1) % CmdMod

\* A new command number.  Packets of commands MaxLag older no longer arrive.
NextCmd ==
  /\ cmdid' = NextCmdId(cmdid) /\ cmd' = cmd + 1
  /\ clean' = (evDone = {}) /\ misread' = FALSE
  /\ requests' = {r \in requests : r.cmd + MaxLag >= cmd + 1}

ReadArm ==
  /\ pc = "r_arm"
  /\ NextCmd
  /\ buffer' = TRUE /\ got' = <<>> /\ readSize' = BlockPkts /\ readPkt' = 1
  /\ pc' = "r_send"
  /\ UNCHANGED <<bdmVars, evDone, alarm, isr, left, bits, blocks, retries, ret>>

Request(op) == requests' = requests \cup {[cmd |-> cmd, id |-> cmdid, op |-> op]}

\* SetAlarm before the wait, and a wait without it
SetAlarmForgotten == alarm' = FALSE
SetAlarm == alarm' = TRUE

ReadSend ==
  /\ pc = "r_send"
  /\ Request("read") /\ SetAlarm /\ pc' = "r_wait"
  /\ UNCHANGED <<cmdid, bdmVars, evDone, dataVars, isrVars, bits, blocks, retries, ret, cmd,
                 clean>>

Wake(from, to) ==
  /\ pc = from /\ evDone # {}
  /\ bits' = evDone /\ evDone' = {} /\ pc' = to
  /\ UNCHANGED <<cmdid, bdmVars, dataVars, alarm, isrVars, blocks, retries, ret, cmd, clean,
                 requests>>

ReadWake == Wake("r_wait", "r_woken")

\* After the wait the alarm is cancelled and the receive state is cleared;
\* an exit that forgets the latter.
ReleaseBufferForgotten == UNCHANGED dataVars
ReleaseBuffer ==
  buffer' = FALSE /\ readSize' = 0 /\ readPkt' = 0 /\ UNCHANGED got

\* the block is there: the next one, or the end of udpbd_read
ReadOk ==
  /\ pc = "r_woken" /\ DONE \in bits
  /\ alarm' = FALSE /\ ReleaseBuffer /\ bits' = {} /\ retries' = 0 /\ blocks' = blocks - 1
  /\ \/ blocks > 1 /\ pc' = "r_arm" /\ UNCHANGED ret
     \/ blocks = 1 /\ pc' = "idle" /\ ret' = "count"
  /\ UNCHANGED <<cmdid, bdmVars, evDone, isrVars, cmd, clean, requests>>

\* DelayThread, and the block again under a new command number
Retry ==
  /\ retries' = retries + 1 /\ bits' = {}
  /\ pc' = IF retries + 1 < MaxRetries THEN "r_arm" ELSE "r_disc"
  /\ UNCHANGED <<cmdid, bdmVars, evDone, isrVars, blocks, ret, cmd, clean, requests>>

ReadFailed == pc = "r_woken" /\ DONE \notin bits /\ alarm' = FALSE /\ ReleaseBuffer /\ Retry

\* udp_packet_send < 0: g_buffer stays set
ReadSendFailed == pc = "r_send" /\ Retry /\ UNCHANGED <<alarm, dataVars>>

\* bdm_disconnect_bd, then bdm_connected = 0, and the two the other way round
TearDownSwapped == <<"bdm_connected", "bdm_disconnect_bd">>
TearDown == <<"bdm_disconnect_bd", "bdm_connected">>

Undo(what) ==
  /\ registered' = (registered /\ what # "bdm_disconnect_bd")
  /\ connected' = (connected /\ what # "bdm_connected")

ReadDisconnect ==
  /\ pc = "r_disc" /\ Undo(TearDown[1]) /\ pc' = "r_down"
  /\ UNCHANGED <<cmdid, evDone, dataVars, alarm, isrVars, bits, blocks, retries, ret, cmd,
                 clean, requests>>

ReadDown ==
  /\ pc = "r_down" /\ Undo(TearDown[2]) /\ pc' = "idle"
  /\ ret' = "EIO" /\ blocks' = 0
  /\ UNCHANGED <<cmdid, evDone, dataVars, alarm, isrVars, bits, retries, cmd, clean, requests>>

-----------------------------------------------------------------------------
(* udpbd_write: one command, no retry *)

CallWrite ==
  /\ Writes /\ pc = "idle" /\ connected /\ cmd < MaxCmds
  /\ ret' = "none" /\ pc' = "w_arm"
  /\ UNCHANGED <<cmdid, bdmVars, evDone, dataVars, alarm, isrVars, bits, blocks, retries, cmd,
                 clean, requests>>

WriteArm ==
  /\ pc = "w_arm" /\ NextCmd /\ pc' = "w_send"
  /\ UNCHANGED <<bdmVars, evDone, dataVars, alarm, isr, left, bits, blocks, retries, ret>>

\* the request and all of its data, then the alarm
WriteSend ==
  /\ pc = "w_send"
  /\ Request("write") /\ SetAlarm /\ pc' = "w_wait"
  /\ UNCHANGED <<cmdid, bdmVars, evDone, dataVars, isrVars, bits, blocks, retries, ret, cmd,
                 clean>>

writeRest == <<cmdid, bdmVars, evDone, dataVars, alarm, isrVars, bits, blocks, retries, cmd,
               clean>>

\* the request cannot be sent
WriteSendFailed ==
  /\ pc = "w_send" /\ pc' = "idle" /\ ret' = "EIO"
  /\ UNCHANGED <<requests, writeRest>>

\* a data packet cannot be sent; the server has the request and may refuse it
WriteDataFailed ==
  /\ pc = "w_send" /\ Request("cut") /\ pc' = "idle" /\ ret' = "EIO"
  /\ UNCHANGED writeRest

WriteWake == Wake("w_wait", "w_woken")

WriteReturn ==
  /\ pc = "w_woken"
  /\ alarm' = FALSE /\ bits' = {}
  /\ ret' = IF DONE \in bits THEN "count" ELSE "EIO"
  /\ pc' = "idle"
  /\ UNCHANGED <<cmdid, bdmVars, evDone, dataVars, isrVars, blocks, retries, cmd, clean,
                 requests>>

-----------------------------------------------------------------------------
(* _udpbd_timeout and udpbd_isr *)

AlarmFires ==
  /\ alarm /\ alarm' = FALSE
  /\ readSize' = 0 /\ evDone' = evDone \cup {ERROR}
  /\ UNCHANGED <<cmdid, bdmVars, readPkt, buffer, got, isrVars, pc, bits, blocks, retries, ret,
                 cmd, clean, requests>>

\* pkt->bd.cmdid == g_cmdid, and a receiver that does not look
CurrentCmdUnchecked(id) == TRUE
CurrentCmd(id) == id = cmdid

isrRest == <<cmdid, alarm, pc, bits, blocks, retries, ret, cmd, clean, requests>>

\* an INFO_REPLY; servers announce themselves with any command number
IsrInfo(id) ==
  /\ CurrentCmd(id) /\ ~connected
  /\ connected' = TRUE /\ registered' = TRUE
  /\ UNCHANGED <<evDone, dataVars, isrVars, isrRest>>

\* cmdpkt == g_read_cmdpkt, and a receiver that takes any packet of the command
InOrderUnchecked(p) == TRUE
InOrder(p) == p = readPkt

\* what each packet of a read needs to be looked at
ReadPacket(r) == r.op = "read" /\ CurrentCmd(r.id) /\ buffer

ReadError == readSize' = 0 /\ evDone' = evDone \cup {ERROR}

IsrWrongOrder(r, p) ==
  /\ ReadPacket(r) /\ ~InOrder(p)
  /\ ReadError
  /\ UNCHANGED <<bdmVars, readPkt, buffer, got, isrVars, isrRest>>

\* size > RDMA_MAX_PAYLOAD: none of it is stored, but its number is used up
IsrOversize(r, p) ==
  /\ ReadPacket(r) /\ InOrder(p)
  /\ readPkt' = readPkt + 1 /\ ReadError
  /\ UNCHANGED <<bdmVars, buffer, got, isrVars, isrRest>>

\* the data goes to the caller's memory, and g_read_size is read ...
IsrData(r, p) ==
  /\ ReadPacket(r) /\ InOrder(p)
  /\ readPkt' = readPkt + 1
  /\ got' = Append(got, <<r.cmd, p>>)
  /\ left' = (readSize - 1) % SizeMod /\ isr' = "store"
  /\ UNCHANGED <<bdmVars, readSize, evDone, buffer, misread, isrRest>>

\* ... and written; what an alarm has written in between is lost
IsrStore ==
  /\ isr = "store" /\ isr' = "test"
  /\ readSize' = left
  /\ UNCHANGED <<bdmVars, readPkt, buffer, got, evDone, left, misread, isrRest>>

\* g_read_size == 0.  The variable is not volatile: the compiler may test the
\* difference it has at hand or read the variable again, with an alarm's 0.
IsrTest ==
  /\ isr = "test" /\ isr' = "idle" /\ left' = 0
  /\ \E seen \in {left, readSize} :
       /\ evDone' = IF seen = 0 THEN evDone \cup {DONE} ELSE evDone
       /\ misread' = (misread \/ (seen = 0 /\ left # 0))
  /\ UNCHANGED <<bdmVars, dataVars, isrRest>>

IsrWriteDone(r, bit) ==
  /\ r.op = "write" \/ (r.op = "cut" /\ bit = ERROR)
  /\ CurrentCmd(r.id)
  /\ evDone' = evDone \cup {bit}
  /\ UNCHANGED <<bdmVars, dataVars, isrVars, isrRest>>

-----------------------------------------------------------------------------

Thread ==
  \/ ReadArm \/ ReadSend \/ ReadSendFailed \/ ReadWake \/ ReadOk \/ ReadFailed
  \/ ReadDisconnect \/ ReadDown
  \/ WriteArm \/ WriteSend \/ WriteSendFailed \/ WriteDataFailed \/ WriteWake \/ WriteReturn

Calls == (\E n \in 1 .. MaxBlocks : CallRead(n)) \/ CallWrite

\* a packet arrives, and the rest of _cmd_read_rdma
Isr ==
  \/ \E id \in 0 .. CmdMod - 1 : IsrInfo(id)
  \/ \E r \in requests :
       \/ \E p \in 1 .. BlockPkts : IsrWrongOrder(r, p) \/ IsrOversize(r, p) \/ IsrData(r, p)
       \/ \E bit \in {DONE, ERROR} : IsrWriteDone(r, bit)

IsrGoesOn == IsrStore \/ IsrTest

Next ==
  \/ isr = "idle" /\ (Calls \/ Thread \/ Isr)
  \/ IsrGoesOn
  \/ AlarmFires

\* Both threads and the alarm always run; the network and the server owe nothing.
Spec     == Init /\ [][Next]_vars
FairSpec ==
  /\ Spec
  /\ WF_vars(isr = "idle" /\ Thread) /\ WF_vars(IsrGoesOn) /\ WF_vars(AlarmFires)

-----------------------------------------------------------------------------

Requests == [cmd : Nat, id : 0 .. CmdMod - 1, op : {"read", "write", "cut"}]

\* The type invariant: the 3 bit command number, the unsigned byte counter,
\* and the retry counter within its bound.
TypeOK ==
  /\ cmdid \in 0 .. CmdMod - 1 /\ cmd \in Nat
  /\ connected \in BOOLEAN /\ registered \in BOOLEAN
  /\ evDone \subseteq {DONE, ERROR} /\ bits \subseteq {DONE, ERROR}
  /\ readPkt \in 0 .. BlockPkts + 1 /\ readSize \in 0 .. SizeMod - 1
  /\ isr \in {"idle", "store", "test"} /\ left \in 0 .. SizeMod - 1 /\ misread \in BOOLEAN
  /\ buffer \in BOOLEAN /\ got \in Seq(Nat \X Nat) /\ alarm \in BOOLEAN
  /\ pc \in {"idle"} \cup ReadPCs \cup WritePCs
  /\ blocks \in 0 .. MaxBlocks /\ retries \in 0 .. MaxRetries
  /\ ret \in {"none", "count", "EIO"}
  /\ clean \in BOOLEAN /\ requests \subseteq Requests

\* The caller's buffer only ever holds packets of the very command it was
\* armed for, each once and in the order of their numbers: retries of a block,
\* which write to the same memory, never mix with late packets of earlier
\* attempts (udpbd_isr's command number, _cmd_read_rdma's packet number).
BufferInOrder ==
  pc \in ReadPCs /\ pc # "r_arm" =>
    /\ \A k \in 1 .. Len(got) : got[k][1] = cmd
    /\ \A j, k \in 1 .. Len(got) : j < k => got[j][2] < got[k][2]

\* every packet of the current block in its place
AllThere == got = [k \in 1 .. BlockPkts |-> <<cmd, k>>]

\* A read that reports its block as done has all of the block's data in place,
\* whatever was lost, repeated, refused or late, with two exceptions: an
\* outcome of an earlier command was left in the event flag when it began, or
\* the build reads g_read_size twice and an alarm wrote its 0 between
\* udpbd.c:358 and the test in 359.
CleanReadComplete ==
  pc = "r_woken" /\ DONE \in bits /\ clean /\ ~misread => AllThere

\* The same of every read: udpbd.c:105 says "wait for data..." of what comes
\* before a read reports its block as done.
ReadComplete == pc = "r_woken" /\ DONE \in bits => AllThere

\* The driver and the block device manager agree on whether the device is
\* there: no announcement of a server slips between bdm_disconnect_bd and
\* bdm_connected = 0 (udpbd.c:175).
BdmAgrees == pc # "r_down" => (connected <=> registered)

\* The receive thread writes to the caller's memory only during udpbd_read,
\* although a failed udp_packet_send returns with g_buffer still set.
BufferOwned == [][got' # got => pc \in ReadPCs]_vars

\* Every read and every write returns, whatever the network does: each wait
\* has its alarm and the retries are bounded.
CallReturns == pc # "idle" ~> pc = "idle"

=============================================================================
