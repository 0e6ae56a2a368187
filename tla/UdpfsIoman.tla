----------------------------- MODULE UdpfsIoman -----------------------------
(***************************************************************************)
(* The iomanX device "udpfs:" (udpfs_ioman.c) and the file requests of     *)
(* udpfs_core.c.  All calls come from the one thread that serves fileXio   *)
(* for the EE, so one call runs at a time; a call is a local part, which   *)
(* may return at once, and one or more exchanges with the server.          *)
(*                                                                         *)
(* The server is outside the source: it hands out handles, keeps a         *)
(* position per handle, and may refuse any request.  A file's data is the  *)
(* sequence of its positions 1 .. FileLen.                                 *)
(***************************************************************************)
EXTENDS UdpfsCore

CONSTANTS
  Files,       \* iomanX file structures
  NumSlots,    \* UDPFS_MAX_HANDLES (8)
  Handles,     \* what the server numbers its open files with; 0 is the block device
  FileLen,     \* length of a file on the server
  MaxRead,     \* UDPFS_MAX_READ (65536): most bytes of one READ_REQ
  MaxSize,     \* bound on the bytes of one call
  IntMod       \* where an int wraps (2^32)

ASSUME UdpfsIomanAssumption ==
  /\ {NumSlots, MaxRead, MaxSize, FileLen} \subseteq Nat \ {0}
  /\ Handles \subseteq Nat \ {0}
  /\ IntMod \in Nat /\ IntMod > 1

VARIABLES
  fds,       \* g_fds[].server_handle, -1 = free
  privdata,  \* f->privdata: the slot of an open file, -1 when iomanX has freed f
  op,        \* the call in progress
  ret,       \* result of the last call
  \* the server
  srvPos,    \* position of each handle, -1 = not open
  \* history
  given      \* the handle the open of a file returned, -1 = not open

iomanVars == <<fds, privdata, op, ret, srvPos, given>>

Slots == 0 .. NumSlots - 1
Idle  == [call |-> "none"]
NoRet == [call |-> "none"]

EMFILE == -24
EBADF  == -9
ENAMETOOLONG == -91

IomanInit ==
  /\ fds = [i \in Slots |-> -1]
  /\ privdata = [f \in Files |-> -1] /\ given = [f \in Files |-> -1]
  /\ op = Idle /\ ret = NoRet
  /\ srvPos = [h \in Handles |-> -1]

\* AddDrv calls udpfs_init_dev; a device whose init fails is not added
InitDev(found) == CoreInit(found) /\ UNCHANGED iomanVars

Return(call, f, r) == op' = Idle /\ ret' = [call |-> call, file |-> f, result |-> r]

\* what a call made of exchanges leaves alone while it is decided locally
localRest == <<conn, fds, privdata, srvPos, given>>

-----------------------------------------------------------------------------
(* udpfs_open, udpfs_dopen, udpfs_core_open *)

FreeSlots == {i \in Slots : fds[i] < 0}

\* _alloc_fd: the first free slot, which stays free until the reply
AllocFd == CHOOSE i \in FreeSlots : \A j \in FreeSlots : i <= j

OpenCall(f, nameTooLong) ==
  /\ Loaded /\ op = Idle /\ privdata[f] = -1
  /\ IF FreeSlots = {} THEN Return("open", f, EMFILE)
     ELSE IF ~Connected THEN Return("open", f, EIO)
     ELSE IF nameTooLong THEN Return("open", f, ENAMETOOLONG)
     ELSE op' = [call |-> "open", file |-> f, slot |-> AllocFd] /\ ret' = NoRet
  /\ UNCHANGED localRest

SrvOpens(h) == srvPos[h] = -1 /\ srvPos' = [srvPos EXCEPT ![h] = 0]

OpenDone(h) ==
  /\ op.call = "open" /\ Answered /\ SrvOpens(h)
  /\ fds' = [fds EXCEPT ![op.slot] = h]
  /\ privdata' = [privdata EXCEPT ![op.file] = op.slot]
  /\ given' = [given EXCEPT ![op.file] = h]
  /\ Return("open", op.file, 0)

OpenRefused(e) ==
  /\ op.call = "open" /\ Answered
  /\ Return("open", op.file, e) /\ UNCHANGED <<fds, privdata, srvPos, given>>

OpenLost ==
  /\ op.call = "open" /\ Lost
  /\ \/ \E h \in Handles : SrvOpens(h)
     \/ UNCHANGED srvPos
  /\ Return("open", op.file, EIO) /\ UNCHANGED <<fds, privdata, given>>

-----------------------------------------------------------------------------
(* udpfs_close, udpfs_dclose, udpfs_core_close *)

CloseCall(f) ==
  /\ op = Idle /\ privdata[f] # -1
  /\ op' = [call |-> "close", file |-> f, slot |-> privdata[f]] /\ ret' = NoRet
  /\ UNCHANGED localRest

\* _free_fd whatever udpfs_core_close returned, and iomanX frees f; a close
\* that gives up when the server cannot be told
FreeFdIfTold == IF Connected THEN [fds EXCEPT ![op.slot] = -1] ELSE fds
FreeFd == [fds EXCEPT ![op.slot] = -1]

Closed ==
  /\ fds' = FreeFd
  /\ privdata' = [privdata EXCEPT ![op.file] = -1]
  /\ given' = [given EXCEPT ![op.file] = -1]
  /\ Return("close", op.file, 0)

SrvCloses(h) == srvPos' = [srvPos EXCEPT ![h] = -1]

CloseDone == op.call = "close" /\ Answered /\ SrvCloses(fds[op.slot]) /\ Closed

CloseLost ==
  /\ op.call = "close" /\ Lost
  /\ SrvCloses(fds[op.slot]) \/ UNCHANGED srvPos
  /\ Closed

CloseOffline == op.call = "close" /\ ~Connected /\ UNCHANGED <<conn, srvPos>> /\ Closed

-----------------------------------------------------------------------------
(* udpfs_read and udpfs_core_read: READ requests of at most MaxRead bytes *)

\* _validate_fd
Valid(f) == Connected /\ privdata[f] \in Slots /\ fds[privdata[f]] >= 0
FdError == IF ~Connected THEN EIO ELSE EBADF

ReadResult(f, r, got, from) ==
  /\ op' = Idle
  /\ ret' = [call |-> "read", file |-> f, result |-> r, got |-> got, from |-> from]

ReadCall(f, size) ==
  /\ op = Idle /\ privdata[f] # -1
  /\ IF ~Valid(f) THEN ReadResult(f, FdError, <<>>, 0)
     ELSE IF size = 0 THEN ReadResult(f, 0, <<>>, srvPos[given[f]])
     ELSE /\ op' = [call |-> "read", file |-> f, handle |-> fds[privdata[f]], left |-> size,
                    got |-> <<>>, from |-> srvPos[given[f]]]
          /\ ret' = NoRet
  /\ UNCHANGED localRest

Smaller(a, b) == IF a <= b THEN a ELSE b
Chunk == Smaller(op.left, MaxRead)

ReadReturn(r, got) == ReadResult(op.file, r, got, op.from)

\* The RESULT_REPLY and the data: n bytes from the server's position, fewer
\* than asked for only at the end of the file, which ends the loop.
ReadChunk ==
  /\ op.call = "read" /\ Answered
  /\ LET pos == srvPos[op.handle]
         n   == Smaller(Chunk, FileLen - pos)
         got == op.got \o [i \in 1 .. n |-> pos + i]
     IN  /\ srvPos' = [srvPos EXCEPT ![op.handle] = @ + n]
         /\ IF n < Chunk \/ op.left = n
              THEN ReadReturn(Len(got), got)
              ELSE op' = [op EXCEPT !.got = got, !.left = @ - n] /\ UNCHANGED ret
  /\ UNCHANGED <<fds, privdata, given>>

\* after an error the bytes read so far are the result; a read that drops them
PartialResultDropped == EIO
PartialResult == IF op.got = <<>> THEN EIO ELSE Len(op.got)

\* a negative result, or no answer: the server may have moved its position
ReadFailed ==
  /\ op.call = "read"
  /\ \/ Answered /\ UNCHANGED srvPos
     \/ Lost /\ \/ UNCHANGED srvPos
                \/ srvPos' = [srvPos EXCEPT ![op.handle] = @ + Smaller(Chunk, FileLen - @)]
  /\ ReadReturn(PartialResult, op.got)
  /\ UNCHANGED <<fds, privdata, given>>

-----------------------------------------------------------------------------
(* udpfs_write, udpfs_lseek64 and udpfs_lseek: one request on a handle *)

\* the int of a 64 bit value
ToInt(x) == LET r == x % IntMod IN IF r < IntMod \div 2 THEN r ELSE r - IntMod

HandleCall(call, f, arg) ==
  /\ op = Idle /\ privdata[f] # -1
  /\ IF ~Valid(f) THEN Return(call, f, FdError)
     ELSE /\ op' = [call |-> call, file |-> f, handle |-> fds[privdata[f]], arg |-> arg]
          /\ ret' = NoRet
  /\ UNCHANGED localRest

\* all of the data, less if the server's disk is full
WriteDone ==
  /\ op.call = "write" /\ Answered
  /\ \E n \in 0 .. Smaller(op.arg, FileLen - srvPos[op.handle]) :
       /\ srvPos' = [srvPos EXCEPT ![op.handle] = @ + n]
       /\ Return("write", op.file, n)
  /\ UNCHANGED <<fds, privdata, given>>

\* SEEK_SET; udpfs_lseek returns the position as an int, udpfs_lseek64 as it is
SeekDone(wide) ==
  /\ op.call = "lseek" /\ Answered
  /\ srvPos' = [srvPos EXCEPT ![op.handle] = op.arg]
  /\ Return("lseek", op.file, IF wide THEN op.arg ELSE ToInt(op.arg))
  /\ UNCHANGED <<fds, privdata, given>>

HandleFailed(e) ==
  /\ op.call \in {"write", "lseek"}
  /\ \/ Answered /\ UNCHANGED srvPos
     \/ Lost /\ \/ UNCHANGED srvPos
                \/ op.call = "lseek" /\ srvPos' = [srvPos EXCEPT ![op.handle] = op.arg]
                \/ /\ op.call = "write"
                   /\ srvPos' = [srvPos EXCEPT ![op.handle] = @ + Smaller(op.arg, FileLen - @)]
  /\ Return(op.call, op.file, e)
  /\ UNCHANGED <<fds, privdata, given>>

-----------------------------------------------------------------------------
(* Requests that leave handles alone: udpfs_core_dread of an open          *)
(* directory, udpfs_core_getstat and _path_op (mkdir, remove, rmdir)       *)

DreadCall(f) == HandleCall("dread", f, 0)

PathCall(nameTooLong) ==
  /\ Loaded /\ op = Idle
  /\ IF ~Connected THEN op' = Idle /\ ret' = [call |-> "path", result |-> EIO]
     ELSE IF nameTooLong THEN op' = Idle /\ ret' = [call |-> "path", result |-> ENAMETOOLONG]
     ELSE op' = [call |-> "path"] /\ ret' = NoRet
  /\ UNCHANGED localRest

QueryDone(r) ==
  /\ op.call \in {"dread", "path"}
  /\ Answered \/ (Lost /\ r = EIO)
  /\ op' = Idle /\ ret' = [call |-> op.call, result |-> r]
  /\ UNCHANGED <<fds, privdata, srvPos, given>>

\* udpfs_ioctl2: the server's handle of an open file, connected or not
GetHandle(f) ==
  /\ op = Idle /\ privdata[f] # -1
  /\ Return("ioctl2", f, fds[privdata[f]]) /\ UNCHANGED localRest

\* udpfs_deinit_dev, when the driver is removed: only the socket goes.  Nothing
\* closes the files still open, neither here nor at the server, and their slots
\* stay; calls on them go on as after a lost connection.
DeinitDev == Loaded /\ op = Idle /\ CoreExit /\ UNCHANGED iomanVars

-----------------------------------------------------------------------------

IomanCall ==
  \/ \E f \in Files :
       \/ \E long \in BOOLEAN : OpenCall(f, long)
       \/ CloseCall(f) \/ DreadCall(f) \/ GetHandle(f)
       \/ \E n \in 0 .. MaxSize : ReadCall(f, n)
       \/ \E n \in 1 .. MaxSize : HandleCall("write", f, n)
       \/ \E p \in 0 .. FileLen : HandleCall("lseek", f, p)
  \/ \E long \in BOOLEAN : PathCall(long)

IomanExchange ==
  \/ \E h \in Handles : OpenDone(h)
  \/ OpenRefused(EIO) \/ OpenLost
  \/ CloseDone \/ CloseLost \/ CloseOffline
  \/ ReadChunk \/ ReadFailed
  \/ WriteDone \/ (\E wide \in BOOLEAN : SeekDone(wide)) \/ HandleFailed(EIO)
  \/ \E r \in {0, 1, EIO} : QueryDone(r)

IomanNext == (\E found \in BOOLEAN : InitDev(found)) \/ IomanCall \/ IomanExchange \/ DeinitDev

-----------------------------------------------------------------------------

Calls == {"none", "open", "close", "read", "write", "lseek", "dread", "path", "ioctl2"}

IomanTypeOK ==
  /\ fds \in [Slots -> Handles \cup {-1}]
  /\ privdata \in [Files -> Slots \cup {-1}]
  /\ given \in [Files -> Handles \cup {-1}]
  /\ srvPos \in [Handles -> -1 .. FileLen]
  /\ op.call \in Calls /\ ret.call \in Calls

OpenFiles == {f \in Files : privdata[f] # -1}

\* Each open file keeps the slot with the handle its own open returned, no two
\* share one, and no slot is in use for anything else: a slot chosen before the
\* request is still free at the reply, and every close gives its slot back,
\* also when the server can no longer be told (udpfs_ioman.c:145).
TablesAgree ==
  /\ \A f \in OpenFiles : fds[privdata[f]] = given[f] /\ given[f] # -1
  /\ \A f, g \in OpenFiles : privdata[f] = privdata[g] => f = g
  /\ \A i \in Slots : fds[i] # -1 => \E f \in OpenFiles : privdata[f] = i

\* As long as the connection lives the server has exactly the files open that
\* iomanX has open, whatever it refused on the way.
ServerAgrees ==
  Connected /\ op = Idle => {h \in Handles : srvPos[h] # -1} = {given[f] : f \in OpenFiles}

\* Driver, iomanX and server agree on what is open.
HandlesAgree == TablesAgree /\ ServerAgrees

\* What a read returns is what it delivered: that many consecutive bytes from
\* the position it began at, with the server's position behind them as long as
\* the connection lives, also when a later chunk of the call fails after
\* earlier ones were delivered (udpfs_core.c:410).
ReadAccounted ==
  ret.call = "read" =>
    LET n == IF ret.result < 0 THEN 0 ELSE ret.result IN
      /\ Len(ret.got) >= n /\ \A i \in 1 .. n : ret.got[i] = ret.from + i
      /\ Connected /\ privdata[ret.file] # -1 /\ op = Idle =>
           srvPos[given[ret.file]] = ret.from + n

=============================================================================
