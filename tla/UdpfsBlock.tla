----------------------------- MODULE UdpfsBlock -----------------------------
(***************************************************************************)
(* The block requests of udpfs_core.c and their two front ends: the file   *)
(* handle interface of a running game (udpfs_fhi.c), called by any thread, *)
(* and the block device (udpfs_bd.c), called by the file system's thread.  *)
(*                                                                         *)
(* A thread's call is checked, waits for the semaphore (fhi only), then    *)
(* runs udpfs_core_bread or udpfs_core_bwrite: for each request the        *)
(* caller's buffer is given to the socket (Submit) and later the reply or  *)
(* its absence ends the exchange.  Replies go to the buffer the socket     *)
(* holds, whoever waits.                                                   *)
(***************************************************************************)
EXTENDS UdpfsCore

CONSTANTS
  Threads,     \* callers
  FileSize,    \* fhi.file[].size / 512 of each file the loader opened
  MaxSectors,  \* UDPFS_MAX_SECTOR_READ (128): most sectors of one BREAD_REQ
  MaxCount,    \* bound on the sectors of one call
  DevSizes,    \* possible sizes of the server's block device, in sectors
  WordMod      \* where a uint32_t wraps (2^32)

ASSUME UdpfsBlockAssumption ==
  /\ {MaxSectors, MaxCount} \subseteq Nat \ {0}
  /\ FileSize \in Seq(Nat) /\ DevSizes \subseteq Nat
  /\ WordMod \in Nat /\ WordMod > 1

FileIds == DOMAIN FileSize

VARIABLES
  pc,          \* per thread: where it is
  call,        \* per thread: its call, see NoCall
  blockRet,    \* per thread: what the core returned to the front end
  sema,        \* g_sema: its count, and its waiters in order of arrival (attr 0)
  rxOwner,     \* whose buffer the socket holds
  devSize,     \* sectors of the server's block device
  sectorCount, \* g_udpbd.sectorCount, -1 before the server was asked
  registered   \* bdm has the device

callVars  == <<pc, call, blockRet, sema, rxOwner>>
bdVars    == <<devSize, sectorCount, registered>>
blockVars == <<callVars, bdVars>>

PCs == {"idle", "wait", "enter", "submit", "exchange", "leave"}

\* at: sectors done or skipped; buf: what each sector of the buffer holds;
\* size: sectors the server has of what is read
NoCall == [kind |-> "none", from |-> 0, count |-> 0, at |-> 0, buf |-> <<>>, size |-> 0]
NoOne  == "none"

\* sema_info.initial, and a semaphore that lets two in
SemaInitialTwo == 2
SemaInitial == 1

BlockInit ==
  /\ pc = [t \in Threads |-> "idle"] /\ call = [t \in Threads |-> NoCall]
  /\ blockRet = [t \in Threads |-> 0]
  /\ sema = [count |-> SemaInitial, queue |-> <<>>] /\ rxOwner = NoOne
  /\ devSize \in DevSizes /\ sectorCount = -1 /\ registered = FALSE

Goto(t, there) == pc' = [pc EXCEPT ![t] = there]
Result(t, r) == Goto(t, "leave") /\ blockRet' = [blockRet EXCEPT ![t] = r]

\* the call has returned; what it knew is gone
Forget(t) == call' = [call EXCEPT ![t] = NoCall] /\ blockRet' = [blockRet EXCEPT ![t] = 0]

NewCall(kind, from, count, size) ==
  [kind |-> kind, from |-> from, count |-> count, at |-> 0,
   buf |-> [i \in 1 .. count |-> 0], size |-> size]

-----------------------------------------------------------------------------
(* udpfs_fhi.c *)

\* fhi_init: the semaphore and the connection, or neither
FhiInit(found) == CoreInit(found) /\ UNCHANGED blockVars

\* fhi_read and fhi_write up to the semaphore.  They return 0 at once for a
\* file the loader did not open (id -1) and when there is no connection.
FhiCall(t, kind, file, from, count) ==
  /\ Connected /\ pc[t] = "idle"
  /\ call' = [call EXCEPT ![t] = NewCall(kind, from, count, FileSize[file])]
  /\ Goto(t, "wait") /\ UNCHANGED <<conn, blockRet, sema, rxOwner, bdVars>>

\* WaitSema and SignalSema.  A signal hands the semaphore to the first waiter.
Queued(t) == \E i \in DOMAIN sema.queue : sema.queue[i] = t

Take(t) ==
  /\ pc[t] = "wait" /\ ~Queued(t)
  /\ IF sema.count > 0
       THEN sema' = [sema EXCEPT !.count = @ - 1] /\ Goto(t, "enter")
       ELSE sema' = [sema EXCEPT !.queue = Append(@, t)] /\ UNCHANGED pc
  /\ UNCHANGED <<conn, call, blockRet, rxOwner, bdVars>>

\* fhi_read and fhi_write return the count, or 0 for an error of the core, and
\* every path goes through SignalSema; a path that forgets it
SignalForgotten == sema
Signal ==
  IF sema.queue = <<>> THEN [sema EXCEPT !.count = @ + 1]
                       ELSE [sema EXCEPT !.queue = Tail(@)]

Leave(t) ==
  /\ pc[t] = "leave" /\ call[t].kind \in {"fhi_read", "fhi_write"}
  /\ sema' = Signal
  /\ pc' = [u \in Threads |-> IF u = t THEN "idle"
                              ELSE IF sema.queue # <<>> /\ u = Head(sema.queue) THEN "enter"
                              ELSE pc[u]]
  /\ Forget(t) /\ UNCHANGED <<conn, rxOwner, bdVars>>

-----------------------------------------------------------------------------
(* udpfs_core_bread and udpfs_core_bwrite *)

\* the connection is looked at again under the semaphore; a core that trusts
\* the front end's look
StillConnectedUnchecked == TRUE
StillConnected == Connected

Enter(t) ==
  /\ pc[t] = "enter"
  /\ IF ~StillConnected THEN Result(t, EIO)
     ELSE IF call[t].count = 0 /\ call[t].kind \in {"fhi_read", "bd_read"}
       THEN Result(t, 0)
     ELSE Goto(t, "submit") /\ UNCHANGED blockRet
  /\ UNCHANGED <<conn, call, sema, rxOwner, bdVars>>

\* set_rx_app_header, set_rx_buffer and udprdma_send
Submit(t) ==
  /\ pc[t] = "submit"
  /\ rxOwner' = t /\ Goto(t, "exchange")
  /\ UNCHANGED <<conn, call, blockRet, sema, bdVars>>

Least(a, b) == IF a <= b THEN a ELSE b
ChunkOf(c) == Least(c.count - c.at, MaxSectors)

\* the sectors of a BREAD reply: all of them inside the file, fewer at its end
SectorsOf(c) ==
  {i \in 1 .. ChunkOf(c) : c.from + c.at + i <= c.size}

\* c's reply in the buffer of the call that owns the socket's buffer
Delivered(c) ==
  LET o == call[rxOwner] IN
  [i \in DOMAIN o.buf |-> IF i - o.at \in SectorsOf(c) THEN c.from + c.at + i - o.at ELSE o.buf[i]]

\* any result >= 0 counts as a full chunk
ReadReply(t) ==
  /\ pc[t] = "exchange" /\ call[t].kind \in {"fhi_read", "bd_read"} /\ Answered
  /\ LET c    == call[t]
         held == [call EXCEPT ![rxOwner].buf = Delivered(c)]
     IN  /\ call' = [held EXCEPT ![t].at = @ + ChunkOf(c)]
         /\ IF c.at + ChunkOf(c) = c.count
              THEN Result(t, c.count)
              ELSE Goto(t, "submit") /\ UNCHANGED blockRet
  /\ UNCHANGED <<sema, rxOwner, bdVars>>

WriteReply(t) ==
  /\ pc[t] = "exchange" /\ call[t].kind \in {"fhi_write", "bd_write"} /\ Answered
  /\ Result(t, call[t].count)
  /\ UNCHANGED <<call, sema, rxOwner, bdVars>>

\* a negative result, or no answer at all
BlockFailed(t) ==
  /\ pc[t] = "exchange" /\ (Answered \/ Lost)
  /\ Result(t, EIO)
  /\ UNCHANGED <<call, sema, rxOwner, bdVars>>

-----------------------------------------------------------------------------
(* udpfs_bd.c *)

\* udpfs_bd_init: connect, ask for the size in bytes, and count sectors in an
\* int; a negative count is taken for an error
BadCount(n) == n % WordMod >= WordMod \div 2

BdConnect(found) == CoreInit(found) /\ UNCHANGED blockVars

BdCapacity ==
  /\ sectorCount = -1 /\ Connected
  /\ IF BadCount(devSize) THEN CoreExit /\ UNCHANGED <<sectorCount, registered>>
     ELSE /\ sectorCount' = devSize % WordMod /\ registered' = TRUE /\ UNCHANGED conn
  /\ UNCHANGED <<callVars, devSize>>

BdNoCapacity == sectorCount = -1 /\ Connected /\ CoreExit /\ UNCHANGED blockVars

\* the end of the range moved to the end of the device, and not
ClampForgotten(from, count) == count
Clamp(from, count) == IF from + count > sectorCount THEN sectorCount - from ELSE count

\* EIO without a connection and EINVAL behind the end come back at once
BdCall(t, kind, from, count) ==
  /\ registered /\ \A u \in Threads : pc[u] = "idle"
  /\ Connected /\ from < sectorCount
  /\ call' = [call EXCEPT ![t] = NewCall(kind, from, Clamp(from, count), devSize)]
  /\ Goto(t, "enter") /\ UNCHANGED <<conn, blockRet, sema, rxOwner, bdVars>>

\* a failed read takes the device away from bdm, a failed write does not
BdLeave(t) ==
  /\ pc[t] = "leave" /\ call[t].kind \in {"bd_read", "bd_write"}
  /\ registered' = (registered /\ ~(call[t].kind = "bd_read" /\ blockRet[t] < 0))
  /\ Goto(t, "idle") /\ Forget(t) /\ UNCHANGED <<conn, sema, rxOwner, devSize, sectorCount>>

-----------------------------------------------------------------------------

Core(t) == Enter(t) \/ Submit(t) \/ ReadReply(t) \/ WriteReply(t) \/ BlockFailed(t)

FhiNext ==
  \/ \E found \in BOOLEAN : FhiInit(found)
  \/ \E t \in Threads :
       \/ \E kind \in {"fhi_read", "fhi_write"}, file \in FileIds,
             from \in 0 .. MaxCount, count \in 0 .. MaxCount : FhiCall(t, kind, file, from, count)
       \/ Take(t) \/ Core(t) \/ Leave(t)

BdNext ==
  \/ \E found \in BOOLEAN : BdConnect(found)
  \/ BdCapacity \/ BdNoCapacity
  \/ \E t \in Threads :
       \/ \E kind \in {"bd_read", "bd_write"}, from \in 0 .. MaxCount, count \in 1 .. MaxCount :
            BdCall(t, kind, from, count)
       \/ Core(t) \/ BdLeave(t)


-----------------------------------------------------------------------------

BlockTypeOK ==
  /\ pc \in [Threads -> PCs] /\ blockRet \in [Threads -> Int]
  /\ sema.count \in 0 .. 1 /\ sema.queue \in Seq(Threads)
  /\ rxOwner \in Threads \cup {NoOne}
  /\ sectorCount \in -1 .. WordMod - 1 /\ registered \in BOOLEAN
  /\ \A t \in Threads : call[t].at <= call[t].count

\* While a thread waits for a reply the socket holds its buffer and nobody
\* else is inside the core: the check before the semaphore (udpfs_fhi.c:55)
\* lets several threads wait, the semaphore one of them through, on every path.
OwnBuffer ==
  \A t \in Threads : pc[t] = "exchange" =>
    rxOwner = t /\ \A u \in Threads \ {t} : pc[u] \notin {"enter", "submit", "exchange", "leave"}

\* A read that returns its count has filled the buffer with exactly the
\* sectors asked for, in order, although a short reply counts as a full chunk
\* (udpfs_core.c:675): inside a file, and on the block device for every range,
\* whatever the device's size does to the sector count.
ReadComplete ==
  \A t \in Threads : pc[t] = "leave" /\ blockRet[t] > 0 =>
    LET c == call[t] IN
    c.kind = "bd_read" \/ (c.kind = "fhi_read" /\ c.from + c.count <= c.size) =>
      blockRet[t] = c.count /\ \A i \in 1 .. c.count : c.buf[i] = c.from + i

\* No request is sent on a lost connection, although a thread may have seen it
\* alive before it waited for the semaphore.
NoRequestAfterLoss == [][\A t \in Threads : pc[t] = "submit" /\ pc'[t] = "exchange" => Connected]_<<conn, blockVars>>

\* Every call of the file handle interface returns, over lost connections and
\* with any number of threads queued.
FhiReturns == \A t \in Threads : pc[t] = "wait" ~> pc[t] = "idle"

=============================================================================
