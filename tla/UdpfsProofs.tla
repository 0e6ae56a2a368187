---------------------------- MODULE UdpfsProofs ----------------------------
(***************************************************************************)
(* Proofs about Udpfs, for any number of threads, slots, handles and       *)
(* sectors: what the semaphore of the file handle interface guards, how    *)
(* the tables of driver, iomanX and server stay in step, and what block    *)
(* reads and file reads deliver.                                           *)
(***************************************************************************)
EXTENDS Udpfs, ModArithmetic, SequenceTheorems, TLAPS

-----------------------------------------------------------------------------
(* The block requests *)

InCore == {"enter", "submit", "exchange", "leave"}
Inside(t) == pc[t] \in InCore

\* Who may be in the core: one thread, the one whose buffer the socket holds
\* while it waits; with the connection alive when it sends; nobody while the
\* semaphore is free; on the block device nobody before its size is known.
Guarded ==
  /\ pc \in [Threads -> PCs]
  /\ sema \in [count : 0 .. 1, queue : Seq(Threads)]
  /\ conn \in {"new", "up", "down", "none"}
  /\ \A t, u \in Threads : Inside(t) /\ Inside(u) => t = u
  /\ \A t \in Threads : pc[t] = "exchange" => rxOwner = t
  /\ \A t \in Threads : pc[t] = "submit" => Connected
  /\ build = "fhi" => (sema.count = 1 => \A t \in Threads : ~Inside(t))
  /\ build = "bd" => \A t \in Threads : Inside(t) => sectorCount # -1
  /\ build = "bd" => \A t \in Threads : pc[t] # "wait"
  /\ build = "ioman" => \A t \in Threads : pc[t] = "idle"
  /\ \A t \in Threads : Inside(t) \/ pc[t] = "wait" => conn # "new"
  /\ devSize \in Nat /\ (registered => sectorCount # -1)

LEMMA GuardedInit == Init => Guarded
BY UdpfsBlockAssumption DEF Init, IomanInit, BlockInit, SemaInitial, Guarded, Inside, InCore, PCs, Connected

\* a step of one thread that stays inside or comes to the end
LEMMA CoreGuarded ==
  ASSUME Guarded, NEW t \in Threads, Core(t), build' = build, build \in {"fhi", "bd"}
  PROVE  Guarded'
<1> USE DEF Guarded, Inside, InCore, PCs, Connected, callVars, bdVars, blockVars
<1>1. CASE Enter(t)
  BY <1>1 DEF Enter, Result, Goto, StillConnected
<1>2. CASE Submit(t)
  BY <1>2 DEF Submit, Goto
<1>3. CASE ReadReply(t)
  BY <1>3 DEF ReadReply, Result, Goto, Answered
<1>4. CASE WriteReply(t)
  BY <1>4 DEF WriteReply, Result, Goto, Answered
<1>5. CASE BlockFailed(t)
  BY <1>5 DEF BlockFailed, Result, Goto, Answered, Lost
<1> QED BY <1>1, <1>2, <1>3, <1>4, <1>5 DEF Core

LEMMA FhiGuarded == ASSUME Guarded, Fhi, build' = build PROVE Guarded'
<1> USE DEF Guarded, Inside, InCore, PCs, Connected, callVars, bdVars, blockVars
<1>0. build = "fhi"
  BY DEF Fhi
<1>1. ASSUME NEW found \in BOOLEAN, FhiInit(found) PROVE Guarded'
  BY <1>1, <1>0 DEF FhiInit, CoreInit
<1>2. ASSUME NEW t \in Threads, NEW kind, NEW file, NEW from, NEW count,
             FhiCall(t, kind, file, from, count)
      PROVE  Guarded'
  BY <1>2, <1>0 DEF FhiCall, Goto
<1>3. ASSUME NEW t \in Threads, Take(t) PROVE Guarded'
  <2>1. CASE sema.count > 0
    <3>1. /\ sema' = [sema EXCEPT !.count = @ - 1] /\ pc' = [pc EXCEPT ![t] = "enter"]
          /\ sema.count = 1
      BY <1>3, <2>1 DEF Take, Goto
    <3>2. sema' \in [count : 0 .. 1, queue : Seq(Threads)] /\ sema'.count = 0
      BY <3>1
    <3> QED BY <1>0, <1>3, <3>1, <3>2 DEF Take
  <2>2. CASE ~(sema.count > 0)
    <3>1. sema' = [sema EXCEPT !.queue = Append(@, t)] /\ pc' = pc
      BY <1>3, <2>2 DEF Take
    <3>2. Append(sema.queue, t) \in Seq(Threads)
      OBVIOUS
    <3>3. sema' \in [count : 0 .. 1, queue : Seq(Threads)] /\ sema'.count = sema.count
      BY <3>1, <3>2
    <3> QED BY <1>0, <1>3, <3>1, <3>3 DEF Take
  <2> QED BY <2>1, <2>2
<1>4. ASSUME NEW t \in Threads, Core(t) PROVE Guarded'
  BY <1>4, <1>0, CoreGuarded
<1>5. ASSUME NEW t \in Threads, Leave(t) PROVE Guarded'
  <2>1. CASE sema.queue = <<>>
    BY <1>5, <1>0, <2>1 DEF Leave, Signal
  <2>2. CASE sema.queue # <<>>
    <3>1. /\ pc[t] = "leave" /\ sema' = [sema EXCEPT !.queue = Tail(@)]
          /\ UNCHANGED <<conn, rxOwner, bdVars>>
          /\ pc' = [u \in Threads |-> IF u = t THEN "idle"
                                      ELSE IF u = Head(sema.queue) THEN "enter" ELSE pc[u]]
      BY <1>5, <2>2 DEF Leave, Signal
    <3>2. Tail(sema.queue) \in Seq(Threads)
      BY <2>2
    <3>3. sema' \in [count : 0 .. 1, queue : Seq(Threads)] /\ sema'.count = sema.count
      BY <3>1, <3>2
    <3>4. sema.count # 1 /\ \A u \in Threads : Inside(u) => u = t
      BY <1>0, <3>1
    <3>5. pc' \in [Threads -> PCs]
      BY <3>1
    <3>6. \A u, v \in Threads : pc'[u] \in InCore /\ pc'[v] \in InCore => u = v
      BY <3>1, <3>4
    <3> QED BY <1>0, <3>1, <3>3, <3>4, <3>5, <3>6
  <2> QED BY <2>1, <2>2
<1> QED BY <1>1, <1>2, <1>3, <1>4, <1>5 DEF Fhi, FhiNext

LEMMA BdGuarded == ASSUME Guarded, Bd, build' = build PROVE Guarded'
<1> USE DEF Guarded, Inside, InCore, PCs, Connected, callVars, bdVars, blockVars
<1>0. build = "bd"
  BY DEF Bd
<1>1. ASSUME NEW found \in BOOLEAN, BdConnect(found) PROVE Guarded'
  BY <1>1, <1>0 DEF BdConnect, CoreInit
<1>2. CASE BdCapacity
  <2>1. devSize % WordMod # -1
    BY UdpfsBlockAssumption
  <2> QED BY <1>2, <1>0, <2>1 DEF BdCapacity, CoreExit
<1>3. CASE BdNoCapacity
  BY <1>3, <1>0 DEF BdNoCapacity, CoreExit
<1>4. ASSUME NEW t \in Threads, NEW kind, NEW from, NEW count, BdCall(t, kind, from, count)
      PROVE  Guarded'
  BY <1>4, <1>0 DEF BdCall, Goto
<1>5. ASSUME NEW t \in Threads, Core(t) PROVE Guarded'
  BY <1>5, <1>0, CoreGuarded
<1>6. ASSUME NEW t \in Threads, BdLeave(t) PROVE Guarded'
  BY <1>6, <1>0 DEF BdLeave, Goto
<1> QED BY <1>1, <1>2, <1>3, <1>4, <1>5, <1>6 DEF Bd, BdNext

\* The ioman device leaves the block requests alone.
LEMMA IomanGuarded == ASSUME Guarded, Ioman, build' = build PROVE Guarded'
<1>1. /\ build = "ioman" /\ UNCHANGED blockVars /\ conn' \in {"new", "up", "down", "none"}
  BY DEF Ioman, IomanNext, IomanCall, IomanExchange, Guarded, InitDev, CoreInit, CoreExit,
     DeinitDev, Answered, Lost, localRest, OpenCall, CloseCall, ReadCall, HandleCall, PathCall,
     DreadCall, GetHandle, OpenDone, OpenRefused, OpenLost, CloseDone, CloseLost, CloseOffline,
     ReadChunk, ReadFailed, WriteDone, SeekDone, HandleFailed, QueryDone
<1> QED BY <1>1 DEF Guarded, blockVars, callVars, bdVars, Inside, InCore, Connected

LEMMA GuardedStep == Guarded /\ [Next]_vars => Guarded'
<1>1. ASSUME Guarded, UNCHANGED vars PROVE Guarded'
  BY <1>1 DEF vars, blockVars, callVars, bdVars, Guarded, Inside, InCore, Connected
<1> QED BY <1>1, IomanGuarded, FhiGuarded, BdGuarded DEF Next

LEMMA GuardedAlways == Spec => []Guarded
BY GuardedInit, GuardedStep, PTL DEF Spec

\* While a thread waits for a reply the socket holds its buffer and no other
\* thread is inside the core, for any number of threads in any order.
THEOREM OwnBufferAlways == Spec => []OwnBuffer
<1>1. Guarded => OwnBuffer
  BY DEF Guarded, Inside, InCore, OwnBuffer
<1> QED BY <1>1, GuardedAlways, PTL

\* No request is sent on a lost connection, although a thread may have seen it
\* alive before it waited for the semaphore.
THEOREM NoRequestAfterLossAlways == Spec => NoRequestAfterLoss
<1>1. Guarded => \A t \in Threads : pc[t] = "submit" => Connected
  BY DEF Guarded
<1>2. Guarded /\ [Next]_vars =>
        [\A t \in Threads : pc[t] = "submit" /\ pc'[t] = "exchange" => Connected]_<<conn, blockVars>>
  BY <1>1
<1> QED BY <1>2, GuardedAlways, PTL DEF Spec, NoRequestAfterLoss
-----------------------------------------------------------------------------
(* What a block read delivers *)

CallKinds == {"none", "fhi_read", "fhi_write", "bd_read", "bd_write"}
CallRec == [kind : CallKinds, from : Nat, count : Nat, at : Nat, buf : Seq(Int), size : Nat]

\* the sectors a call reads exist
InRange(c) == c.from + c.count <= c.size

\* The sectors done so far hold what was asked for, and a call of the block
\* device stays inside it.
Filled(c) ==
  /\ c \in CallRec /\ c.at <= c.count /\ Len(c.buf) = c.count
  /\ InRange(c) => \A i \in 1 .. c.at : c.buf[i] = c.from + i
  /\ c.kind = "bd_read" => InRange(c)

\* A call that returns a count has done that many sectors, all of the call.
Filling ==
  /\ call \in [Threads -> CallRec] /\ blockRet \in [Threads -> Int]
  /\ \A t \in Threads : Filled(call[t])
  /\ \A t \in Threads : pc[t] = "leave" /\ blockRet[t] > 0 =>
       blockRet[t] = call[t].count
       /\ (call[t].kind \in {"fhi_read", "bd_read"} => call[t].at = call[t].count)
  /\ sectorCount \in Int /\ sectorCount <= devSize

LEMMA NewCallFilled ==
  ASSUME NEW kind \in CallKinds, NEW from \in Nat, NEW count \in Nat, NEW size \in Nat,
         kind = "bd_read" => from + count <= size
  PROVE  Filled(NewCall(kind, from, count, size))
<1>1. [i \in 1 .. count |-> 0] \in Seq(Int) /\ Len([i \in 1 .. count |-> 0]) = count
  OBVIOUS
<1> QED BY <1>1 DEF Filled, NewCall, CallRec, InRange

LEMMA NoCallFilled == Filled(NoCall) /\ NoCall \in CallRec
BY DEF Filled, NoCall, CallRec, CallKinds, InRange

LEMMA FillingInit == Init => Filling
<1>1. \A n \in DevSizes : n \in Nat
  BY UdpfsBlockAssumption
<1> QED BY <1>1, NoCallFilled DEF Init, BlockInit, Filling

\* One chunk of a read: its sectors arrive behind those already there.
LEMMA ChunkFilled ==
  ASSUME NEW c \in CallRec, Filled(c),
         NEW buf, buf = [i \in DOMAIN c.buf |->
                           IF i - c.at \in SectorsOf(c) THEN c.from + c.at + i - c.at ELSE c.buf[i]]
  PROVE  /\ Filled([c EXCEPT !.buf = buf, !.at = c.at + ChunkOf(c)])
         /\ [c EXCEPT !.buf = buf, !.at = c.at + ChunkOf(c)] \in CallRec
<1> DEFINE n == ChunkOf(c)
           d == [c EXCEPT !.buf = buf, !.at = c.at + n]
<1>1. /\ c.from \in Nat /\ c.count \in Nat /\ c.at \in Nat /\ c.size \in Nat /\ c.buf \in Seq(Int)
      /\ c.at <= c.count /\ Len(c.buf) = c.count /\ MaxSectors \in Nat
  BY UdpfsBlockAssumption DEF CallRec, Filled
<1>2. n \in Nat /\ c.at + n \in Nat /\ c.at + n <= c.count
  <2>1. ASSUME NEW k \in Nat, NEW a \in Nat, NEW m \in Nat, a <= k
        PROVE  Least(k - a, m) \in Nat /\ a + Least(k - a, m) <= k
    BY <2>1 DEF Least
  <2>2. n = Least(c.count - c.at, MaxSectors)
    BY DEF ChunkOf
  <2> HIDE DEF n
  <2>3. n \in Nat /\ c.at + n <= c.count
    BY <1>1, <2>1, <2>2
  <2> QED BY <1>1, <2>3
<1>3. buf = [i \in 1 .. c.count |->
               IF i - c.at \in SectorsOf(c) THEN c.from + i ELSE c.buf[i]]
  <2>1. DOMAIN c.buf = 1 .. c.count
    BY <1>1
  <2>2. \A i \in 1 .. c.count : c.from + c.at + i - c.at = c.from + i
    BY <1>1
  <2> QED BY <2>1, <2>2
<1>4. buf \in Seq(Int) /\ Len(buf) = c.count
  <2>1. \A i \in 1 .. c.count : c.buf[i] \in Int /\ c.from + i \in Int
    BY <1>1
  <2>2. buf \in [1 .. c.count -> Int] /\ c.count \in Nat
    BY <1>1, <1>3, <2>1
  <2> QED BY <2>2
<1>5. /\ d.kind = c.kind /\ d.from = c.from /\ d.count = c.count /\ d.size = c.size
      /\ d.at = c.at + n /\ d.buf = buf /\ d \in CallRec
  BY <1>2, <1>4 DEF CallRec
<1>6. ASSUME InRange(c), NEW i \in 1 .. c.at + n PROVE buf[i] = c.from + i
  <2>1. i \in 1 .. c.count
    BY <1>1, <1>2
  <2>2. CASE i <= c.at
    <3>1. c.buf[i] = c.from + i
      BY <1>1, <1>6, <2>1, <2>2 DEF Filled
    <3> QED BY <1>3, <2>1, <3>1
  <2>3. CASE i > c.at
    <3>1. i - c.at \in 1 .. n /\ c.from + c.at + (i - c.at) <= c.size
      <4>1. n \in Nat /\ i \in Int /\ i <= c.at + n /\ i <= c.count
        BY <1>1, <1>2, <2>1
      <4>2. c.from + c.count <= c.size
        BY <1>6 DEF InRange
      <4>3. ASSUME NEW j \in Int, NEW a \in Nat, NEW m \in Nat, NEW f \in Nat, NEW k \in Nat,
                   NEW z \in Nat, j > a, j <= a + m, j <= k, f + k <= z
            PROVE  j - a \in 1 .. m /\ f + a + (j - a) <= z
        BY <4>3
      <4> HIDE DEF n, d
      <4> QED BY <1>1, <2>3, <4>1, <4>2, <4>3
    <3>2. i - c.at \in SectorsOf(c)
      BY <3>1 DEF SectorsOf
    <3> QED BY <1>3, <2>1, <3>2
  <2> QED BY <1>1, <1>2, <2>2, <2>3
<1> HIDE DEF d
<1>7. InRange(d) <=> InRange(c)
  BY <1>5 DEF InRange
<1>8. Filled(d)
  BY <1>2, <1>4, <1>5, <1>6, <1>7 DEF Filled
<1> QED BY <1>5, <1>8 DEF d

LEMMA CoreFilling ==
  ASSUME Guarded, Filling, NEW t \in Threads, Core(t)
  PROVE  Filling'
<1> USE DEF Filling
<1>0. pc \in [Threads -> PCs]
  BY DEF Guarded
<1>1. ASSUME NEW r \in Int, ~(r > 0), Result(t, r), UNCHANGED <<call, bdVars>> PROVE Filling'
  BY <1>0, <1>1 DEF Result, Goto, bdVars
<1>2. CASE Enter(t)
  BY <1>0, <1>1, <1>2 DEF Enter, Goto, bdVars, EIO
<1>3. CASE Submit(t)
  BY <1>0, <1>3 DEF Submit, Goto, bdVars
<1>4. CASE ReadReply(t)
  <2> DEFINE c == call[t]
             buf == [i \in DOMAIN c.buf |->
                       IF i - c.at \in SectorsOf(c) THEN c.from + c.at + i - c.at ELSE c.buf[i]]
             d == [c EXCEPT !.buf = buf, !.at = c.at + ChunkOf(c)]
  <2>1. rxOwner = t /\ c.kind \in {"fhi_read", "bd_read"} /\ UNCHANGED bdVars
    BY <1>4 DEF ReadReply, Guarded
  <2>2. Filled(c) /\ c \in CallRec
    OBVIOUS
  <2>3. Delivered(c) = buf
    BY <2>1 DEF Delivered
  <2>4. call' = [call EXCEPT ![t] = d]
    <3>1. call' = [[call EXCEPT ![t].buf = buf] EXCEPT ![t].at = @ + ChunkOf(c)]
      BY <1>4, <2>1, <2>3, Zenon DEF ReadReply
    <3> HIDE DEF buf
    <3>2. [call EXCEPT ![t].buf = buf] = [call EXCEPT ![t] = [c EXCEPT !.buf = buf]]
      BY Zenon
    <3> QED BY <3>1, <3>2 DEF CallRec
  <2>5. Filled(d) /\ d \in CallRec
    BY <2>2, ChunkFilled
  <2>6. d.count = c.count /\ d.kind = c.kind /\ d.at = c.at + ChunkOf(c)
    BY <2>2 DEF CallRec
  <2> HIDE DEF d
  <2>7. IF c.at + ChunkOf(c) = c.count
          THEN Result(t, c.count)
          ELSE Goto(t, "submit") /\ UNCHANGED blockRet
    BY <1>4 DEF ReadReply
  <2>8. c.count \in Int
    BY <2>2 DEF CallRec
  <2>9. CASE c.at + ChunkOf(c) = c.count
    BY <1>0, <2>1, <2>4, <2>5, <2>6, <2>7, <2>8, <2>9 DEF Result, Goto, bdVars
  <2>10. CASE c.at + ChunkOf(c) # c.count
    BY <1>0, <2>1, <2>4, <2>5, <2>6, <2>7, <2>10 DEF Goto, bdVars
  <2> QED BY <2>9, <2>10
<1>5. CASE WriteReply(t)
  <2>1. call[t].count \in Int /\ call[t].kind \in {"fhi_write", "bd_write"}
    BY <1>5 DEF WriteReply, CallRec
  <2> QED BY <1>0, <1>5, <2>1 DEF WriteReply, Result, Goto, bdVars
<1>6. CASE BlockFailed(t)
  BY <1>1, <1>6 DEF BlockFailed, EIO
<1> QED BY <1>2, <1>3, <1>4, <1>5, <1>6 DEF Core

\* A call begins with an empty buffer and ends by forgetting it.
LEMMA BeginFilling ==
  ASSUME Guarded, Filling, NEW t \in Threads, NEW kind \in CallKinds, NEW from \in Nat,
         NEW count \in Nat, NEW size \in Nat, kind = "bd_read" => from + count <= size,
         NEW there \in PCs \ {"leave"}, Goto(t, there),
         call' = [call EXCEPT ![t] = NewCall(kind, from, count, size)],
         UNCHANGED <<blockRet, bdVars>>
  PROVE  Filling'
<1>1. Filled(NewCall(kind, from, count, size)) /\ NewCall(kind, from, count, size) \in CallRec
  BY NewCallFilled DEF Filled
<1> QED BY <1>1 DEF Filling, Guarded, Goto, bdVars

LEMMA EndFilling ==
  ASSUME Guarded, Filling, NEW t \in Threads, Forget(t), UNCHANGED <<devSize, sectorCount>>,
         \A u \in Threads : pc'[u] = "leave" => pc[u] = "leave" /\ u # t
  PROVE  Filling'
BY NoCallFilled DEF Filling, Guarded, Forget

LEMMA FhiFilling == ASSUME Guarded, Filling, Fhi PROVE Filling'
<1>0. pc \in [Threads -> PCs]
  BY DEF Guarded
<1>1. ASSUME NEW found \in BOOLEAN, FhiInit(found) PROVE Filling'
  BY <1>1 DEF FhiInit, blockVars, callVars, bdVars, Filling
<1>2. ASSUME NEW t \in Threads, NEW kind \in {"fhi_read", "fhi_write"}, NEW file \in FileIds,
             NEW from \in 0 .. MaxCount, NEW count \in 0 .. MaxCount,
             FhiCall(t, kind, file, from, count)
      PROVE  Filling'
  <2>1. FileSize[file] \in Nat /\ from \in Nat /\ count \in Nat /\ kind \in CallKinds
    BY UdpfsBlockAssumption DEF FileIds, CallKinds
  <2> QED BY <1>2, <2>1, BeginFilling DEF FhiCall, PCs
<1>3. ASSUME NEW t \in Threads, Take(t) PROVE Filling'
  BY <1>0, <1>3 DEF Take, Goto, bdVars, Filling
<1>4. ASSUME NEW t \in Threads, Core(t) PROVE Filling'
  BY <1>4, CoreFilling
<1>5. ASSUME NEW t \in Threads, Leave(t) PROVE Filling'
  <2>1. \A u \in Threads : pc'[u] = "leave" => pc[u] = "leave" /\ u # t
    BY <1>0, <1>5 DEF Leave
  <2> QED BY <1>5, <2>1, EndFilling DEF Leave, bdVars
<1> QED BY <1>1, <1>2, <1>3, <1>4, <1>5 DEF Fhi, FhiNext

LEMMA BdFilling == ASSUME Guarded, Filling, Bd PROVE Filling'
<1>0. pc \in [Threads -> PCs] /\ devSize \in Nat /\ (registered => sectorCount # -1)
  BY DEF Guarded
<1>1. ASSUME NEW found \in BOOLEAN, BdConnect(found) PROVE Filling'
  BY <1>1 DEF BdConnect, blockVars, callVars, bdVars, Filling
<1>2. CASE BdCapacity
  <2>1. devSize % WordMod \in Nat /\ devSize % WordMod <= devSize
    <3>1. WordMod \in Nat /\ WordMod > 1
      BY UdpfsBlockAssumption
    <3>2. /\ devSize = WordMod * (devSize \div WordMod) + (devSize % WordMod)
          /\ devSize % WordMod \in 0 .. WordMod - 1 /\ devSize \div WordMod \in Nat
      BY <1>0, <3>1, DivMod
    <3>3. WordMod * (devSize \div WordMod) \in Nat
      BY <3>1, <3>2
    <3> QED BY <1>0, <3>1, <3>2, <3>3
  <2> QED BY <1>2, <2>1 DEF BdCapacity, callVars, Filling
<1>3. CASE BdNoCapacity
  BY <1>3 DEF BdNoCapacity, blockVars, callVars, bdVars, Filling
<1>4. ASSUME NEW t \in Threads, NEW kind \in {"bd_read", "bd_write"},
             NEW from \in 0 .. MaxCount, NEW count \in 1 .. MaxCount, BdCall(t, kind, from, count)
      PROVE  Filling'
  <2>1. from \in Nat /\ count \in Nat /\ kind \in CallKinds
    BY UdpfsBlockAssumption DEF CallKinds
  <2>2. from < sectorCount /\ sectorCount \in Int /\ sectorCount <= devSize
    BY <1>4 DEF BdCall, Filling
  <2>3. Clamp(from, count) \in Nat /\ from + Clamp(from, count) <= devSize
    BY <1>0, <2>1, <2>2 DEF Clamp
  <2> QED BY <1>0, <1>4, <2>1, <2>3, BeginFilling DEF BdCall, PCs
<1>5. ASSUME NEW t \in Threads, Core(t) PROVE Filling'
  BY <1>5, CoreFilling
<1>6. ASSUME NEW t \in Threads, BdLeave(t) PROVE Filling'
  <2>1. \A u \in Threads : pc'[u] = "leave" => pc[u] = "leave" /\ u # t
    BY <1>0, <1>6 DEF BdLeave, Goto
  <2> QED BY <1>6, <2>1, EndFilling DEF BdLeave
<1> QED BY <1>1, <1>2, <1>3, <1>4, <1>5, <1>6 DEF Bd, BdNext

LEMMA FillingStep == Guarded /\ Filling /\ [Next]_vars => Filling'
<1>1. ASSUME Filling, UNCHANGED blockVars PROVE Filling'
  BY <1>1 DEF blockVars, callVars, bdVars, Filling
<1> QED BY <1>1, FhiFilling, BdFilling DEF Next, Ioman, vars

\* A read that returns its count has filled the buffer with exactly the sectors
\* asked for, for any sizes of chunk, call, file and device, with any number of
\* threads at the semaphore.
THEOREM ReadCompleteAlways == Spec => []ReadComplete
<1>1. ASSUME Filling PROVE ReadComplete
  <2>1. SUFFICES ASSUME NEW t \in Threads, pc[t] = "leave", blockRet[t] > 0,
                        \/ call[t].kind = "bd_read"
                        \/ call[t].kind = "fhi_read" /\ InRange(call[t])
                 PROVE  /\ blockRet[t] = call[t].count
                        /\ \A i \in 1 .. call[t].count : call[t].buf[i] = call[t].from + i
    BY DEF ReadComplete, InRange
  <2> QED BY <1>1, <2>1 DEF Filling, Filled
<1> QED BY <1>1, GuardedInit, GuardedStep, FillingInit, FillingStep, PTL DEF Spec
-----------------------------------------------------------------------------
(* The tables of the ioman device *)

LEMMA AllocFdFree == ASSUME FreeSlots # {} PROVE AllocFd \in Slots /\ fds[AllocFd] < 0
<1>1. FreeSlots \in SUBSET Nat
  BY DEF FreeSlots, Slots
<1>2. \E i \in FreeSlots : \A j \in FreeSlots : i <= j
  BY <1>1, Smallest
<1> QED BY <1>2 DEF AllocFd, FreeSlots

\* Driver, iomanX and, while the connection lives, the server have the same
\* files open at every moment, not only between calls; no two files share a
\* server handle; outside the ioman build, and before it connects, none is open.
Tables ==
  /\ fds \in [Slots -> Handles \cup {-1}] /\ privdata \in [Files -> Slots \cup {-1}]
  /\ given \in [Files -> Handles \cup {-1}] /\ srvPos \in [Handles -> -1 .. FileLen]
  /\ TablesAgree
  /\ \A f, g \in OpenFiles : given[f] = given[g] => f = g
  /\ Connected => \A h \in Handles : srvPos[h] # -1 <=> \E f \in OpenFiles : given[f] = h

ReadOp == [call : {"read"}, file : Files, handle : Handles, left : Nat, got : Seq(Int), from : Int]

\* What a call in progress knows still holds when the server answers.
Ops ==
  /\ build # "ioman" \/ conn = "new" =>
       OpenFiles = {} /\ op = Idle /\ \A h \in Handles : srvPos[h] = -1
  /\ op.call = "open" =>
       op.file \in Files \ OpenFiles /\ op.slot \in Slots /\ fds[op.slot] = -1
  /\ op.call = "close" => op.file \in OpenFiles /\ op.slot = privdata[op.file]
  /\ op.call = "read" =>
       op \in ReadOp /\ op.file \in OpenFiles /\ op.handle = given[op.file]
  /\ op.call \in {"write", "lseek"} =>
       /\ op.file \in OpenFiles /\ op.handle = given[op.file] /\ op.arg \in Nat
       /\ op.call = "lseek" => op.arg <= FileLen

LEMMA TablesInit == Init => Tables /\ Ops
BY UdpfsIomanAssumption
   DEF Init, IomanInit, Tables, Ops, TablesAgree, OpenFiles, Slots, Idle, Connected

\* Calls up to their first request: the tables stay as they are.
LEMMA LocalTables ==
  ASSUME Tables, Ops, build = "ioman", build' = build, conn # "new", UNCHANGED localRest, Ops'
  PROVE  Tables' /\ Ops'
BY DEF Tables, TablesAgree, OpenFiles, Connected, localRest

LEMMA CallTables ==
  ASSUME Tables, Ops, build = "ioman", build' = build, IomanCall
  PROVE  Tables' /\ Ops'
<1> USE DEF OpenFiles, localRest
<1>0. ASSUME NEW f \in OpenFiles PROVE conn # "new" /\ given[f] \in Handles /\ privdata[f] \in Slots
  BY <1>0 DEF Ops, Tables, TablesAgree
<1>1. ASSUME NEW f \in Files, NEW long \in BOOLEAN, OpenCall(f, long) PROVE Tables' /\ Ops'
  <2>1. CASE op' = Idle
    BY <1>1, <2>1, LocalTables DEF OpenCall, Loaded, Ops, Idle
  <2>2. CASE /\ FreeSlots # {} /\ privdata[f] = -1 /\ conn \in {"up", "down"}
             /\ op' = [call |-> "open", file |-> f, slot |-> AllocFd] /\ UNCHANGED localRest
    <3>1. AllocFd \in Slots /\ fds[AllocFd] = -1
      <4>1. AllocFd \in Slots /\ fds[AllocFd] < 0
        BY <2>2, AllocFdFree
      <4>2. fds[AllocFd] \in Handles \cup {-1}
        BY <4>1 DEF Tables
      <4>3. ASSUME NEW h \in Handles PROVE ~(h < 0)
        <5>1. h \in Nat
          BY UdpfsIomanAssumption
        <5> QED BY <5>1
      <4> QED BY <4>1, <4>2, <4>3
    <3>2. Ops'
      BY <2>2, <3>1 DEF Ops
    <3> QED BY <2>2, <3>2, LocalTables
  <2> QED BY <1>1, <2>1, <2>2 DEF OpenCall, Return, Loaded
<1>2. ASSUME NEW f \in Files, CloseCall(f) PROVE Tables' /\ Ops'
  <2>1. Ops'
    BY <1>0, <1>2 DEF CloseCall, Ops
  <2> QED BY <1>0, <1>2, <2>1, LocalTables DEF CloseCall
<1>3. ASSUME NEW f \in Files, NEW n \in Nat, ReadCall(f, n) PROVE Tables' /\ Ops'
  <2>1. f \in OpenFiles /\ UNCHANGED localRest
    BY <1>3 DEF ReadCall
  <2>2. CASE op' = Idle
    BY <1>0, <2>1, <2>2, LocalTables DEF Ops, Idle
  <2>3. CASE op' = [call |-> "read", file |-> f, handle |-> fds[privdata[f]], left |-> n,
                    got |-> <<>>, from |-> srvPos[given[f]]]
    <3>1. fds[privdata[f]] = given[f] /\ given[f] \in Handles
      BY <1>0, <2>1 DEF Tables, TablesAgree
    <3>2. srvPos[given[f]] \in Int
      <4>1. srvPos[given[f]] \in -1 .. FileLen /\ FileLen \in Nat
        BY <3>1, UdpfsIomanAssumption DEF Tables
      <4> QED BY <4>1
    <3>3. op' \in ReadOp
      BY <2>3, <3>1, <3>2 DEF ReadOp
    <3>4. Ops'
      BY <1>0, <2>1, <2>3, <3>1, <3>3 DEF Ops
    <3> QED BY <1>0, <2>1, <3>4, LocalTables
  <2> QED BY <1>3, <2>2, <2>3 DEF ReadCall, ReadResult
<1>4. ASSUME NEW f \in Files, NEW name \in {"write", "lseek", "dread"}, NEW arg \in Nat,
             name = "lseek" => arg <= FileLen, HandleCall(name, f, arg)
      PROVE  Tables' /\ Ops'
  <2>1. f \in OpenFiles /\ UNCHANGED localRest
    BY <1>4 DEF HandleCall
  <2>2. fds[privdata[f]] = given[f]
    BY <2>1 DEF Tables, TablesAgree
  <2>3. op' = Idle \/ op' = [call |-> name, file |-> f, handle |-> given[f], arg |-> arg]
    BY <1>4, <2>2 DEF HandleCall, Return
  <2>4. Ops'
    BY <1>0, <1>4, <2>1, <2>3 DEF Ops, Idle
  <2> QED BY <1>0, <2>1, <2>4, LocalTables
<1>5. ASSUME NEW long \in BOOLEAN, PathCall(long) PROVE Tables' /\ Ops'
  <2>1. Ops'
    BY <1>5 DEF PathCall, Ops, Idle, Loaded
  <2> QED BY <1>5, <2>1, LocalTables DEF PathCall, Loaded
<1>6. ASSUME NEW f \in Files, GetHandle(f) PROVE Tables' /\ Ops'
  <2>1. Ops'
    BY <1>0, <1>6 DEF GetHandle, Return, Ops, Idle
  <2> QED BY <1>0, <1>6, <2>1, LocalTables DEF GetHandle
<1> QED BY <1>1, <1>2, <1>3, <1>4, <1>5, <1>6, UdpfsIomanAssumption DEF IomanCall, DreadCall

\* An open or a close that is answered changes driver, iomanX and server in one
\* step; one that is not leaves a connection that is down.
LEMMA OpenTables ==
  ASSUME Tables, Ops, build = "ioman", build' = build,
         (\E h \in Handles : OpenDone(h)) \/ OpenRefused(EIO) \/ OpenLost
  PROVE  Tables' /\ Ops'
<1> USE DEF OpenFiles
<1>0. op.call = "open" /\ op' = Idle /\ conn # "new" /\ conn' # "new"
  BY DEF OpenDone, OpenRefused, OpenLost, Return, Answered, Lost, Connected
<1>1. op.file \in Files /\ privdata[op.file] = -1 /\ op.slot \in Slots /\ fds[op.slot] = -1
  BY <1>0 DEF Ops
<1>2. Ops'
  BY <1>0 DEF Ops, Idle
<1>3. ASSUME NEW h \in Handles, OpenDone(h) PROVE Tables'
  <2>1. /\ Connected /\ conn' = conn /\ srvPos[h] = -1 /\ srvPos' = [srvPos EXCEPT ![h] = 0]
        /\ fds' = [fds EXCEPT ![op.slot] = h] /\ given' = [given EXCEPT ![op.file] = h]
        /\ privdata' = [privdata EXCEPT ![op.file] = op.slot]
    BY <1>3 DEF OpenDone, Answered, SrvOpens
  <2>2. h # -1 /\ op.slot # -1 /\ 0 \in -1 .. FileLen
    BY <1>1, UdpfsIomanAssumption DEF Slots
  <2>3. OpenFiles' = OpenFiles \cup {op.file}
    BY <1>1, <2>1, <2>2 DEF Tables
  <2>4. \A f \in OpenFiles : given[f] # h /\ privdata[f] # op.slot /\ f # op.file
    BY <1>1, <2>1 DEF Tables, TablesAgree
  <2>5. /\ fds' \in [Slots -> Handles \cup {-1}] /\ privdata' \in [Files -> Slots \cup {-1}]
        /\ given' \in [Files -> Handles \cup {-1}] /\ srvPos' \in [Handles -> -1 .. FileLen]
    BY <1>1, <2>1, <2>2 DEF Tables
  <2>6. /\ given'[op.file] = h /\ privdata'[op.file] = op.slot /\ fds'[op.slot] = h
        /\ \A f \in OpenFiles : given'[f] = given[f] /\ privdata'[f] = privdata[f]
        /\ \A i \in Slots \ {op.slot} : fds'[i] = fds[i]
        /\ srvPos'[h] = 0 /\ \A k \in Handles \ {h} : srvPos'[k] = srvPos[k]
    BY <1>1, <2>1, <2>4 DEF Tables
  <2>7. TablesAgree'
    BY <2>2, <2>3, <2>4, <2>6 DEF Tables, TablesAgree
  <2>8. \A f, g \in OpenFiles' : given'[f] = given'[g] => f = g
    BY <2>3, <2>4, <2>6 DEF Tables
  <2>9. \A k \in Handles : srvPos'[k] # -1 <=> \E f \in OpenFiles' : given'[f] = k
    BY <2>1, <2>3, <2>4, <2>6 DEF Tables
  <2> QED BY <2>5, <2>7, <2>8, <2>9 DEF Tables
<1>4. CASE OpenRefused(EIO)
  BY <1>2, <1>4 DEF OpenRefused, Answered, Connected, Tables, TablesAgree
<1>5. CASE OpenLost
  <2>1. srvPos' \in [Handles -> -1 .. FileLen]
    BY <1>5, UdpfsIomanAssumption DEF OpenLost, SrvOpens, Tables
  <2> QED BY <1>2, <1>5, <2>1 DEF OpenLost, Lost, Connected, Tables, TablesAgree
<1> QED BY <1>2, <1>3, <1>4, <1>5

LEMMA CloseTables ==
  ASSUME Tables, Ops, build = "ioman", build' = build, CloseDone \/ CloseLost \/ CloseOffline
  PROVE  Tables' /\ Ops'
<1> USE DEF OpenFiles
<1>0. /\ op.call = "close" /\ op' = Idle
      /\ fds' = [fds EXCEPT ![op.slot] = -1] /\ privdata' = [privdata EXCEPT ![op.file] = -1]
      /\ given' = [given EXCEPT ![op.file] = -1]
  BY DEF CloseDone, CloseLost, CloseOffline, Closed, Return, FreeFd
<1>1. /\ op.file \in OpenFiles /\ op.slot = privdata[op.file] /\ op.slot \in Slots
      /\ given[op.file] = fds[op.slot] /\ given[op.file] \in Handles
  BY <1>0 DEF Ops, Tables, TablesAgree
<1>2. conn # "new" /\ conn' # "new"
  BY <1>0 DEF Ops, Idle, CloseDone, CloseLost, CloseOffline, Answered, Lost, Connected
<1>3. OpenFiles' = OpenFiles \ {op.file}
  BY <1>0, <1>1 DEF Tables
<1>4. /\ fds'[op.slot] = -1 /\ \A i \in Slots \ {op.slot} : fds'[i] = fds[i]
      /\ \A f \in OpenFiles' : given'[f] = given[f] /\ privdata'[f] = privdata[f]
  BY <1>0, <1>1, <1>3 DEF Tables
<1>5. Ops'
  BY <1>0, <1>2 DEF Ops, Idle
<1>6. /\ fds' \in [Slots -> Handles \cup {-1}] /\ privdata' \in [Files -> Slots \cup {-1}]
      /\ given' \in [Files -> Handles \cup {-1}]
  BY <1>0 DEF Tables
<1>7. srvPos' \in [Handles -> -1 .. FileLen]
  BY UdpfsIomanAssumption DEF Tables, CloseDone, CloseLost, CloseOffline, SrvCloses
<1>8. TablesAgree' /\ \A f, g \in OpenFiles' : given'[f] = given'[g] => f = g
  BY <1>1, <1>3, <1>4 DEF Tables, TablesAgree
<1>9. Connected' => \A h \in Handles : srvPos'[h] # -1 <=> \E f \in OpenFiles' : given'[f] = h
  <2>1. CASE CloseDone
    <3>1. Connected /\ srvPos' = [srvPos EXCEPT ![given[op.file]] = -1]
      BY <1>1, <2>1 DEF CloseDone, Answered, SrvCloses
    <3>2. srvPos'[given[op.file]] = -1 /\ \A h \in Handles \ {given[op.file]} : srvPos'[h] = srvPos[h]
      BY <1>1, <3>1 DEF Tables
    <3>3. \A f \in OpenFiles' : given'[f] # given[op.file]
      BY <1>1, <1>3, <1>4 DEF Tables
    <3>4. \A h \in Handles \ {given[op.file]} :
            (\E f \in OpenFiles' : given'[f] = h) <=> \E f \in OpenFiles : given[f] = h
      BY <1>1, <1>3, <1>4
    <3> QED BY <3>1, <3>2, <3>3, <3>4 DEF Tables
  <2>2. CASE CloseLost \/ CloseOffline
    BY <2>2 DEF CloseLost, CloseOffline, Lost, Connected
  <2> QED BY <2>1, <2>2
<1> QED BY <1>5, <1>6, <1>7, <1>8, <1>9 DEF Tables

\* Requests on an open file move its position and change nothing else.
LEMMA PositionTables ==
  ASSUME Tables, Ops, build = "ioman", build' = build, op # Idle, conn' = conn \/ Lost,
         UNCHANGED <<fds, privdata, given>>, Ops',
         UNCHANGED srvPos \/ (\E h \in Handles, p \in 0 .. FileLen :
                               srvPos[h] # -1 /\ srvPos' = [srvPos EXCEPT ![h] = p])
  PROVE  Tables' /\ Ops'
<1>1. /\ srvPos' \in [Handles -> -1 .. FileLen]
      /\ \A h \in Handles : srvPos'[h] # -1 <=> srvPos[h] # -1
  <2>1. CASE UNCHANGED srvPos
    BY <2>1 DEF Tables
  <2>2. CASE \E h \in Handles, p \in 0 .. FileLen :
               srvPos[h] # -1 /\ srvPos' = [srvPos EXCEPT ![h] = p]
    <3>1. PICK h \in Handles, p \in 0 .. FileLen :
                 srvPos[h] # -1 /\ srvPos' = [srvPos EXCEPT ![h] = p]
      BY <2>2
    <3>2. p # -1 /\ p \in -1 .. FileLen
      BY UdpfsIomanAssumption
    <3> QED BY <3>1, <3>2 DEF Tables
  <2> QED BY <2>1, <2>2
<1>2. Connected' => Connected
  BY DEF Lost, Connected
<1> QED BY <1>1, <1>2 DEF Tables, TablesAgree, OpenFiles

\* the sectors a request moves are there
LEMMA SmallerFits ==
  ASSUME NEW a \in Nat, NEW b \in Nat
  PROVE  Smaller(a, b) \in 0 .. b
BY DEF Smaller

LEMMA ReadTables ==
  ASSUME Tables, Ops, build = "ioman", build' = build, ReadChunk \/ ReadFailed
  PROVE  Tables' /\ Ops'
<1> USE DEF OpenFiles
<1>0. FileLen \in Nat /\ MaxRead \in Nat
  BY UdpfsIomanAssumption
<1>1. /\ op.call = "read" /\ op \in ReadOp /\ op.file \in OpenFiles /\ op.handle = given[op.file]
      /\ op.left \in Nat /\ op.handle \in Handles /\ op # Idle /\ Connected
      /\ UNCHANGED <<fds, privdata, given>>
  <2>1. op.call = "read" /\ Connected /\ UNCHANGED <<fds, privdata, given>>
    BY DEF ReadChunk, ReadFailed, Answered, Lost
  <2> QED BY <2>1 DEF Ops, ReadOp, Idle
<1>2. srvPos[op.handle] \in 0 .. FileLen /\ srvPos[op.handle] # -1
  <2>1. srvPos[op.handle] # -1 /\ srvPos[op.handle] \in -1 .. FileLen
    BY <1>1 DEF Tables
  <2> QED BY <1>0, <2>1
<1>3. Chunk \in Nat /\ Chunk <= op.left
  BY <1>0, <1>1 DEF Chunk, Smaller
<1>4. Smaller(Chunk, FileLen - srvPos[op.handle]) \in 0 .. FileLen - srvPos[op.handle]
  <2>1. FileLen - srvPos[op.handle] \in Nat
    BY <1>0, <1>2
  <2> QED BY <1>3, <2>1, SmallerFits
<1>5. srvPos[op.handle] + Smaller(Chunk, FileLen - srvPos[op.handle]) \in 0 .. FileLen
  BY <1>0, <1>2, <1>4
<1>6. CASE ReadChunk
  <2> DEFINE n == Smaller(Chunk, FileLen - srvPos[op.handle])
             got == op.got \o [i \in 1 .. n |-> srvPos[op.handle] + i]
  <2>1. /\ conn' = conn /\ srvPos' = [srvPos EXCEPT ![op.handle] = @ + n]
        /\ IF n < Chunk \/ op.left = n
             THEN op' = Idle
             ELSE op' = [op EXCEPT !.got = got, !.left = @ - n]
    BY <1>6 DEF ReadChunk, Answered, ReadReturn, ReadResult
  <2>2. n \in Nat /\ n <= op.left
    <3>1. n \in Nat /\ n <= Chunk
      BY <1>0, <1>2, <1>3, <1>4 DEF Smaller
    <3> QED BY <1>1, <1>3, <3>1
  <2>3. got \in Seq(Int)
    <3>1. op.got \in Seq(Int)
      BY <1>1 DEF ReadOp
    <3>2. [i \in 1 .. n |-> srvPos[op.handle] + i] \in Seq(Int)
      BY <1>0, <1>2, <2>2
    <3> QED BY <3>1, <3>2
  <2>4. \E h \in Handles, p \in 0 .. FileLen :
          srvPos[h] # -1 /\ srvPos' = [srvPos EXCEPT ![h] = p]
    BY <1>1, <1>2, <1>5, <2>1
  <2> HIDE DEF n, got
  <2>5. CASE op' = Idle
    <3>1. Ops'
      BY <1>1, <2>1, <2>5 DEF Ops, Idle, Connected
    <3> QED BY <1>1, <2>1, <2>4, <3>1, PositionTables
  <2>6. CASE op' = [op EXCEPT !.got = got, !.left = @ - n]
    <3>1. op.left - n \in Nat
      BY <1>1, <2>2
    <3>2. op' \in ReadOp /\ op'.call = "read" /\ op'.file = op.file /\ op'.handle = op.handle
      BY <1>1, <2>3, <2>6, <3>1 DEF ReadOp
    <3>3. Ops'
      BY <1>1, <2>1, <3>2 DEF Ops, Connected
    <3> QED BY <1>1, <2>1, <2>4, <3>3, PositionTables
  <2> QED BY <2>1, <2>5, <2>6
<1>7. CASE ReadFailed
  <2>1. /\ op' = Idle /\ (conn' = conn \/ Lost)
        /\ \/ UNCHANGED srvPos
           \/ srvPos' = [srvPos EXCEPT ![op.handle] = @ + Smaller(Chunk, FileLen - @)]
    BY <1>7 DEF ReadFailed, ReadReturn, ReadResult, Answered
  <2>2. Ops'
    BY <1>1, <2>1 DEF Ops, Idle, Connected, Lost
  <2>3. UNCHANGED srvPos \/ \E h \in Handles, p \in 0 .. FileLen :
          srvPos[h] # -1 /\ srvPos' = [srvPos EXCEPT ![h] = p]
    BY <1>1, <1>2, <1>5, <2>1
  <2> QED BY <1>1, <2>1, <2>2, <2>3, PositionTables
<1> QED BY <1>6, <1>7

LEMMA RequestTables ==
  ASSUME Tables, Ops, build = "ioman", build' = build,
         \/ WriteDone \/ (\E wide \in BOOLEAN : SeekDone(wide)) \/ HandleFailed(EIO)
         \/ \E r \in {0, 1, EIO} : QueryDone(r)
  PROVE  Tables' /\ Ops'
<1> USE DEF OpenFiles
<1>0. FileLen \in Nat
  BY UdpfsIomanAssumption
<1>1. /\ op.call \in {"write", "lseek", "dread", "path"} /\ op' = Idle /\ op # Idle /\ Connected
      /\ UNCHANGED <<fds, privdata, given>> /\ (conn' = conn \/ Lost)
  BY DEF WriteDone, SeekDone, HandleFailed, QueryDone, Answered, Lost, Return, Idle
<1>2. Ops'
  BY <1>1 DEF Ops, Idle, Connected, Lost
<1>3. CASE UNCHANGED srvPos
  BY <1>1, <1>2, <1>3, PositionTables
<1>4. CASE op.call \in {"write", "lseek"}
  <2>1. /\ op.file \in OpenFiles /\ op.handle = given[op.file] /\ op.arg \in Nat
        /\ op.call = "lseek" => op.arg <= FileLen
    BY <1>4 DEF Ops
  <2>2. op.handle \in Handles /\ srvPos[op.handle] # -1 /\ srvPos[op.handle] \in 0 .. FileLen
    <3>1. op.handle \in Handles /\ srvPos[op.handle] # -1
      BY <1>1, <2>1 DEF Tables, TablesAgree
    <3>2. srvPos[op.handle] \in -1 .. FileLen
      BY <3>1 DEF Tables
    <3> QED BY <1>0, <3>1, <3>2
  <2>3. Smaller(op.arg, FileLen - srvPos[op.handle]) \in 0 .. FileLen - srvPos[op.handle]
    <3>1. FileLen - srvPos[op.handle] \in Nat
      BY <1>0, <2>2
    <3> QED BY <2>1, <3>1, SmallerFits
  <2>4. \/ UNCHANGED srvPos
        \/ op.call = "lseek" /\ srvPos' = [srvPos EXCEPT ![op.handle] = op.arg]
        \/ \E n \in 0 .. Smaller(op.arg, FileLen - srvPos[op.handle]) :
             srvPos' = [srvPos EXCEPT ![op.handle] = @ + n]
    <3>1. CASE HandleFailed(EIO)
      <4>1. Smaller(op.arg, FileLen - srvPos[op.handle])
              \in 0 .. Smaller(op.arg, FileLen - srvPos[op.handle])
        BY <1>0, <2>2, <2>3
      <4> QED BY <3>1, <4>1 DEF HandleFailed
    <3> QED BY <1>4, <3>1 DEF WriteDone, SeekDone, QueryDone
  <2>5. UNCHANGED srvPos \/ \E h \in Handles, p \in 0 .. FileLen :
          srvPos[h] # -1 /\ srvPos' = [srvPos EXCEPT ![h] = p]
    <3>1. \A n \in 0 .. Smaller(op.arg, FileLen - srvPos[op.handle]) :
            srvPos[op.handle] + n \in 0 .. FileLen
      BY <1>0, <2>2, <2>3
    <3>2. op.call = "lseek" => op.arg \in 0 .. FileLen
      BY <1>0, <2>1
    <3> QED BY <2>2, <2>4, <3>1, <3>2
  <2> QED BY <1>1, <1>2, <2>5, PositionTables
<1> QED BY <1>1, <1>3, <1>4 DEF WriteDone, SeekDone, HandleFailed, QueryDone

LEMMA TablesStep == Tables /\ Ops /\ [Next]_vars => Tables' /\ Ops'
<1> SUFFICES ASSUME Tables, Ops, [Next]_vars PROVE Tables' /\ Ops'
  OBVIOUS
<1>1. CASE Ioman /\ build' = build
  <2>0. build = "ioman"
    BY <1>1 DEF Ioman
  <2>1. CASE (\E found \in BOOLEAN : InitDev(found)) \/ DeinitDev
    <3>1. /\ UNCHANGED iomanVars /\ op = Idle
          /\ conn = "new" \/ conn' = "none"
      BY <2>1 DEF InitDev, CoreInit, DeinitDev, CoreExit, Ops
    <3>2. CASE conn = "new"
      BY <2>0, <1>1, <3>1, <3>2 DEF iomanVars, Tables, TablesAgree, Ops, OpenFiles, Idle
    <3>3. CASE conn' = "none"
      BY <2>0, <1>1, <3>1, <3>3 DEF iomanVars, Tables, TablesAgree, Ops, OpenFiles, Idle, Connected
    <3> QED BY <3>1, <3>2, <3>3
  <2> QED BY <1>1, <2>0, <2>1, CallTables, OpenTables, CloseTables, ReadTables, RequestTables
          DEF Ioman, IomanNext, IomanExchange
<1>2. CASE UNCHANGED <<build, iomanVars>> /\ build # "ioman"
  BY <1>2 DEF iomanVars, Tables, TablesAgree, Ops, OpenFiles, Idle
<1>3. CASE UNCHANGED vars
  BY <1>3 DEF vars, iomanVars, Tables, TablesAgree, Ops, OpenFiles, Connected
<1> QED BY <1>1, <1>2, <1>3 DEF Next, Fhi, Bd

\* Driver, iomanX and server agree on what is open, for any number of files,
\* slots and handles, over refused, lost and partly served requests.
THEOREM HandlesAgreeAlways == Spec => []HandlesAgree
<1>1. ASSUME Tables PROVE HandlesAgree
  <2>1. \A f \in OpenFiles : given[f] \in Handles
    BY <1>1 DEF Tables, TablesAgree, OpenFiles
  <2>2. Connected => {h \in Handles : srvPos[h] # -1} = {given[f] : f \in OpenFiles}
    BY <1>1, <2>1 DEF Tables
  <2> QED BY <1>1, <2>2 DEF Tables, HandlesAgree, ServerAgrees
<1> QED BY <1>1, TablesInit, TablesStep, PTL DEF Spec
-----------------------------------------------------------------------------
(* What a file read delivers *)

\* A read in progress has delivered consecutive bytes up to where the server
\* is now; the result of a finished one stands until the next call begins.
Reads ==
  /\ op.call = "read" =>
       /\ \A i \in 1 .. Len(op.got) : op.got[i] = op.from + i
       /\ srvPos[op.handle] = op.from + Len(op.got)
  /\ ret.call = "read" => op = Idle /\ ret.file \in Files
  /\ ReadAccounted

LEMMA ReadsInit == Init => Reads
BY DEF Init, IomanInit, Reads, ReadAccounted, Idle, NoRet

\* a step that returns no read and is in none
LEMMA NoReads == ASSUME op'.call # "read", ret'.call # "read" PROVE Reads'
BY DEF Reads, ReadAccounted

\* a read that returns n bytes, all those it delivered
LEMMA ReturnReads ==
  ASSUME NEW f \in Files, NEW r \in Int, NEW got \in Seq(Int), NEW from \in Int, ReadResult(f, r, got, from),
         Len(got) = (IF r < 0 THEN 0 ELSE r),
         \A i \in 1 .. Len(got) : got[i] = from + i,
         Connected' /\ privdata'[f] # -1 => srvPos'[given'[f]] = from + Len(got)
  PROVE  Reads'
<1>1. /\ op' = Idle /\ op'.call # "read" /\ ret'.call = "read" /\ ret'.file = f /\ ret'.result = r
      /\ ret'.got = got /\ ret'.from = from
  BY DEF ReadResult, Idle
<1>2. ReadAccounted'
  BY <1>1 DEF ReadAccounted
<1> QED BY <1>1, <1>2 DEF Reads

LEMMA CallReads ==
  ASSUME Tables, Ops, Reads, build = "ioman", IomanCall
  PROVE  Reads'
<1>1. ASSUME NEW f \in Files, NEW n \in Nat, ReadCall(f, n) PROVE Reads'
  <2>1. f \in OpenFiles /\ UNCHANGED localRest
    BY <1>1 DEF ReadCall, OpenFiles
  <2>2. given[f] \in Handles /\ fds[privdata[f]] = given[f] /\ privdata[f] \in Slots
    BY <2>1 DEF Tables, TablesAgree, OpenFiles
  <2>3. given[f] >= 0 /\ srvPos[given[f]] \in Int
    <3>1. given[f] \in Nat /\ FileLen \in Nat
      BY <2>2, UdpfsIomanAssumption
    <3>2. srvPos[given[f]] \in -1 .. FileLen
      BY <2>2 DEF Tables
    <3> QED BY <3>1, <3>2
  <2>4. /\ <<>> \in Seq(Int) /\ Len(<<>>) = 0
        /\ \A from \in Int : \A i \in 1 .. Len(<<>>) : <<>>[i] = from + i
    OBVIOUS
  <2>5. CASE ~Valid(f)
    <3>1. ~Connected
      BY <2>2, <2>3, <2>5 DEF Valid
    <3>2. ReadResult(f, EIO, <<>>, 0) /\ ~Connected'
      BY <1>1, <2>1, <2>5, <3>1 DEF ReadCall, FdError, localRest, Connected
    <3>3. EIO \in Int /\ (IF EIO < 0 THEN 0 ELSE EIO) = 0 /\ 0 \in Int
      BY DEF EIO
    <3> QED BY <2>4, <3>2, <3>3, ReturnReads
  <2>6. CASE Valid(f) /\ n = 0
    <3>1. ReadResult(f, 0, <<>>, srvPos[given[f]])
      BY <1>1, <2>6 DEF ReadCall
    <3>2. srvPos'[given'[f]] = srvPos[given[f]] + 0
      BY <2>1, <2>3 DEF localRest
    <3>3. 0 \in Int /\ (IF 0 < 0 THEN 0 ELSE 0) = 0
      OBVIOUS
    <3> QED BY <2>3, <2>4, <3>1, <3>2, <3>3, ReturnReads
  <2>7. CASE Valid(f) /\ n # 0
    <3>1. /\ op' = [call |-> "read", file |-> f, handle |-> fds[privdata[f]], left |-> n,
                    got |-> <<>>, from |-> srvPos[given[f]]]
          /\ ret' = NoRet
      BY <1>1, <2>7 DEF ReadCall
    <3>2. /\ op'.got = <<>> /\ op'.from = srvPos[given[f]] /\ op'.handle = given[f]
          /\ srvPos' = srvPos /\ ret'.call # "read"
      BY <2>1, <2>2, <3>1 DEF localRest, NoRet
    <3>3. \A i \in 1 .. Len(op'.got) : op'.got[i] = op'.from + i
      BY <2>4, <3>2
    <3>4. srvPos'[op'.handle] = op'.from + Len(op'.got)
      BY <2>3, <2>4, <3>2
    <3> QED BY <3>2, <3>3, <3>4 DEF Reads, ReadAccounted
  <2> QED BY <2>5, <2>6, <2>7
<1>2. ASSUME NEW f \in Files, NEW name \in {"write", "lseek", "dread"}, NEW arg,
             HandleCall(name, f, arg)
      PROVE  Reads'
  BY <1>2, NoReads DEF HandleCall, Return, Idle, NoRet
<1>3. ASSUME NEW f \in Files, NEW long \in BOOLEAN, OpenCall(f, long) PROVE Reads'
  BY <1>3, NoReads DEF OpenCall, Return, Idle, NoRet
<1>4. ASSUME NEW f \in Files, CloseCall(f) \/ GetHandle(f) PROVE Reads'
  BY <1>4, NoReads DEF CloseCall, GetHandle, Return, Idle, NoRet
<1>5. ASSUME NEW long \in BOOLEAN, PathCall(long) PROVE Reads'
  BY <1>5, NoReads DEF PathCall, Idle, NoRet
<1>6. \A n \in 0 .. MaxSize : n \in Nat
  BY UdpfsIomanAssumption
<1> QED BY <1>1, <1>2, <1>3, <1>4, <1>5, <1>6 DEF IomanCall, DreadCall

\* the bytes a request delivers continue those already there
LEMMA AppendBytes ==
  ASSUME NEW got \in Seq(Int), NEW from \in Int, \A i \in 1 .. Len(got) : got[i] = from + i,
         NEW tail \in Seq(Int), \A i \in 1 .. Len(tail) : tail[i] = from + Len(got) + i
  PROVE  /\ got \o tail \in Seq(Int) /\ Len(got \o tail) = Len(got) + Len(tail)
         /\ \A i \in 1 .. Len(got \o tail) : (got \o tail)[i] = from + i
<1> DEFINE n == Len(tail)
<1>1. /\ got \o tail \in Seq(Int) /\ Len(got \o tail) = Len(got) + n
      /\ Len(got) \in Nat /\ n \in Nat
      /\ \A i \in 1 .. Len(got) + n :
           (got \o tail)[i] = IF i <= Len(got) THEN got[i] ELSE tail[i - Len(got)]
  BY ConcatProperties, LenProperties
<1> HIDE DEF n
<1>2. ASSUME NEW i \in 1 .. Len(got) + n, i > Len(got) PROVE tail[i - Len(got)] = from + i
  <2>1. i - Len(got) \in 1 .. n /\ from + Len(got) + (i - Len(got)) = from + i
    BY <1>1, <1>2
  <2> QED BY <2>1 DEF n
<1>3. ASSUME NEW i \in 1 .. Len(got) + n PROVE (got \o tail)[i] = from + i
  <2>1. CASE i <= Len(got)
    BY <1>1, <2>1
  <2>2. CASE i > Len(got)
    BY <1>1, <1>2, <2>2
  <2> QED BY <1>1, <2>1, <2>2
<1> QED BY <1>1, <1>3 DEF n

LEMMA ReadReads ==
  ASSUME Tables, Ops, Reads, build = "ioman", ReadChunk \/ ReadFailed
  PROVE  Reads'
<1>0. FileLen \in Nat /\ MaxRead \in Nat
  BY UdpfsIomanAssumption
<1>1. /\ op.call = "read" /\ op \in ReadOp /\ op.file \in OpenFiles /\ op.handle = given[op.file]
      /\ UNCHANGED <<fds, privdata, given>> /\ Connected
  <2>1. op.call = "read" /\ UNCHANGED <<fds, privdata, given>> /\ Connected
    BY DEF ReadChunk, ReadFailed, Answered, Lost
  <2> QED BY <2>1 DEF Ops
<1>2. /\ op.handle \in Handles /\ op.left \in Nat /\ op.got \in Seq(Int) /\ op.from \in Int
      /\ Len(op.got) \in Nat /\ op.file \in Files
  BY <1>1 DEF ReadOp
<1>3. /\ srvPos[op.handle] = op.from + Len(op.got) /\ ret.call # "read"
      /\ \A i \in 1 .. Len(op.got) : op.got[i] = op.from + i
  BY <1>1 DEF Reads, Idle
<1>4. srvPos[op.handle] \in 0 .. FileLen /\ srvPos \in [Handles -> -1 .. FileLen]
  <2>1. srvPos[op.handle] # -1 /\ srvPos[op.handle] \in -1 .. FileLen
    BY <1>1, <1>2 DEF Tables
  <2> QED BY <1>0, <2>1 DEF Tables
<1>5. CASE ReadChunk
  <2> DEFINE pos == srvPos[op.handle]
             n == Smaller(Chunk, FileLen - pos)
             got == op.got \o [i \in 1 .. n |-> pos + i]
  <2>1. /\ conn' = conn /\ srvPos' = [srvPos EXCEPT ![op.handle] = @ + n]
        /\ IF n < Chunk \/ op.left = n
             THEN ReadResult(op.file, Len(got), got, op.from)
             ELSE op' = [op EXCEPT !.got = got, !.left = @ - n] /\ ret' = ret
    BY <1>5 DEF ReadChunk, Answered, ReadReturn
  <2>2. n \in Nat
    <3>1. Chunk \in Nat
      BY <1>0, <1>2 DEF Chunk, Smaller
    <3>2. FileLen - pos \in Nat
      BY <1>0, <1>4
    <3> QED BY <3>1, <3>2 DEF Smaller
  <2> HIDE DEF n
  <2>3. pos \in Int
    BY <1>0, <1>4
  <2>4. /\ got \in Seq(Int) /\ Len(got) = Len(op.got) + n
        /\ \A i \in 1 .. Len(got) : got[i] = op.from + i
    <3> DEFINE tail == [i \in 1 .. n |-> pos + i]
    <3>1. tail \in Seq(Int) /\ Len(tail) = n /\ \A i \in 1 .. n : tail[i] = pos + i
      <4>1. tail \in [1 .. n -> Int]
        BY <2>3
      <4>2. DOMAIN tail = 1 .. n /\ \A i \in 1 .. n : tail[i] = pos + i
        OBVIOUS
      <4> HIDE DEF tail
      <4> QED BY <2>2, <4>1, <4>2
    <3>2. got = op.got \o tail
      OBVIOUS
    <3> HIDE DEF pos, got, tail
    <3>3. \A i \in 1 .. n : tail[i] = op.from + Len(op.got) + i
      BY <1>3, <3>1 DEF pos
    <3>4. /\ op.got \o tail \in Seq(Int) /\ Len(op.got \o tail) = Len(op.got) + Len(tail)
          /\ \A i \in 1 .. Len(op.got \o tail) : (op.got \o tail)[i] = op.from + i
      BY <1>2, <1>3, <3>1, <3>3, AppendBytes, Zenon
    <3> QED BY <3>1, <3>2, <3>4, Zenon
  <2> HIDE DEF got
  <2>5. srvPos'[op.handle] = op.from + Len(got)
    BY <1>2, <1>3, <1>4, <2>1, <2>2, <2>4
  <2>6. CASE ReadResult(op.file, Len(got), got, op.from)
    <3>1. Len(got) \in Int /\ Len(got) = (IF Len(got) < 0 THEN 0 ELSE Len(got))
      BY <2>4
    <3>2. srvPos'[given'[op.file]] = op.from + Len(got)
      BY <1>1, <2>5
    <3> QED BY <1>2, <2>4, <2>6, <3>1, <3>2, ReturnReads
  <2>7. CASE op' = [op EXCEPT !.got = got, !.left = @ - n] /\ ret' = ret
    <3>1. op'.got = got /\ op'.from = op.from /\ op'.handle = op.handle
      BY <1>1, <2>7 DEF ReadOp
    <3> QED BY <1>3, <2>4, <2>5, <2>7, <3>1 DEF Reads, ReadAccounted
  <2> QED BY <2>1, <2>6, <2>7
<1>6. CASE ReadFailed
  <2>1. /\ ReadResult(op.file, PartialResult, op.got, op.from)
        /\ UNCHANGED srvPos \/ ~Connected'
    BY <1>6 DEF ReadFailed, ReadReturn, Lost, Connected
  <2>2. PartialResult \in Int /\ Len(op.got) = (IF PartialResult < 0 THEN 0 ELSE PartialResult)
    BY <1>2 DEF PartialResult, EIO
  <2>3. Connected' => srvPos'[given'[op.file]] = op.from + Len(op.got)
    BY <1>1, <1>3, <2>1
  <2> QED BY <1>2, <1>3, <2>1, <2>2, <2>3, ReturnReads
<1> QED BY <1>5, <1>6

LEMMA ReadsStep == Tables /\ Ops /\ Reads /\ [Next]_vars => Reads'
<1> SUFFICES ASSUME Tables, Ops, Reads, [Next]_vars PROVE Reads'
  OBVIOUS
<1>1. CASE Ioman
  <2>0. build = "ioman"
    BY <1>1 DEF Ioman
  <2>1. ASSUME NEW found \in BOOLEAN, InitDev(found) PROVE Reads'
    BY <2>1 DEF InitDev, CoreInit, iomanVars, Ops, OpenFiles, Reads, ReadAccounted, Idle
  <2>2. CASE DeinitDev
    BY <2>2 DEF DeinitDev, CoreExit, iomanVars, Connected, Reads, ReadAccounted, Idle
  <2>3. CASE (\E h \in Handles : OpenDone(h)) \/ OpenRefused(EIO) \/ OpenLost
             \/ CloseDone \/ CloseLost \/ CloseOffline
    BY <2>3, NoReads DEF OpenDone, OpenRefused, OpenLost, CloseDone, CloseLost, CloseOffline, Closed,
       Return, Idle
  <2>4. CASE WriteDone \/ (\E wide \in BOOLEAN : SeekDone(wide)) \/ HandleFailed(EIO)
             \/ \E r \in {0, 1, EIO} : QueryDone(r)
    BY <2>4, NoReads DEF WriteDone, SeekDone, HandleFailed, QueryDone, Return, Idle
  <2> QED BY <1>1, <2>0, <2>1, <2>2, <2>3, <2>4, CallReads, ReadReads
          DEF Ioman, IomanNext, IomanExchange
<1>2. CASE UNCHANGED iomanVars /\ build # "ioman"
  BY <1>2 DEF iomanVars, Ops, OpenFiles, Reads, ReadAccounted, Idle
<1>3. CASE UNCHANGED vars
  BY <1>3 DEF vars, iomanVars, Connected, Reads, ReadAccounted
<1> QED BY <1>1, <1>2, <1>3 DEF Next, Fhi, Bd

\* What a read returns is the number of consecutive bytes it delivered, and the
\* server's position is right behind them while the connection lives, for any
\* number of files and any sizes of file, call and request.
THEOREM ReadAccountedAlways == Spec => []ReadAccounted
<1>1. Reads => ReadAccounted
  BY DEF Reads
<1> QED BY <1>1, TablesInit, TablesStep, ReadsInit, ReadsStep, PTL DEF Spec
=============================================================================
