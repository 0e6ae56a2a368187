------------------------------- MODULE SmapTx -------------------------------
(***************************************************************************)
(* Transmission in the SMAP driver (xfer.c).  A caller of smap_transmit    *)
(* holds tx_sema while it takes back the buffer descriptors (BDs) the      *)
(* hardware has finished with, copies its frame to the transmit memory and *)
(* posts a BD; when the ring or the memory is full it waits and tries      *)
(* again.  The hardware sends posted frames in ring order, at any time.    *)
(*                                                                         *)
(* The memory is a ring of words; a word of a frame is <<frame, position>>.*)
(***************************************************************************)
EXTENDS Integers, Sequences, FiniteSets

CONSTANTS
  Senders,    \* threads that call smap_transmit
  NumBds,     \* SMAP_BD_MAX_ENTRY (64)
  IndexMod,   \* where the u8 ring indices wrap (256)
  TxBufSize,  \* SMAP_TX_BUFSIZE in bytes (4096)
  FrameSizes  \* <<headersize, datasize>> of the frames callers send

ASSUME SmapTxAssumption ==
  /\ {NumBds, IndexMod, TxBufSize} \subseteq Nat \ {0}
  /\ IndexMod % NumBds = 0 /\ NumBds < IndexMod /\ TxBufSize % 4 = 0
  /\ FrameSizes \subseteq Nat \X Nat
  \* every frame has an Ethernet header (eth_packet_send_ll); a header with data
  \* behind it is whole words (the align field of udp_packet_t)
  /\ \A s \in FrameSizes :
       s[1] > 0 /\ s[1] + s[2] + 3 <= TxBufSize /\ (s[1] % 4 = 0 \/ s[2] = 0)

VARIABLES
  txpc,       \* per caller: where it is
  txSize,     \* per caller: the sizes of its frame
  txFree,     \* tx_sema
  txBd,       \* the ring: is a BD READY, its length and its pointer (in words)
  TxBDIndex, TxDNVBDIndex, NumPacketsInTx, TxBufferSpaceAvailable,
  wrPtr,      \* the FIFO's write pointer, in words
  txMem,      \* the transmit memory
  \* hardware
  hwTx,       \* the BD it sends next
  \* history
  posted      \* frames posted so far

txVars == <<txpc, txSize, txFree, txBd, TxBDIndex, TxDNVBDIndex, NumPacketsInTx,
            TxBufferSpaceAvailable, wrPtr, txMem, hwTx, posted>>

TxPCs == {"idle", "start", "sema", "retire", "copied", "full"}
Bds   == 0 .. NumBds - 1
Words == 0 .. (TxBufSize \div 4) - 1

TxInit ==
  /\ txpc = [t \in Senders |-> "idle"] /\ txSize = [t \in Senders |-> <<0, 0>>]
  /\ txFree = TRUE
  /\ txBd = [b \in Bds |-> [ready |-> FALSE, len |-> 0, ptr |-> 0]]
  /\ TxBDIndex = 0 /\ TxDNVBDIndex = 0 /\ NumPacketsInTx = 0
  /\ TxBufferSpaceAvailable = TxBufSize
  /\ wrPtr = 0 /\ txMem = [w \in Words |-> <<0, 0>>]
  /\ hwTx = 0 /\ posted = 0

NumWords(bytes) == (bytes + 3) \div 4
Rounded(bytes)  == 4 * NumWords(bytes)

TxGoto(t, there) == txpc' = [txpc EXCEPT ![t] = there]

-----------------------------------------------------------------------------
(* smap_transmit *)

Transmit(t, size) ==
  /\ txpc[t] = "idle"
  /\ TxGoto(t, "start") /\ txSize' = [txSize EXCEPT ![t] = size]
  /\ UNCHANGED <<txFree, txBd, TxBDIndex, TxDNVBDIndex, NumPacketsInTx,
                 TxBufferSpaceAvailable, wrPtr, txMem, hwTx, posted>>

txRest == <<txSize, txBd, TxBDIndex, TxDNVBDIndex, NumPacketsInTx, TxBufferSpaceAvailable,
            wrPtr, txMem, hwTx, posted>>

\* the driver is ready, or two seconds have passed
TxStart(t) == txpc[t] = "start" /\ TxGoto(t, "sema") /\ UNCHANGED <<txFree, txRest>>

TxTake(t) ==
  /\ txpc[t] = "sema" /\ txFree
  /\ txFree' = FALSE /\ TxGoto(t, "retire") /\ UNCHANGED txRest

\* a BD that is no longer READY has been sent; a driver that does not look
SentUnchecked(b) == TRUE
Sent(b) == ~txBd[b].ready

Oldest == TxDNVBDIndex % NumBds

\* the memory of a sent frame
Freed(b) == Rounded(txBd[b].len)

Retire(t) ==
  /\ txpc[t] = "retire" /\ NumPacketsInTx > 0 /\ Sent(Oldest)
  /\ TxBufferSpaceAvailable' = TxBufferSpaceAvailable + Freed(Oldest)
  /\ TxDNVBDIndex' = (TxDNVBDIndex + 1) % IndexMod
  /\ NumPacketsInTx' = NumPacketsInTx - 1
  /\ UNCHANGED <<txpc, txSize, txFree, txBd, TxBDIndex, wrPtr, txMem, hwTx, posted>>

Retired == NumPacketsInTx = 0 \/ ~Sent(Oldest)
Size(t) == txSize[t][1] + txSize[t][2]
NoRoom(t) == NumPacketsInTx >= NumBds \/ TxBufferSpaceAvailable < Rounded(Size(t))

\* the semaphore is given back in every round; only when the frame is out
SemaWhenFullKept == FALSE
SemaWhenFull == TRUE

\* no BD or no memory: DelayThread, and everything again
Full(t) ==
  /\ txpc[t] = "retire" /\ Retired /\ NoRoom(t)
  /\ txFree' = SemaWhenFull /\ TxGoto(t, "sema") /\ UNCHANGED txRest

\* CopyToFIFO of the header and of the data, each rounded to words
CopyToFIFO(t) ==
  LET words == NumWords(txSize[t][1]) + NumWords(txSize[t][2])
      place(i) == (wrPtr + i - 1) % (TxBufSize \div 4)
  IN  /\ txMem' = [w \in Words |->
                     IF \E i \in 1 .. words : place(i) = w
                       THEN <<posted + 1, CHOOSE i \in 1 .. words : place(i) = w>>
                       ELSE txMem[w]]
      /\ wrPtr' = (wrPtr + words) % (TxBufSize \div 4)

\* BD_data_ptr is read before the copy and written to the BD after it
Copy(t) ==
  /\ txpc[t] = "retire" /\ Retired /\ ~NoRoom(t)
  /\ CopyToFIFO(t)
  /\ txBd' = [txBd EXCEPT ![TxBDIndex % NumBds] = [@ EXCEPT !.len = Size(t), !.ptr = wrPtr]]
  /\ TxGoto(t, "copied")
  /\ UNCHANGED <<txSize, txFree, TxBDIndex, TxDNVBDIndex, NumPacketsInTx,
                 TxBufferSpaceAvailable, hwTx, posted>>

Post(t) ==
  /\ txpc[t] = "copied"
  /\ txBd' = [txBd EXCEPT ![TxBDIndex % NumBds].ready = TRUE]
  /\ TxBDIndex' = (TxBDIndex + 1) % IndexMod
  /\ NumPacketsInTx' = NumPacketsInTx + 1
  /\ TxBufferSpaceAvailable' = TxBufferSpaceAvailable - Rounded(Size(t))
  /\ posted' = posted + 1
  /\ txFree' = TRUE /\ TxGoto(t, "idle")
  /\ UNCHANGED <<txSize, TxDNVBDIndex, wrPtr, txMem, hwTx>>

Sender(t) == TxStart(t) \/ TxTake(t) \/ Retire(t) \/ Full(t) \/ Copy(t) \/ Post(t)

\* the MAC sends the frame of its next BD; DMA reads the memory as it is then
HwSend ==
  /\ txBd[hwTx].ready
  /\ txBd' = [txBd EXCEPT ![hwTx].ready = FALSE]
  /\ hwTx' = (hwTx + 1) % NumBds
  /\ UNCHANGED <<txpc, txSize, txFree, TxBDIndex, TxDNVBDIndex, NumPacketsInTx,
                 TxBufferSpaceAvailable, wrPtr, txMem, posted>>

-----------------------------------------------------------------------------

TxTypeOK ==
  /\ txpc \in [Senders -> TxPCs] /\ txFree \in BOOLEAN
  /\ txBd \in [Bds -> [ready : BOOLEAN, len : Nat, ptr : Words]]
  /\ TxBDIndex \in 0 .. IndexMod - 1 /\ TxDNVBDIndex \in 0 .. IndexMod - 1
  /\ NumPacketsInTx \in 0 .. NumBds
  /\ TxBufferSpaceAvailable \in 0 .. TxBufSize
  /\ wrPtr \in Words /\ hwTx \in Bds /\ posted \in Nat

\* The frames the hardware would still send, as it would find them: the number
\* of a frame all of whose words are in place, 0 for one that is damaged.
NumReady == Cardinality({b \in Bds : txBd[b].ready})

FrameIn(b) ==
  LET word(i) == txMem[(txBd[b].ptr + i - 1) % (TxBufSize \div 4)]
      n == NumWords(txBd[b].len)
  IN  IF \A i \in 1 .. n : word(i) = <<word(1)[1], i>> THEN word(1)[1] ELSE 0

Pending == [i \in 1 .. NumReady |->
              LET b == (hwTx + i - 1) % NumBds IN IF txBd[b].ready THEN FrameIn(b) ELSE 0]

Queue == INSTANCE TxQueue WITH accepted <- posted, queue <- Pending

\* The ring is a queue: every frame leaves whole, once and in order, although
\* BDs and memory are reused while the hardware sends (xfer.c:207).
ImplementsTxQueue == Queue!Spec

=============================================================================
