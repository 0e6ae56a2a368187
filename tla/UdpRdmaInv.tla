----------------------------- MODULE UdpRdmaInv -----------------------------
(***************************************************************************)
(* The inductive invariant behind the safety of UdpRdma: what relates the  *)
(* counters of the socket, the packets in the network and the peer.        *)
(***************************************************************************)
EXTENDS UdpRdma

\* Where the thread is decides what is running.
InvControl ==
  /\ (kind # "none") <=> (pc \in Sending \cup Receiving)
  /\ kind # "none" => state = "CONNECTED" /\ issued > 0 /\ chunks > 0 /\ rxArmed
  /\ kind # "none" /\ pc # "call_set" => rxSize > 0
  /\ kind = "none" => chunks = 0
  /\ pc \in Receiving => chunks = 1
  /\ kind = "read" => chunks = 1 /\ MaxReply > 0
  /\ kind = "read" /\ pc # "call_set" => rxSize = MaxReply
  /\ state \in {"INIT", "DISCOVERING"} => issued = 0 /\ tx = 0 /\ stream = <<>>
  /\ pc \in {"disc_send", "disc_wait", "disc_woken"} => state = "DISCOVERING"
  /\ pc = "disc_dest" => state = "CONNECTED" /\ issued = 0
  /\ pc = "closed" => state = "INIT"

\* tx_seq_nr is the number of the next payload, or of the current one while
\* it is still to be sent (again).
InvTx ==
  /\ state = "CONNECTED" /\ pc \notin {"call_set", "send_start", "send_tx"} =>
       tx = issued % SeqMod
  /\ pc \in {"call_set", "send_start", "send_tx"} => tx = (issued - 1) % SeqMod
  /\ pc \in {"send_wait", "send_cancel", "send_check"} => sent = (issued - 1) % SeqMod

\* The last packet of a request, not yet applied, is the last one issued.
FinalIsLast(m) ==
  m.req \in {"read", "write"} /\ m.n >= Len(served) =>
    m.n = issued - 1 /\ chunks <= 1 /\ (kind # "none" => m.req = kind)

InvClientPackets ==
  /\ \A m \in c2s :
       /\ m.n <= issued /\ m.a <= rxN
       /\ m.req # "none" => m.seq = m.n % SeqMod /\ m.n < issued
       /\ "ACK" \in m.flags => m.ack = (m.a - 1) % SeqMod
       /\ m.n + MaxLag + 1 >= Len(served)
       /\ m.a + MaxLag >= base
       /\ FinalIsLast(m)
  /\ \A m, k \in c2s : k.n <= m.n + MaxLag /\ k.a <= m.a + MaxLag

InvPeerPackets ==
  \A m \in s2c :
    /\ m.seq = m.n % SeqMod /\ nxt <= m.n + MaxLag
    /\ HasPayload(m) => /\ m.n < nxt
                        /\ m.hdr = stream[m.n + 1].hdr /\ m.len = stream[m.n + 1].len
                        /\ ("FIN" \in m.flags) = stream[m.n + 1].fin

InvWindow ==
  /\ rxExp = rxN % SeqMod
  /\ base <= rxN /\ rxN <= nxt /\ nxt <= Len(stream) /\ nxt <= base + SendWindow

\* packets of the longest request
MaxRequest == IF MaxChunks = 0 THEN 1 ELSE MaxChunks

InvServed ==
  /\ Len(served) <= issued
  /\ kind # "none" => issued + chunks <= Len(served) + MaxRequest + 1
  /\ issued <= Len(served) + MaxRequest
  /\ state = "CONNECTED" /\ kind = "none" => Len(served) = issued /\ rxN = Len(stream)
  /\ rxN < Len(stream) => Len(served) = issued /\ chunks <= 1

\* While the receive buffer is being set, no packet can arrive that would be
\* taken into it: everything before is settled, and the request is not out.
InvArming ==
  pc = "call_set" =>
    /\ Len(served) = issued - 1 /\ rxN = Len(stream)
    /\ \A m \in c2s : m.req # "none" => m.n < issued - 1

\* While a call runs, what is left of stream is the rest of its reply, which
\* ends in the only FIN and fits the buffer.
InvReply ==
  kind # "none" /\ pc # "call_set" =>
    /\ Len(served) < issued \/ chunks > 1 => rxData = <<>>
    /\ \A i \in rxN + 1 .. Len(stream) : stream[i].fin <=> i = Len(stream)
    /\ rxN + 1 < Len(stream) => Len(rxData) + (Len(stream) - rxN) <= rxSize

Finished == (pc = "recv_woken" /\ "FIN" \in bits) \/ pc = "recv_done"

\* EF_RX_FIN is up only when the call has its whole reply.
InvFin ==
  /\ state # "DISCONNECTED" /\ ("FIN" \in flags \/ Finished) =>
       kind # "none" /\ rxN = Len(stream) /\ Len(served) = issued /\ chunks <= 1
  /\ Finished => "FIN" \notin flags

\* Together with the type invariant and the order in which the peer applies
\* payloads, these facts are inductive.
CoreInv ==
  /\ TypeOK /\ ServedInOrder
  /\ InvControl /\ InvTx /\ InvClientPackets /\ InvPeerPackets /\ InvWindow
  /\ InvServed /\ InvReply /\ InvFin

IInv == CoreInv /\ InvArming

-----------------------------------------------------------------------------
(* What a running call knows of its reply *)

Mine == ReplyTo(issued - 1)

\* A reply answers a payload that was applied, has one header at most, and
\* only an empty one, of one packet, carries no data.
InvStream ==
  /\ \A i \in 1 .. Len(stream) :
       stream[i].for < Len(served) /\ (stream[i].len = 0 => stream[i].fin)
  /\ \A i, j \in 1 .. Len(stream) :
       stream[i].for = stream[j].for /\ stream[i].hdr /\ stream[j].hdr => i = j

\* What is still to come belongs to the call, and fits.
InvPending ==
  kind # "none" /\ pc # "call_set" =>
    /\ chunks > 1 => Mine = {}
    /\ rxN .. Len(stream) - 1 \subseteq Mine
    /\ rxN < Len(stream) => Len(rxData) + (Len(stream) - rxN) <= rxSize
    /\ kind = "write" => \A i \in Mine : ~stream[i + 1].hdr

\* The buffers hold what has come of it.
InvHeld ==
  kind # "none" /\ pc # "call_set" =>
    /\ {rxData[k] : k \in 1 .. Len(rxData)} = {i \in Mine : i < rxN /\ stream[i + 1].len > 0}
    /\ \A k \in 1 .. Len(rxData) - 1 : rxData[k + 1] = rxData[k] + 1
    /\ rxData # <<>> /\ rxN < Len(stream) => rxData[Len(rxData)] = rxN - 1

InvHeader ==
  kind = "read" =>
    /\ hdrArmed
    /\ \A i \in Mine : i < rxN /\ stream[i + 1].hdr => hdrVal = i
    /\ hdrRecv => \E i \in Mine : i < rxN /\ stream[i + 1].hdr

\* What EF_RX_FIN and a result of 0 mean.
InvEnd ==
  /\ state # "DISCONNECTED" /\ ("FIN" \in flags \/ Finished) => Mine # {}
  /\ ret = "ok" => kind = "none" /\ state = "CONNECTED" /\ ~rxArmed

CallInv == InvStream /\ InvPending /\ InvHeld /\ InvHeader /\ InvEnd /\ CallComplete
=============================================================================
