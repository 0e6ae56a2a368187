------------------------------ MODULE UdpRdma ------------------------------
(***************************************************************************)
(* One UDPRDMA socket (udprdma.c), the request layer that drives it        *)
(* (udpfs_core.c), and the two things outside the source that they talk    *)
(* to: the peer, a Go-Back-N server, and a network that loses, duplicates  *)
(* and reorders packets.                                                   *)
(*                                                                         *)
(* Three activities interleave on the IOP: the caller's thread (pc), the   *)
(* receive thread that runs _ist at a higher priority (the Rx actions) and *)
(* the alarm interrupt (AlarmFires).  They share the socket structure and  *)
(* its event flag.                                                         *)
(*                                                                         *)
(* Data is abstracted to numbers.  The n-th payload handed to              *)
(* udprdma_send/_send_ll since the connection is the number n (from 0), so *)
(* a retransmission carries the same number; a packet of the peer's stream *)
(* is its index in stream (from 0).  On the wire both appear modulo        *)
(* SeqMod, as the 12 bit sequence numbers.                                 *)
(***************************************************************************)
EXTENDS Integers, Sequences, FiniteSets

CONSTANTS
  SeqMod,       \* size of the sequence space (4096: the 12 bit seq_nr)
  MaxRetries,   \* UDPRDMA_MAX_RETRIES (4)
  AckWindow,    \* UDPRDMA_RX_ACK_WINDOW (6)
  SendWindow,   \* packets the peer keeps unacknowledged (8)
  MaxLag,       \* how far behind the newest packet a late one can still arrive
  MaxChunks,    \* most packets of one write request (0: no writes)
  MaxReply,     \* most data packets of one read reply (0: no reads)
  MaxCalls,     \* bound on the requests of a run
  Servers,      \* hosts that offer the service
  Foreign,      \* hosts that announce another service
  Consoles,     \* other clients that look for the same service
  NoHost        \* no address yet

ASSUME BoundsAssumption ==
  /\ {SeqMod, MaxRetries, AckWindow, SendWindow, MaxLag} \subseteq Nat \ {0}
  /\ {MaxChunks, MaxReply, MaxCalls} \subseteq Nat
  /\ NoHost \notin Servers \cup Foreign \cup Consoles

\* A packet is never so late, and a request never so long, that a sequence
\* number of the 12 bit space could be mistaken for one a whole turn away.
ASSUME SeqSpaceAssumption ==
  /\ SendWindow <= MaxLag
  /\ MaxLag + MaxLag < SeqMod
  /\ MaxChunks <= SeqMod

NoHdr  == -1

EventBits == {"DISC", "INFO", "ACK", "NACK", "FIN", "WINDOW", "TIMEOUT"}

VARIABLES
  \* struct udprdma_socket
  state,      \* state
  peer,       \* peer_ip
  dest,       \* destination address built into pkt_data
  tx,         \* tx_seq_nr
  acked,      \* tx_seq_nr_acked
  rxArmed,    \* rx_buffer # NULL
  rxSize,     \* rx_buffer_size, in data packets
  rxData,     \* what the buffer holds: stream numbers; Len is rx_received
  rxExp,      \* rx_seq_nr_expected
  rxWin,      \* rx_window_count
  hdrArmed,   \* rx_hdr_buffer # NULL
  hdrRecv,    \* rx_hdr_received # 0
  hdrVal,     \* stream number of the packet whose header the buffer holds
  flags,      \* bits of event_flag
  alarm,      \* is _timeout_cb pending
  \* the caller's thread: program counter and locals
  pc, bits, sent, retries,
  kind,       \* "read", "write", or "none" outside a call of udpfs_core
  chunks,     \* packets of the request still to be sent, the current one included
  ret,        \* what the last call returned
  calls,      \* calls made so far (bounded by MaxCalls)
  \* history of the socket
  issued,     \* payloads handed to udprdma_send so far
  rxN,        \* stream packets accepted so far
  \* the network
  discovery,  \* a DISCOVERY broadcast is out
  informs,    \* senders of INFORM packets that are out
  c2s, s2c,   \* DATA packets that may still arrive, any number of times
  \* the peer
  served,     \* payload numbers it accepted, in order
  stream,     \* every packet of its replies
  base,       \* first packet of stream the client has not acknowledged
  nxt         \* first packet of stream not yet sent

Discovering == {"disc_send", "disc_wait", "disc_woken", "disc_dest"}
Sending     == {"call_set", "send_start", "send_tx", "send_wait", "send_cancel",
                "send_check"}
Receiving   == {"recv_start", "recv_wait", "recv_woken", "recv_again", "recv_done"}
PCs         == {"idle", "closed"} \cup Discovering \cup Sending \cup Receiving

sockVars == <<state, peer, dest, tx, acked, rxArmed, rxSize, rxData, rxExp,
              rxWin, hdrArmed, hdrRecv, hdrVal>>
rxVars   == <<rxArmed, rxSize, rxData, rxExp, rxWin, hdrArmed, hdrRecv, hdrVal, rxN>>
thrVars  == <<pc, bits, sent, retries, kind, chunks, ret, calls, issued>>
netVars  == <<discovery, informs, c2s, s2c>>
srvVars  == <<served, stream, base, nxt>>
vars     == <<sockVars, flags, alarm, thrVars, rxN, netVars, srvVars>>

-----------------------------------------------------------------------------
(* Sequence numbers and packets *)

\* (seq_nr + 1) & 0xFFF, and its form without the mask
NextSeqUnmasked(n) == n + 1
NextSeq(n) == (n + 1) % SeqMod

\* (rx_seq_nr_expected - 1) & 0xFFF, and an ACK one packet ahead
LastReceivedAhead == rxExp
LastReceived == (rxExp - 1) % SeqMod

\* DATA packets.  n and a are the absolute positions that seq and ack stand
\* for; only the network's lifetime rule reads them, and n of a packet with
\* payload is the payload.  A client packet carries nothing ("none"), a packet
\* of a request with more to come ("more"), or the last one, which tells the
\* peer what to reply to ("read" or "write").
ClientPacket(n, ack, fl, req) ==
  [n |-> n, seq |-> tx, a |-> rxN, ack |-> ack, flags |-> fl, req |-> req]

\* The network keeps what was sent no more than MaxLag packets ago.
Fresh(net, n, a) == {m \in net : m.n + MaxLag >= n /\ m.a + MaxLag >= a}

\* _send_ack: an ACK names the last packet received, a NACK the one expected.
AckPacket(isAck) ==
  IF isAck THEN ClientPacket(issued, LastReceived, {"ACK"}, "none")
           ELSE ClientPacket(issued, rxExp, {}, "none")

\* _send_data, _send_data_ll: one packet is a complete transfer, FIN is set.
DataPacket ==
  ClientPacket(issued - 1, LastReceived, {"ACK", "FIN"},
               IF chunks > 1 THEN "more" ELSE kind)

ToPeer(m) ==
  c2s' = IF dest \in Servers THEN Fresh(c2s \cup {m}, m.n, m.a) ELSE c2s

HasPayload(m) == m.hdr \/ m.len > 0

-----------------------------------------------------------------------------
(* udprdma_create, then udprdma_discover *)

\* SetAlarm before every wait, and a wait without it
SetAlarmForgotten == alarm' = FALSE
SetAlarm == alarm' = TRUE

Init ==
  /\ state = "INIT" /\ peer = NoHost /\ dest = NoHost
  /\ tx = 0 /\ acked = 0
  /\ rxArmed = FALSE /\ rxSize = 0 /\ rxData = <<>> /\ rxExp = 0 /\ rxWin = 0
  /\ hdrArmed = FALSE /\ hdrRecv = FALSE /\ hdrVal = NoHdr
  /\ flags = {} /\ alarm = FALSE
  /\ pc = "idle" /\ bits = {} /\ sent = 0 /\ retries = 0
  /\ kind = "none" /\ chunks = 0 /\ ret = "none" /\ calls = 0
  /\ issued = 0 /\ rxN = 0
  /\ discovery = FALSE /\ informs = {} /\ c2s = {} /\ s2c = {}
  /\ served = <<>> /\ stream = <<>> /\ base = 0 /\ nxt = 0

Discover ==
  /\ pc = "idle" /\ state = "INIT"
  /\ state' = "DISCOVERING" /\ retries' = 0 /\ pc' = "disc_send"
  /\ UNCHANGED <<peer, dest, tx, acked, rxVars, flags, alarm, bits, sent, kind,
                 chunks, ret, calls, issued, netVars, srvVars>>

DiscSend ==
  /\ pc = "disc_send"
  /\ discovery' = TRUE /\ SetAlarm /\ pc' = "disc_wait"
  /\ UNCHANGED <<state, peer, dest, tx, acked, rxVars, flags, bits, sent, retries,
                 kind, chunks, ret, calls, issued, informs, c2s, s2c, srvVars>>

\* WaitEventFlag with WEF_CLEAR clears the whole flag, not only the bits waited for.
WaitClear(at, for, next) ==
  /\ pc = at /\ flags \cap for # {}
  /\ bits' = flags /\ flags' = {} /\ pc' = next
  /\ UNCHANGED <<sockVars, alarm, sent, retries, kind, chunks, ret, calls, issued,
                 rxN, netVars, srvVars>>

DiscWake == WaitClear("disc_wait", {"INFO", "TIMEOUT"}, "disc_woken")

\* From here on the steps after a wait cancel its alarm first.
DiscConnected ==
  /\ pc = "disc_woken" /\ "INFO" \in bits
  /\ alarm' = FALSE /\ bits' = {}
  /\ state' = "CONNECTED" /\ pc' = "disc_dest"
  /\ UNCHANGED <<peer, dest, tx, acked, rxVars, flags, sent, retries, kind, chunks,
                 ret, calls, issued, netVars, srvVars>>

\* udp_packet_init(&pkt_data, socket->peer_ip, ...)
DiscDest ==
  /\ pc = "disc_dest"
  /\ dest' = peer /\ pc' = "idle"
  /\ UNCHANGED <<state, peer, tx, acked, rxVars, flags, alarm, bits, sent, retries,
                 kind, chunks, ret, calls, issued, netVars, srvVars>>

DiscRetry ==
  /\ pc = "disc_woken" /\ "INFO" \notin bits
  /\ alarm' = FALSE /\ bits' = {} /\ retries' = retries + 1
  /\ \/ retries + 1 < MaxRetries /\ pc' = "disc_send" /\ UNCHANGED state
     \* udpfs_core_init destroys the socket: the state is INIT again, the
     \* event flag is gone and the driver is not installed.
     \/ retries + 1 = MaxRetries /\ pc' = "closed" /\ state' = "INIT"
  /\ UNCHANGED <<peer, dest, tx, acked, rxVars, flags, sent, kind, chunks, ret, calls,
                 issued, netVars, srvVars>>

-----------------------------------------------------------------------------
(* udpfs_core: a call arms the receive side, sends, then receives *)

\* _recv_with_result: a READ or BREAD request, its reply led by an app header.
\* udprdma_set_rx_app_header, and the first assignment of udprdma_set_rx_buffer:
\* from here on _ist takes packets for the buffer.
CallRead ==
  /\ pc = "idle" /\ state = "CONNECTED" /\ calls < MaxCalls /\ MaxReply > 0
  /\ hdrArmed' = TRUE /\ hdrRecv' = FALSE /\ hdrVal' = NoHdr /\ rxArmed' = TRUE
  /\ kind' = "read" /\ chunks' = 1 /\ issued' = issued + 1 /\ calls' = calls + 1
  /\ ret' = "none" /\ pc' = "call_set"
  /\ UNCHANGED <<state, peer, dest, tx, acked, rxSize, rxData, rxExp, rxWin, rxN, flags,
                 alarm, bits, sent, retries, netVars, srvVars>>

\* _write_with_combined_header: k packets and a WRITE_DONE; with k = 1 also
\* _send_recv, whose requests and replies are one packet each
CallWrite(k) ==
  /\ pc = "idle" /\ state = "CONNECTED" /\ calls < MaxCalls
  /\ rxArmed' = TRUE
  /\ kind' = "write" /\ chunks' = k /\ issued' = issued + 1 /\ calls' = calls + 1
  /\ ret' = "none" /\ pc' = "call_set"
  /\ UNCHANGED <<state, peer, dest, tx, acked, rxSize, rxData, rxExp, rxWin, rxN,
                 hdrArmed, hdrRecv, hdrVal, flags, alarm, bits, sent, retries, netVars,
                 srvVars>>

\* The rest of udprdma_set_rx_buffer: until then _ist would go by the size and
\* the count of the call before.
SetRxBuffer ==
  /\ pc = "call_set"
  /\ rxSize' = (IF kind = "read" THEN MaxReply ELSE 1) /\ rxData' = <<>> /\ rxWin' = 0
  /\ pc' = "send_start"
  /\ UNCHANGED <<state, peer, dest, tx, acked, rxArmed, rxExp, rxN, hdrArmed, hdrRecv,
                 hdrVal, flags, alarm, bits, sent, retries, kind, chunks, ret, calls,
                 issued, netVars, srvVars>>

-----------------------------------------------------------------------------
(* udprdma_send and udprdma_send_ll *)

\* ClearEventFlag(~EF_RX_ACK): an ACK left over from the last receive
SendStart ==
  /\ pc = "send_start" /\ state = "CONNECTED"
  /\ flags' = flags \ {"ACK"} /\ retries' = 0 /\ pc' = "send_tx"
  /\ UNCHANGED <<sockVars, alarm, bits, sent, kind, chunks, ret, calls, issued, rxN,
                 netVars, srvVars>>

SendTx ==
  /\ pc = "send_tx"
  /\ ToPeer(DataPacket)
  /\ sent' = tx /\ tx' = NextSeq(tx)
  /\ SetAlarm /\ pc' = "send_wait"
  /\ UNCHANGED <<state, peer, dest, acked, rxVars, flags, bits, retries, kind, chunks,
                 ret, calls, issued, discovery, informs, s2c, srvVars>>

\* no WEF_CLEAR here: a reply that is complete already must stay signalled
SendWake ==
  /\ pc = "send_wait" /\ flags \cap {"ACK", "TIMEOUT"} # {}
  /\ bits' = flags /\ pc' = "send_cancel"
  /\ UNCHANGED <<sockVars, flags, alarm, sent, retries, kind, chunks, ret, calls,
                 issued, rxN, netVars, srvVars>>

\* The bits cleared after the wait, and without EF_TIMEOUT among them
SendBitsAckOnly == {"ACK"}
SendBits == {"ACK", "TIMEOUT"}

SendClear ==
  /\ pc = "send_cancel"
  /\ alarm' = FALSE /\ flags' = flags \ SendBits /\ pc' = "send_check"
  /\ UNCHANGED <<sockVars, bits, sent, retries, kind, chunks, ret, calls, issued, rxN,
                 netVars, srvVars>>

\* diff is an int16_t made from 12 bits, so it is never negative
AckAccepted ==
  LET diff == (acked - sent) % SeqMod
  IN  "ACK" \in bits /\ (diff >= 0 \/ diff < -2048)

\* socket->tx_seq_nr = sent_seq_nr, and a retry that goes on counting
RestoreSeqForgotten == UNCHANGED tx
RestoreSeq == tx' = sent

\* UDPRDMA_OK: the next packet of the request, or its reply
SendOk ==
  /\ pc = "send_check" /\ AckAccepted
  /\ bits' = {} /\ retries' = 0
  /\ \/ /\ chunks > 1
        /\ chunks' = chunks - 1 /\ issued' = issued + 1 /\ pc' = "send_start"
     \/ /\ chunks = 1
        /\ pc' = "recv_start" /\ UNCHANGED <<chunks, issued>>
  /\ UNCHANGED <<sockVars, flags, alarm, sent, kind, ret, calls, rxN, netVars, srvVars>>

SendRetry ==
  /\ pc = "send_check" /\ ~AckAccepted /\ retries + 1 < MaxRetries
  /\ RestoreSeq /\ retries' = retries + 1 /\ bits' = {} /\ pc' = "send_tx"
  /\ UNCHANGED <<state, peer, dest, acked, rxVars, flags, alarm, sent, kind, chunks,
                 ret, calls, issued, netVars, srvVars>>

\* UDPRDMA_ERR_NACK, and -EIO from the call; the receive buffers stay set
SendFail ==
  /\ pc = "send_check" /\ ~AckAccepted /\ retries + 1 = MaxRetries
  /\ RestoreSeq /\ state' = "DISCONNECTED" /\ bits' = {} /\ retries' = 0
  /\ kind' = "none" /\ chunks' = 0 /\ ret' = "ERR_NACK" /\ pc' = "idle"
  /\ UNCHANGED <<peer, dest, acked, rxVars, flags, alarm, sent, calls, issued, netVars,
                 srvVars>>

-----------------------------------------------------------------------------
(* udprdma_recv *)

\* udpfs_core always sets the buffer before it sends, so recv finds it armed.
RecvStart ==
  /\ pc = "recv_start" /\ state = "CONNECTED" /\ rxArmed
  /\ SetAlarm /\ pc' = "recv_wait"
  /\ UNCHANGED <<sockVars, flags, bits, sent, retries, kind, chunks, ret, calls, issued,
                 rxN, netVars, srvVars>>

RecvWake == WaitClear("recv_wait", {"FIN", "NACK", "WINDOW", "TIMEOUT"}, "recv_woken")

RecvAck(isAck, next) ==
  /\ ToPeer(AckPacket(isAck))
  /\ alarm' = FALSE /\ bits' = {} /\ pc' = next
  /\ UNCHANGED <<sockVars, flags, sent, retries, kind, chunks, ret, calls, issued, rxN,
                 discovery, informs, s2c, srvVars>>

RecvFin == pc = "recv_woken" /\ "FIN" \in bits /\ RecvAck(TRUE, "recv_done")

RecvNack ==
  /\ pc = "recv_woken" /\ "FIN" \notin bits /\ "NACK" \in bits
  /\ RecvAck(FALSE, "recv_again")

RecvWindow ==
  /\ pc = "recv_woken" /\ bits \cap {"FIN", "NACK"} = {} /\ "WINDOW" \in bits
  /\ RecvAck(TRUE, "recv_again")

\* continue: a new alarm with the full timeout
RecvAgain ==
  /\ pc = "recv_again"
  /\ SetAlarm /\ pc' = "recv_wait"
  /\ UNCHANGED <<sockVars, flags, bits, sent, retries, kind, chunks, ret, calls, issued,
                 rxN, netVars, srvVars>>

\* rx_buffer = NULL, rx_hdr_buffer = NULL, and an exit that forgets them
ReleaseBuffersForgotten == UNCHANGED <<rxArmed, hdrArmed>>
ReleaseBuffers == rxArmed' = FALSE /\ hdrArmed' = FALSE

\* The buffers are released; the core then reads the app header of a read
\* reply, which must have arrived for the call to succeed.
RecvDone ==
  /\ pc = "recv_done"
  /\ ReleaseBuffers
  /\ ret' = IF kind = "read" /\ hdrVal = NoHdr THEN "EIO" ELSE "ok"
  /\ kind' = "none" /\ chunks' = 0 /\ pc' = "idle"
  /\ UNCHANGED <<state, peer, dest, tx, acked, rxSize, rxData, rxExp, rxWin, rxN,
                 hdrRecv, hdrVal, flags, alarm, bits, sent, retries, calls, issued,
                 netVars, srvVars>>

RecvTimeout ==
  /\ pc = "recv_woken" /\ bits \cap {"FIN", "NACK", "WINDOW"} = {}
  /\ alarm' = FALSE /\ bits' = {}
  /\ ReleaseBuffers /\ state' = "DISCONNECTED"
  /\ kind' = "none" /\ chunks' = 0 /\ ret' = "ERR_TIMEOUT" /\ pc' = "idle"
  /\ UNCHANGED <<peer, dest, tx, acked, rxSize, rxData, rxExp, rxWin, rxN, hdrRecv,
                 hdrVal, flags, sent, retries, calls, issued, netVars, srvVars>>

-----------------------------------------------------------------------------
(* The alarm interrupt and the receive thread *)

\* _timeout_cb, once
AlarmFires ==
  /\ alarm
  /\ alarm' = FALSE /\ flags' = flags \cup {"TIMEOUT"}
  /\ UNCHANGED <<sockVars, thrVars, rxN, netVars, srvVars>>

Listening == pc # "closed"

\* another client's broadcast for the same service
RxDiscovery(h) ==
  /\ Listening
  /\ peer' = h /\ flags' = flags \cup {"DISC"}
  /\ UNCHANGED <<state, dest, tx, acked, rxVars, alarm, thrVars, netVars, srvVars>>

\* service_id == s->service_id
OffersService(h) == h \in Servers

\* ignored when connected, or when it announces another service
RxInform(h) ==
  /\ Listening /\ h \in informs
  /\ state # "CONNECTED" /\ OffersService(h)
  /\ peer' = h /\ flags' = flags \cup {"INFO"}
  /\ UNCHANGED <<state, dest, tx, acked, rxVars, alarm, thrVars, netVars, srvVars>>

\* every DATA packet with the ACK flag, whatever it acknowledges
AckBit(m) == m.flags \cap {"ACK"}

TakeAck(m) == acked' = IF "ACK" \in m.flags THEN m.ack ELSE acked

RxIgnored(m) ==
  /\ ~(HasPayload(m) /\ rxArmed)
  /\ TakeAck(m) /\ flags' = flags \cup AckBit(m)
  /\ UNCHANGED <<state, peer, dest, tx, rxVars, alarm, thrVars, netVars, srvVars>>

\* seq_nr == rx_seq_nr_expected, and a receiver that does not look
ExpectedUnchecked(m) == TRUE
Expected(m) == m.seq = rxExp

RxOutOfOrder(m) ==
  /\ HasPayload(m) /\ rxArmed /\ ~Expected(m)
  /\ TakeAck(m) /\ flags' = flags \cup AckBit(m) \cup {"NACK"}
  /\ UNCHANGED <<state, peer, dest, tx, rxVars, alarm, thrVars, netVars, srvVars>>

\* a full window counts from 0 again, and a count that is never reset
WindowNotReset(due) == rxWin + 1
WindowAfter(due) == IF due THEN 0 ELSE rxWin + 1

\* The header of the first packet goes to its buffer, any other is skipped;
\* data beyond the end of the buffer is dropped.
RxInOrder(m) ==
  LET fits  == m.len > 0 /\ Len(rxData) < rxSize
      data  == IF fits THEN Append(rxData, m.n) ELSE rxData
      whole == "FIN" \in m.flags \/ Len(data) >= rxSize
      due   == ~whole /\ rxWin + 1 >= AckWindow
  IN
  /\ HasPayload(m) /\ rxArmed /\ Expected(m)
  /\ TakeAck(m)
  /\ hdrVal' = IF m.hdr /\ hdrArmed /\ ~hdrRecv THEN m.n ELSE hdrVal
  /\ hdrRecv' = (hdrRecv \/ m.hdr)
  /\ rxData' = data
  /\ rxExp' = NextSeq(m.seq) /\ rxN' = rxN + 1
  /\ rxWin' = IF whole THEN rxWin ELSE WindowAfter(due)
  /\ flags' = flags \cup AckBit(m) \cup (IF whole THEN {"FIN"} ELSE {})
                    \cup (IF due THEN {"WINDOW"} ELSE {})
  /\ UNCHANGED <<state, peer, dest, tx, rxArmed, rxSize, hdrArmed, alarm, thrVars,
                 netVars, srvVars>>

RxData(m) == Listening /\ (RxIgnored(m) \/ RxOutOfOrder(m) \/ RxInOrder(m))

-----------------------------------------------------------------------------
(* The peer (external): a server that keeps to UDPRDMA.md *)

PeerPacket(n, a, fl, ack, hdr, len) ==
  [n |-> n, seq |-> n % SeqMod, a |-> a, ack |-> ack % SeqMod, flags |-> fl,
   hdr |-> hdr, len |-> len]

\* the newest packet accepted, or for a NACK the one expected
PeerAck(n, a, isAck) ==
  IF isAck THEN PeerPacket(n, a, {"ACK"}, a - 1, FALSE, 0)
           ELSE PeerPacket(n, a, {}, a, FALSE, 0)

FromPeer(m) == s2c' = Fresh(s2c \cup {m}, nxt', Len(served'))

SrvInform(h) ==
  /\ (h \in Servers /\ discovery) \/ h \in Foreign
  /\ informs' = informs \cup {h}
  /\ UNCHANGED <<sockVars, flags, alarm, thrVars, rxN, discovery, c2s, s2c, srvVars>>

\* how far the client's cumulative ACK lets the window advance
Acknowledged(m) ==
  LET upTo == {a \in base .. nxt : "ACK" \in m.flags /\ (a - 1) % SeqMod = m.ack}
  IN  IF upTo = {} THEN base ELSE CHOOSE a \in upTo : TRUE

\* One packet per data packet of the reply; an empty reply is a header only.
Reply(n, isRead, size) ==
  [i \in 1 .. (IF size = 0 THEN 1 ELSE size) |->
     [for |-> n, hdr |-> isRead /\ i = 1, len |-> IF size = 0 THEN 0 ELSE 1,
      fin |-> i >= size]]

\* The next packet of a request.  The last one is answered: a read by at most
\* the data it asked for, a write by one packet.
SrvAccept(m) ==
  /\ m.req # "none" /\ m.seq = Len(served) % SeqMod
  /\ served' = Append(served, m.n) /\ base' = Acknowledged(m) /\ UNCHANGED nxt
  /\ FromPeer(PeerAck(nxt, Len(served) + 1, TRUE))
  /\ \/ m.req = "more" /\ UNCHANGED stream
     \/ m.req = "write" /\ stream' = stream \o Reply(m.n, FALSE, 1)
     \/ /\ m.req = "read"
        /\ \E size \in 0 .. MaxReply : stream' = stream \o Reply(m.n, TRUE, size)
  /\ UNCHANGED <<sockVars, flags, alarm, thrVars, rxN, discovery, informs, c2s>>

\* Any other packet with payload is answered with an ACK or a NACK.
SrvReject(m) ==
  /\ m.req # "none" /\ m.seq # Len(served) % SeqMod
  /\ base' = Acknowledged(m) /\ UNCHANGED <<served, stream, nxt>>
  /\ \E isAck \in BOOLEAN : FromPeer(PeerAck(nxt, Len(served), isAck))
  /\ UNCHANGED <<sockVars, flags, alarm, thrVars, rxN, discovery, informs, c2s>>

SrvAcked(m) ==
  /\ m.req = "none"
  /\ base' = Acknowledged(m)
  /\ UNCHANGED <<sockVars, flags, alarm, thrVars, rxN, netVars, served, stream, nxt>>

\* The next packet of the window, or one of it again (NACK or timeout)
SrvSend(i) ==
  /\ i < Len(stream) /\ i <= nxt /\ i < base + SendWindow
  /\ nxt' = IF i = nxt THEN nxt + 1 ELSE nxt
  /\ UNCHANGED served
  /\ LET p == stream[i + 1] IN
     FromPeer(PeerPacket(i, Len(served), {"ACK"} \cup (IF p.fin THEN {"FIN"} ELSE {}),
                         Len(served) - 1, p.hdr, p.len))
  /\ UNCHANGED <<sockVars, flags, alarm, thrVars, rxN, discovery, informs, c2s, stream,
                 base>>

-----------------------------------------------------------------------------

Thread ==
  \/ DiscSend \/ DiscWake \/ DiscConnected \/ DiscDest \/ DiscRetry
  \/ SetRxBuffer \/ SendStart \/ SendTx \/ SendWake \/ SendClear
  \/ SendOk \/ SendRetry \/ SendFail
  \/ RecvStart \/ RecvWake \/ RecvFin \/ RecvNack \/ RecvWindow \/ RecvAgain
  \/ RecvDone \/ RecvTimeout

Caller == Discover \/ CallRead \/ \E k \in 1 .. MaxChunks : CallWrite(k)

Receiver ==
  \/ \E h \in Consoles : RxDiscovery(h)
  \/ \E h \in Servers \cup Foreign : RxInform(h)
  \/ \E m \in s2c : RxData(m)

Peer ==
  \/ \E h \in Servers \cup Foreign : SrvInform(h)
  \/ \E m \in c2s : SrvAccept(m) \/ SrvReject(m) \/ SrvAcked(m)
  \/ \E i \in base .. nxt : SrvSend(i)

Next == Caller \/ Thread \/ AlarmFires \/ Receiver \/ Peer

\* The thread and the alarm always run; the network and the peer owe nothing.
Fairness == WF_vars(Thread) /\ WF_vars(AlarmFires)

Spec     == Init /\ [][Next]_vars
FairSpec == Spec /\ Fairness

-----------------------------------------------------------------------------

SeqNr == 0 .. SeqMod - 1

ClientPackets ==
  [n : Nat, seq : SeqNr, a : Nat, ack : SeqNr, flags : SUBSET {"ACK", "FIN"},
   req : {"none", "more", "read", "write"}]

PeerPackets ==
  [n : Nat, seq : SeqNr, a : Nat, ack : SeqNr, flags : SUBSET {"ACK", "FIN"},
   hdr : BOOLEAN, len : {0, 1}]

ReplyPackets == [for : Nat, hdr : BOOLEAN, len : {0, 1}, fin : BOOLEAN]

SocketTypes ==
  /\ state \in {"INIT", "DISCOVERING", "CONNECTED", "DISCONNECTED"}
  /\ peer \in Servers \cup Foreign \cup Consoles \cup {NoHost}
  /\ dest \in Servers \cup Foreign \cup Consoles \cup {NoHost}
  /\ tx \in SeqNr /\ acked \in SeqNr /\ rxExp \in SeqNr
  /\ rxArmed \in BOOLEAN /\ rxSize \in Nat /\ rxData \in Seq(Nat)
  /\ rxWin \in 0 .. AckWindow - 1 /\ rxN \in Nat
  /\ hdrArmed \in BOOLEAN /\ hdrRecv \in BOOLEAN /\ hdrVal \in Nat \cup {NoHdr}

ThreadTypes ==
  /\ flags \subseteq EventBits /\ bits \subseteq EventBits /\ alarm \in BOOLEAN
  /\ kind \in {"none", "read", "write"}
  /\ ret \in {"none", "ok", "EIO", "ERR_NACK", "ERR_TIMEOUT"}
  /\ sent \in SeqNr /\ retries \in 0 .. MaxRetries
  /\ chunks \in Nat /\ calls \in Nat /\ issued \in Nat
  /\ pc \in PCs /\ (pc \in Sending => issued > 0)

NetTypes ==
  /\ discovery \in BOOLEAN /\ informs \subseteq Servers \cup Foreign
  /\ c2s \subseteq ClientPackets /\ s2c \subseteq PeerPackets

PeerTypes ==
  served \in Seq(Nat) /\ stream \in Seq(ReplyPackets) /\ base \in Nat /\ nxt \in Nat

\* The type invariant: the widths of the sequence numbers, the window counter
\* below its limit, the retry counter within its bound.
TypeOK == SocketTypes /\ ThreadTypes /\ NetTypes /\ PeerTypes

-----------------------------------------------------------------------------
(* Safety *)

\* The peer applies every payload handed to udprdma_send at most once and in
\* the order they were handed over, over all retransmissions, lost ACKs and
\* late packets (the sequence number is consumed by a send and restored by a
\* retry, udprdma.c:456 and :498).
ServedInOrder == \A i \in 1 .. Len(served) : served[i] = i - 1

\* The client acknowledges only what it has taken into its buffers: the peer
\* never lets go of a packet the receive thread has not accepted
\* (_send_ack, and the ACK carried by every data packet).
AckHonest == base <= rxN

ReplyTo(p) == {i \in 0 .. Len(stream) - 1 : stream[i + 1].for = p}

\* A call that returns success had all its packets applied by the peer, and
\* its buffers hold the reply to that very request: all of its data, in order,
\* each packet once, and the header of its first packet.  Nothing of an
\* earlier reply, late or retransmitted, is left in them.
CallComplete ==
  ret = "ok" =>
    LET mine == ReplyTo(issued - 1)
        data == {i \in mine : stream[i + 1].len > 0}
    IN  /\ Len(served) = issued
        /\ mine # {}
        /\ {rxData[k] : k \in 1 .. Len(rxData)} = data
        /\ \A k \in 1 .. Len(rxData) - 1 : rxData[k + 1] = rxData[k] + 1
        /\ \A i \in mine : stream[i + 1].hdr => hdrVal = i

\* udprdma_recv starts its first wait without a timeout left over from the
\* send before it: CancelAlarm, then the clearing of EF_TIMEOUT, leave no
\* moment in which the alarm of the send can still be seen by the receive,
\* which would take it for its own and drop the connection.
FreshRecv == pc = "recv_start" => "TIMEOUT" \notin flags /\ ~alarm

\* The host that data packets are addressed to offers the service it was
\* looked up by (UDPRDMA.md: the client takes the address from INFORM).
DestOffersService ==
  state = "CONNECTED" /\ pc # "disc_dest" => dest \in Servers

\* The receive thread writes into the caller's buffer while the call runs.
\* The exception is a call that ended in a failed send: it leaves rx_buffer
\* set, and a late reply is written into memory the caller has back.
BufferReleased ==
  [][rxData' # rxData => kind # "none" \/ kind' # "none" \/ ret = "ERR_NACK"]_vars

-----------------------------------------------------------------------------
(* What the source's comments say and the code does not do *)

\* udprdma.h:69: "Sends data and waits for ACK.  Retransmits on NACK or
\* timeout.  Blocks until acknowledged or max retries exceeded."
SendOkMeansAcknowledged ==
  /\ pc = "recv_start" => Len(served) >= issued
  /\ pc = "send_start" => Len(served) >= issued - 1

-----------------------------------------------------------------------------
(* Liveness *)

\* Once no more packets arrive, a running call returns: every wait has an
\* alarm of its own, and the retries are bounded.  (While packets that are out
\* of order keep arriving, udprdma_recv sets its alarm anew for each of them.)
QuietNetwork == <>[][~ \E m \in s2c : RxData(m)]_vars
CallReturns  == QuietNetwork => (kind # "none" ~> kind = "none")

-----------------------------------------------------------------------------
(* The promise of the socket to the layer above: RequestChannel *)

Channel == INSTANCE RequestChannel WITH
  phase   <- IF state = "CONNECTED" THEN "open"
             ELSE IF state = "DISCONNECTED" \/ pc = "closed" THEN "closed" ELSE "new",
  busy    <- kind # "none",
  applied <- Len(served)

\* The socket, the peer and the network together are a channel on which a
\* request is applied at most once and completely before the call succeeds,
\* and whose first failure is its last.
ImplementsChannel == Channel!Spec

=============================================================================
