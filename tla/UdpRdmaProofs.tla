---------------------------- MODULE UdpRdmaProofs ----------------------------
(***************************************************************************)
(* Machine-checked proofs about UdpRdma, for every value of its constants. *)
(***************************************************************************)
EXTENDS UdpRdmaInv, ModArithmetic, SequenceTheorems, TLAPS

-----------------------------------------------------------------------------
(* Sequence numbers and packets *)

LEMMA SeqModPos == SeqMod \in Nat /\ SeqMod > 0
  BY BoundsAssumption

LEMMA ModRange == ASSUME NEW n \in Int PROVE n % SeqMod \in SeqNr
  BY SeqModPos, DivMod DEF SeqNr

LEMMA FreshSubset ==
  ASSUME NEW net, NEW n, NEW a
  PROVE  Fresh(net, n, a) \subseteq net
  BY DEF Fresh

LEMMA ClientPacketType ==
  ASSUME NEW n \in Nat, NEW ack \in SeqNr, NEW fl \in SUBSET {"ACK", "FIN"},
         NEW req \in {"none", "more", "read", "write"}, tx \in SeqNr, rxN \in Nat
  PROVE  ClientPacket(n, ack, fl, req) \in ClientPackets
  BY DEF ClientPacket, ClientPackets

LEMMA PeerPacketType ==
  ASSUME NEW n \in Nat, NEW a \in Nat, NEW fl \in SUBSET {"ACK", "FIN"},
         NEW ack \in Int, NEW hdr \in BOOLEAN, NEW len \in {0, 1}
  PROVE  PeerPacket(n, a, fl, ack, hdr, len) \in PeerPackets
<1>1. n % SeqMod \in SeqNr /\ ack % SeqMod \in SeqNr  BY ModRange
<1>   QED  BY <1>1 DEF PeerPacket, PeerPackets

LEMMA PeerAckType ==
  ASSUME NEW n \in Nat, NEW a \in Nat, NEW isAck \in BOOLEAN
  PROVE  PeerAck(n, a, isAck) \in PeerPackets
<1>1. a \in Int /\ a - 1 \in Int /\ {"ACK"} \in SUBSET {"ACK", "FIN"} /\ {} \in SUBSET {"ACK", "FIN"}
  OBVIOUS
<1>   QED  BY <1>1, PeerPacketType DEF PeerAck

\* What the thread puts on the network is a client packet.
LEMMA ToPeerType ==
  ASSUME TypeOK, NEW m \in ClientPackets, ToPeer(m)
  PROVE  c2s' \subseteq ClientPackets
  BY DEF TypeOK, NetTypes, ToPeer, Fresh

LEMMA FromPeerType ==
  ASSUME TypeOK, NEW m \in PeerPackets, FromPeer(m)
  PROVE  s2c' \subseteq PeerPackets
  BY DEF TypeOK, NetTypes, FromPeer, Fresh

LEMMA AckPacketType ==
  ASSUME TypeOK, NEW isAck \in BOOLEAN
  PROVE  AckPacket(isAck) \in ClientPackets
<1>0. rxExp \in Nat  BY DEF TypeOK, SocketTypes, SeqNr
<1>1. LastReceived \in SeqNr  BY <1>0, ModRange DEF LastReceived
<1>2. rxExp \in SeqNr /\ issued \in Nat /\ tx \in SeqNr /\ rxN \in Nat
  BY DEF TypeOK, SocketTypes, ThreadTypes
<1>3. {"ACK"} \in SUBSET {"ACK", "FIN"} /\ {} \in SUBSET {"ACK", "FIN"}  OBVIOUS
<1>   QED  BY <1>1, <1>2, <1>3, ClientPacketType DEF AckPacket

LEMMA AcknowledgedType ==
  ASSUME TypeOK, NEW m
  PROVE  Acknowledged(m) \in base .. nxt \cup {base} /\ Acknowledged(m) \in Nat
  BY DEF TypeOK, PeerTypes, Acknowledged

\* A reply is a non-empty sequence of packets that fits the size it was made for.
LEMMA ReplyType ==
  ASSUME NEW n \in Nat, NEW isRead \in BOOLEAN, NEW size \in Nat
  PROVE  /\ Reply(n, isRead, size) \in Seq(ReplyPackets)
         /\ Len(Reply(n, isRead, size)) = IF size = 0 THEN 1 ELSE size
<1>  DEFINE k == IF size = 0 THEN 1 ELSE size
<1>1. k \in Nat  OBVIOUS
<1>2. \A i \in 1 .. k : [for |-> n, hdr |-> isRead /\ i = 1,
                         len |-> IF size = 0 THEN 0 ELSE 1, fin |-> i >= size] \in ReplyPackets
  BY DEF ReplyPackets
<1>   QED  BY <1>1, <1>2 DEF Reply

-----------------------------------------------------------------------------
(* Type correctness *)

LEMMA TypeInit == Init => TypeOK
<1>  SUFFICES ASSUME Init PROVE TypeOK  OBVIOUS
<1>1. 0 \in SeqNr /\ 0 \in 0 .. AckWindow - 1 /\ 0 \in 0 .. MaxRetries
  BY BoundsAssumption DEF SeqNr
<1>2. <<>> \in Seq(Nat) /\ <<>> \in Seq(ReplyPackets) OBVIOUS
<1>3. SocketTypes  BY <1>1, <1>2 DEF Init, SocketTypes
<1>4. ThreadTypes  BY <1>1 DEF Init, ThreadTypes, PCs, Sending
<1>5. NetTypes /\ PeerTypes  BY <1>2 DEF Init, NetTypes, PeerTypes
<1>   QED  BY <1>3, <1>4, <1>5 DEF TypeOK

LEMMA PCNames ==
  /\ {"idle", "closed", "disc_send", "disc_wait", "disc_woken", "disc_dest",
      "recv_start", "recv_wait", "recv_woken", "recv_again", "recv_done"}
       \subseteq PCs \ Sending
  /\ {"call_set", "send_start", "send_tx", "send_wait", "send_cancel", "send_check"}
       \subseteq PCs \cap Sending
  BY DEF PCs, Sending, Receiving, Discovering

LEMMA ConstantTypes ==
  /\ SeqMod \in Nat /\ MaxRetries \in Nat /\ AckWindow \in Nat /\ SendWindow \in Nat
  /\ MaxLag \in Nat /\ MaxChunks \in Nat /\ MaxReply \in Nat /\ MaxCalls \in Nat
  /\ SeqMod > 0 /\ MaxRetries > 0 /\ AckWindow > 0 /\ SendWindow > 0 /\ MaxLag > 0
  BY BoundsAssumption

LEMMA TypeThread ==
  ASSUME TypeOK, Caller \/ Thread \/ AlarmFires
  PROVE  TypeOK'
<1>  USE DEF TypeOK, sockVars, rxVars, thrVars, netVars, srvVars
<1>0. /\ MaxReply \in Nat /\ MaxRetries \in Nat /\ MaxRetries > 0
      /\ 0 \in 0 .. AckWindow - 1 /\ 0 \in 0 .. MaxRetries /\ <<>> \in Seq(Nat)
  BY ConstantTypes
<1>1. CASE Discover
  <2>11. SocketTypes'  BY <1>1, <1>0 DEF Discover, SocketTypes
  <2>12. ThreadTypes'  BY <1>1, <1>0, PCNames DEF Discover, ThreadTypes
  <2>13. NetTypes' /\ PeerTypes'  BY <1>1 DEF Discover, NetTypes, PeerTypes
  <2>   QED  BY <2>11, <2>12, <2>13
<1>2. CASE CallRead
  <2>11. SocketTypes'  BY <1>2, <1>0 DEF CallRead, SocketTypes
  <2>12. ThreadTypes'  BY <1>2, <1>0, PCNames DEF CallRead, ThreadTypes
  <2>13. NetTypes' /\ PeerTypes'  BY <1>2 DEF CallRead, NetTypes, PeerTypes
  <2>   QED  BY <2>11, <2>12, <2>13
<1>3. ASSUME NEW k \in 1 .. MaxChunks, CallWrite(k) PROVE TypeOK'
  <2>11. SocketTypes'  BY <1>3, <1>0 DEF CallWrite, SocketTypes
  <2>12. ThreadTypes'  BY <1>3, <1>0, PCNames DEF CallWrite, ThreadTypes
  <2>13. NetTypes' /\ PeerTypes'  BY <1>3 DEF CallWrite, NetTypes, PeerTypes
  <2>   QED  BY <2>11, <2>12, <2>13
<1>31. CASE SetRxBuffer
  <2>11. SocketTypes'  BY <1>31, <1>0, 1 \in Nat DEF SetRxBuffer, SocketTypes
  <2>12. ThreadTypes'  BY <1>31, PCNames DEF SetRxBuffer, ThreadTypes
  <2>13. NetTypes' /\ PeerTypes'  BY <1>31 DEF SetRxBuffer, NetTypes, PeerTypes
  <2>   QED  BY <2>11, <2>12, <2>13
<1>4. CASE DiscSend
  <2>11. SocketTypes'  BY <1>4 DEF DiscSend, SetAlarm, SocketTypes
  <2>12. ThreadTypes'  BY <1>4, PCNames DEF DiscSend, SetAlarm, ThreadTypes
  <2>13. NetTypes' /\ PeerTypes'  BY <1>4 DEF DiscSend, SetAlarm, NetTypes, PeerTypes
  <2>   QED  BY <2>11, <2>12, <2>13
<1>5. CASE DiscWake
  <2>11. SocketTypes'  BY <1>5 DEF DiscWake, WaitClear, SocketTypes
  <2>12. ThreadTypes'  BY <1>5, PCNames DEF DiscWake, WaitClear, ThreadTypes
  <2>13. NetTypes' /\ PeerTypes'  BY <1>5 DEF DiscWake, WaitClear, NetTypes, PeerTypes
  <2>   QED  BY <2>11, <2>12, <2>13
<1>6. CASE DiscConnected
  <2>11. SocketTypes'  BY <1>6 DEF DiscConnected, SocketTypes
  <2>12. ThreadTypes'  BY <1>6, PCNames DEF DiscConnected, ThreadTypes
  <2>13. NetTypes' /\ PeerTypes'  BY <1>6 DEF DiscConnected, NetTypes, PeerTypes
  <2>   QED  BY <2>11, <2>12, <2>13
<1>7. CASE DiscDest
  <2>11. SocketTypes'  BY <1>7 DEF DiscDest, SocketTypes
  <2>12. ThreadTypes'  BY <1>7, PCNames DEF DiscDest, ThreadTypes
  <2>13. NetTypes' /\ PeerTypes'  BY <1>7 DEF DiscDest, NetTypes, PeerTypes
  <2>   QED  BY <2>11, <2>12, <2>13
<1>8. CASE DiscRetry
  <2>1. retries' \in 0 .. MaxRetries  BY <1>0, <1>8 DEF DiscRetry, ThreadTypes
  <2>11. SocketTypes'  BY <1>8 DEF DiscRetry, SocketTypes
  <2>12. ThreadTypes'  BY <1>8, <2>1, PCNames DEF DiscRetry, ThreadTypes
  <2>13. NetTypes' /\ PeerTypes'  BY <1>8 DEF DiscRetry, NetTypes, PeerTypes
  <2>   QED  BY <2>11, <2>12, <2>13
<1>9. CASE SendStart
  <2>11. SocketTypes'  BY <1>9, <1>0 DEF SendStart, SocketTypes
  <2>12. ThreadTypes'  BY <1>9, <1>0, PCNames DEF SendStart, ThreadTypes
  <2>13. NetTypes' /\ PeerTypes'  BY <1>9 DEF SendStart, NetTypes, PeerTypes
  <2>   QED  BY <2>11, <2>12, <2>13
<1>10. CASE SendTx
  <2>1. rxExp \in Nat /\ tx \in Nat  BY DEF SocketTypes, SeqNr
  <2>2. LastReceived \in SeqNr /\ NextSeq(tx) \in SeqNr
    BY <2>1, ModRange DEF LastReceived, NextSeq
  <2>3. issued - 1 \in Nat  BY <1>10, PCNames DEF SendTx, ThreadTypes
  <2>4. (IF chunks > 1 THEN "more" ELSE kind) \in {"none", "more", "read", "write"}
    BY DEF ThreadTypes
  <2>5. tx \in SeqNr /\ rxN \in Nat /\ {"ACK", "FIN"} \in SUBSET {"ACK", "FIN"}
    BY DEF SocketTypes
  <2>6. DataPacket \in ClientPackets
    BY <2>2, <2>3, <2>4, <2>5, ClientPacketType DEF DataPacket
  <2>7. c2s' \subseteq ClientPackets  BY <1>10, <2>6, ToPeerType DEF SendTx
  <2>11. SocketTypes'  BY <1>10, <2>2 DEF SendTx, SetAlarm, SocketTypes
  <2>12. ThreadTypes'  BY <1>10, <2>5, PCNames DEF SendTx, SetAlarm, ThreadTypes
  <2>13. NetTypes' /\ PeerTypes'  BY <1>10, <2>7 DEF SendTx, SetAlarm, NetTypes, PeerTypes
  <2>   QED  BY <2>11, <2>12, <2>13
<1>11. CASE SendWake
  <2>11. SocketTypes'  BY <1>11 DEF SendWake, SocketTypes
  <2>12. ThreadTypes'  BY <1>11, PCNames DEF SendWake, ThreadTypes
  <2>13. NetTypes' /\ PeerTypes'  BY <1>11 DEF SendWake, NetTypes, PeerTypes
  <2>   QED  BY <2>11, <2>12, <2>13
<1>12. CASE SendClear
  <2>11. SocketTypes'  BY <1>12 DEF SendClear, SocketTypes
  <2>12. ThreadTypes'  BY <1>12, PCNames DEF SendClear, ThreadTypes
  <2>13. NetTypes' /\ PeerTypes'  BY <1>12 DEF SendClear, NetTypes, PeerTypes
  <2>   QED  BY <2>11, <2>12, <2>13
<1>13. CASE SendOk
  <2>11. SocketTypes'  BY <1>13, <1>0 DEF SendOk, SocketTypes
  <2>12. ThreadTypes'  BY <1>13, <1>0, PCNames DEF SendOk, ThreadTypes
  <2>13. NetTypes' /\ PeerTypes'  BY <1>13 DEF SendOk, NetTypes, PeerTypes
  <2>   QED  BY <2>11, <2>12, <2>13
<1>14. CASE SendRetry
  <2>1. retries' \in 0 .. MaxRetries  BY <1>0, <1>14 DEF SendRetry, ThreadTypes
  <2>2. sent \in SeqNr  BY DEF ThreadTypes
  <2>11. SocketTypes'  BY <1>14, <2>2 DEF SendRetry, RestoreSeq, SocketTypes
  <2>12. ThreadTypes'  BY <1>14, <2>1, PCNames DEF SendRetry, RestoreSeq, ThreadTypes
  <2>13. NetTypes' /\ PeerTypes'  BY <1>14 DEF SendRetry, RestoreSeq, NetTypes, PeerTypes
  <2>   QED  BY <2>11, <2>12, <2>13
<1>15. CASE SendFail
  <2>1. sent \in SeqNr  BY DEF ThreadTypes
  <2>11. SocketTypes'  BY <1>15, <1>0, <2>1 DEF SendFail, RestoreSeq, SocketTypes
  <2>12. ThreadTypes'  BY <1>15, <1>0, PCNames DEF SendFail, RestoreSeq, ThreadTypes
  <2>13. NetTypes' /\ PeerTypes'  BY <1>15 DEF SendFail, RestoreSeq, NetTypes, PeerTypes
  <2>   QED  BY <2>11, <2>12, <2>13
<1>16. CASE RecvStart
  <2>11. SocketTypes'  BY <1>16 DEF RecvStart, SetAlarm, SocketTypes
  <2>12. ThreadTypes'  BY <1>16, PCNames DEF RecvStart, SetAlarm, ThreadTypes
  <2>13. NetTypes' /\ PeerTypes'  BY <1>16 DEF RecvStart, SetAlarm, NetTypes, PeerTypes
  <2>   QED  BY <2>11, <2>12, <2>13
<1>17. CASE RecvWake
  <2>11. SocketTypes'  BY <1>17 DEF RecvWake, WaitClear, SocketTypes
  <2>12. ThreadTypes'  BY <1>17, PCNames DEF RecvWake, WaitClear, ThreadTypes
  <2>13. NetTypes' /\ PeerTypes'  BY <1>17 DEF RecvWake, WaitClear, NetTypes, PeerTypes
  <2>   QED  BY <2>11, <2>12, <2>13
<1>18. ASSUME NEW isAck \in BOOLEAN, NEW next \in {"recv_done", "recv_again"},
              RecvAck(isAck, next)
       PROVE  TypeOK'
  <2>1. c2s' \subseteq ClientPackets  BY <1>18, AckPacketType, ToPeerType DEF RecvAck
  <2>11. SocketTypes'  BY <1>18 DEF RecvAck, SocketTypes
  <2>12. ThreadTypes'  BY <1>18, PCNames DEF RecvAck, ThreadTypes
  <2>13. NetTypes' /\ PeerTypes'  BY <1>18, <2>1 DEF RecvAck, NetTypes, PeerTypes
  <2>   QED  BY <2>11, <2>12, <2>13
<1>19. CASE RecvFin  BY <1>18, <1>19 DEF RecvFin
<1>20. CASE RecvNack  BY <1>18, <1>20 DEF RecvNack
<1>21. CASE RecvWindow  BY <1>18, <1>21 DEF RecvWindow
<1>22. CASE RecvAgain
  <2>11. SocketTypes'  BY <1>22 DEF RecvAgain, SetAlarm, SocketTypes
  <2>12. ThreadTypes'  BY <1>22, PCNames DEF RecvAgain, SetAlarm, ThreadTypes
  <2>13. NetTypes' /\ PeerTypes'  BY <1>22 DEF RecvAgain, SetAlarm, NetTypes, PeerTypes
  <2>   QED  BY <2>11, <2>12, <2>13
<1>23. CASE RecvDone
  <2>11. SocketTypes'  BY <1>23 DEF RecvDone, ReleaseBuffers, SocketTypes
  <2>12. ThreadTypes'  BY <1>23, PCNames DEF RecvDone, ReleaseBuffers, ThreadTypes
  <2>13. NetTypes' /\ PeerTypes'  BY <1>23 DEF RecvDone, ReleaseBuffers, NetTypes, PeerTypes
  <2>   QED  BY <2>11, <2>12, <2>13
<1>24. CASE RecvTimeout
  <2>11. SocketTypes'  BY <1>24 DEF RecvTimeout, ReleaseBuffers, SocketTypes
  <2>12. ThreadTypes'  BY <1>24, PCNames DEF RecvTimeout, ReleaseBuffers, ThreadTypes
  <2>13. NetTypes' /\ PeerTypes'  BY <1>24 DEF RecvTimeout, ReleaseBuffers, NetTypes, PeerTypes
  <2>   QED  BY <2>11, <2>12, <2>13
<1>25. CASE AlarmFires
  <2>11. SocketTypes'  BY <1>25 DEF AlarmFires, EventBits, SocketTypes
  <2>12. ThreadTypes'  BY <1>25, PCNames DEF AlarmFires, EventBits, ThreadTypes
  <2>13. NetTypes' /\ PeerTypes'  BY <1>25 DEF AlarmFires, EventBits, NetTypes, PeerTypes
  <2>   QED  BY <2>11, <2>12, <2>13
<1>   QED
  BY <1>1, <1>2, <1>3, <1>31, <1>4, <1>5, <1>6, <1>7, <1>8, <1>9, <1>10, <1>11, <1>12,
     <1>13, <1>14, <1>15, <1>16, <1>17, <1>19, <1>20, <1>21, <1>22, <1>23, <1>24, <1>25
     DEF Caller, Thread

\* The receive thread touches the socket and the event flag only.
LEMMA TypeReceiver ==
  ASSUME TypeOK, Receiver
  PROVE  TypeOK'
<1>  USE DEF TypeOK, rxVars, thrVars, netVars, srvVars
<1>1. ASSUME NEW h \in Consoles, RxDiscovery(h) PROVE TypeOK'
  <2>1. SocketTypes'  BY <1>1 DEF RxDiscovery, SocketTypes
  <2>2. ThreadTypes'  BY <1>1 DEF RxDiscovery, ThreadTypes, EventBits
  <2>3. NetTypes' /\ PeerTypes'  BY <1>1 DEF RxDiscovery, NetTypes, PeerTypes
  <2>   QED  BY <2>1, <2>2, <2>3
<1>2. ASSUME NEW h \in Servers \cup Foreign, RxInform(h) PROVE TypeOK'
  <2>1. SocketTypes'  BY <1>2 DEF RxInform, SocketTypes
  <2>2. ThreadTypes'  BY <1>2 DEF RxInform, ThreadTypes, EventBits
  <2>3. NetTypes' /\ PeerTypes'  BY <1>2 DEF RxInform, NetTypes, PeerTypes
  <2>   QED  BY <2>1, <2>2, <2>3
<1>3. ASSUME NEW m \in s2c, RxData(m) PROVE TypeOK'
  <2>1. m \in PeerPackets  BY DEF NetTypes
  <2>2. m.ack \in SeqNr /\ m.seq \in SeqNr /\ m.n \in Nat /\ m.seq \in Nat /\ m.hdr \in BOOLEAN
    BY <2>1 DEF PeerPackets, SeqNr
  <2>3. TakeAck(m) => acked' \in SeqNr  BY <2>2 DEF TakeAck, SocketTypes
  <2>4. AckBit(m) \subseteq EventBits  BY DEF AckBit, EventBits
  <2>5. flags' \subseteq EventBits
    <3>1. flags \subseteq EventBits /\ {"NACK", "FIN", "WINDOW"} \subseteq EventBits
      BY DEF ThreadTypes, EventBits
    <3>2. flags' \subseteq flags \cup AckBit(m) \cup {"NACK", "FIN", "WINDOW"}
      BY <1>3 DEF RxData, RxIgnored, RxOutOfOrder, RxInOrder
    <3>   QED  BY <2>4, <3>1, <3>2
  <2>6. UNCHANGED <<alarm, thrVars, netVars, srvVars>>
    BY <1>3 DEF RxData, RxIgnored, RxOutOfOrder, RxInOrder
  <2>7. ThreadTypes' /\ NetTypes' /\ PeerTypes'
    BY <2>5, <2>6 DEF ThreadTypes, NetTypes, PeerTypes
  <2>8. CASE RxIgnored(m)  BY <2>3, <2>7, <2>8 DEF RxIgnored, SocketTypes
  <2>9. CASE RxOutOfOrder(m)  BY <2>3, <2>7, <2>9 DEF RxOutOfOrder, SocketTypes
  <2>10. CASE RxInOrder(m)
    <3>1. NextSeq(m.seq) \in SeqNr  BY <2>2, ModRange DEF NextSeq
    <3>2. rxData' \in Seq(Nat)  BY <2>2, <2>10 DEF RxInOrder, SocketTypes
    <3>3. rxWin' \in 0 .. AckWindow - 1
      BY <2>10, ConstantTypes DEF RxInOrder, WindowAfter, SocketTypes
    <3>4. hdrVal' \in Nat \cup {NoHdr} /\ hdrRecv' \in BOOLEAN
      BY <2>2, <2>10 DEF RxInOrder, SocketTypes
    <3>   QED  BY <2>3, <2>7, <2>10, <3>1, <3>2, <3>3, <3>4 DEF RxInOrder, SocketTypes
  <2>   QED  BY <1>3, <2>8, <2>9, <2>10 DEF RxData
<1>   QED  BY <1>1, <1>2, <1>3 DEF Receiver

\* The peer touches the network and itself only.
LEMMA TypePeer ==
  ASSUME TypeOK, Peer
  PROVE  TypeOK'
<1>  USE DEF TypeOK
<1>1. SocketTypes' /\ ThreadTypes'
  <2>1. UNCHANGED <<sockVars, flags, alarm, thrVars, rxN>>
    BY DEF Peer, SrvInform, SrvAccept, SrvReject, SrvAcked, SrvSend
  <2>   QED  BY <2>1 DEF sockVars, thrVars, SocketTypes, ThreadTypes
<1>2. ASSUME NEW h \in Servers \cup Foreign, SrvInform(h) PROVE NetTypes' /\ PeerTypes'
  BY <1>2 DEF SrvInform, srvVars, NetTypes, PeerTypes
<1>3. ASSUME NEW m \in c2s, SrvAccept(m) PROVE NetTypes' /\ PeerTypes'
  <2>1. m.n \in Nat  BY DEF NetTypes, ClientPackets
  <2>2. served' \in Seq(Nat) /\ Len(served) + 1 \in Nat /\ nxt \in Nat
    BY <1>3, <2>1 DEF SrvAccept, PeerTypes
  <2>3. PeerAck(nxt, Len(served) + 1, TRUE) \in PeerPackets  BY <2>2, PeerAckType
  <2>4. s2c' \subseteq PeerPackets  BY <1>3, <2>3, FromPeerType DEF SrvAccept
  <2>5. base' \in Nat  BY <1>3, AcknowledgedType DEF SrvAccept
  <2>6. stream' \in Seq(ReplyPackets)
    <3>1. ASSUME NEW isRead \in BOOLEAN, NEW size \in Nat
          PROVE  stream \o Reply(m.n, isRead, size) \in Seq(ReplyPackets)
      <4>1. Reply(m.n, isRead, size) \in Seq(ReplyPackets)  BY <2>1, ReplyType
      <4>2. stream \in Seq(ReplyPackets)  BY DEF PeerTypes
      <4>   QED  BY <4>1, <4>2, ConcatProperties
    <3>2. 0 .. MaxReply \subseteq Nat /\ 1 \in Nat  BY ConstantTypes
    <3>3. stream \in Seq(ReplyPackets)  BY DEF PeerTypes
    <3>   QED  BY <1>3, <3>1, <3>2, <3>3 DEF SrvAccept
  <2>   QED  BY <1>3, <2>2, <2>4, <2>5, <2>6 DEF SrvAccept, NetTypes, PeerTypes
<1>4. ASSUME NEW m \in c2s, SrvReject(m) PROVE NetTypes' /\ PeerTypes'
  <2>1. \A isAck \in BOOLEAN : PeerAck(nxt, Len(served), isAck) \in PeerPackets
    BY PeerAckType DEF PeerTypes
  <2>2. s2c' \subseteq PeerPackets  BY <1>4, <2>1, FromPeerType DEF SrvReject
  <2>3. base' \in Nat  BY <1>4, AcknowledgedType DEF SrvReject
  <2>   QED  BY <1>4, <2>2, <2>3 DEF SrvReject, NetTypes, PeerTypes
<1>5. ASSUME NEW m \in c2s, SrvAcked(m) PROVE NetTypes' /\ PeerTypes'
  BY <1>5, AcknowledgedType DEF SrvAcked, netVars, NetTypes, PeerTypes
<1>6. ASSUME NEW i \in base .. nxt, SrvSend(i) PROVE NetTypes' /\ PeerTypes'
  <2>  DEFINE p == stream[i + 1]
              fl == {"ACK"} \cup (IF p.fin THEN {"FIN"} ELSE {})
  <2>1. i \in Nat /\ i + 1 \in 1 .. Len(stream)  BY <1>6 DEF SrvSend, PeerTypes
  <2>2. p \in ReplyPackets  BY <2>1 DEF PeerTypes
  <2>3. p.hdr \in BOOLEAN /\ p.len \in {0, 1}  BY <2>2 DEF ReplyPackets
  <2>4. fl \in SUBSET {"ACK", "FIN"} /\ Len(served) \in Nat /\ Len(served) - 1 \in Int
    BY DEF PeerTypes
  <2>  HIDE DEF p, fl
  <2>5. PeerPacket(i, Len(served), fl, Len(served) - 1, p.hdr, p.len) \in PeerPackets
    BY <2>1, <2>3, <2>4, PeerPacketType
  <2>6. s2c' \subseteq PeerPackets  BY <1>6, <2>5, FromPeerType DEF SrvSend, p, fl
  <2>   QED  BY <1>6, <2>6 DEF SrvSend, NetTypes, PeerTypes
<1>   QED  BY <1>1, <1>2, <1>3, <1>4, <1>5, <1>6 DEF Peer

\* Every variable keeps its type: in particular the sequence numbers stay
\* within the 12 bit space, udprdma_recv's window counter stays below
\* UDPRDMA_RX_ACK_WINDOW and no retry loop runs past UDPRDMA_MAX_RETRIES.
THEOREM TypeCorrect == Spec => []TypeOK
<1>1. Init => TypeOK  BY TypeInit
<1>2. TypeOK /\ [Next]_vars => TypeOK'
  <2>1. CASE UNCHANGED vars
    BY <2>1 DEF vars, sockVars, thrVars, netVars, srvVars, TypeOK, SocketTypes,
                ThreadTypes, NetTypes, PeerTypes
  <2>   QED  BY <2>1, TypeThread, TypeReceiver, TypePeer DEF Next
<1>   QED  BY <1>1, <1>2, PTL DEF Spec

-----------------------------------------------------------------------------
(* IInv is an invariant: the peer applies each payload once and in order,  *)
(* and the client acknowledges nothing it has not taken.                   *)

LEMMA Sizes ==
  /\ SendWindow <= MaxLag /\ MaxLag + MaxLag < SeqMod
  /\ MaxRequest \in Nat /\ 1 <= MaxRequest /\ MaxChunks <= MaxRequest /\ MaxRequest <= SeqMod
  BY ConstantTypes, SeqSpaceAssumption DEF MaxRequest

\* What the proofs below need of the type invariant.
LEMMA Numbers ==
  ASSUME TypeOK
  PROVE  /\ issued \in Nat /\ chunks \in Nat /\ rxN \in Nat /\ base \in Nat /\ nxt \in Nat
         /\ rxSize \in Nat /\ rxData \in Seq(Nat) /\ served \in Seq(Nat)
         /\ stream \in Seq(ReplyPackets) /\ Len(served) \in Nat /\ Len(stream) \in Nat
         /\ Len(rxData) \in Nat
  BY DEF TypeOK, SocketTypes, ThreadTypes, PeerTypes

LEMMA ClientPacketNumbers ==
  ASSUME TypeOK, NEW m \in c2s
  PROVE  m.n \in Nat /\ m.a \in Nat /\ m.seq \in Nat /\ m.ack \in Nat
  BY DEF TypeOK, NetTypes, ClientPackets, SeqNr

LEMMA PeerPacketNumbers ==
  ASSUME TypeOK, NEW m \in s2c
  PROVE  m.n \in Nat /\ m.a \in Nat /\ m.seq \in Nat /\ m.len \in {0, 1} /\ m.hdr \in BOOLEAN
  BY DEF TypeOK, NetTypes, PeerPackets, SeqNr

LEMMA ModZero == 0 % SeqMod = 0
  BY SeqModPos, ModIs, 0 = SeqMod * 0 + 0

LEMMA InvInit == Init => IInv
<1>  SUFFICES ASSUME Init PROVE IInv  OBVIOUS
<1>1. TypeOK  BY TypeInit
<1>2. 0 % SeqMod = 0  BY ModZero
<1>3. ServedInOrder /\ InvClientPackets /\ InvPeerPackets
  BY DEF Init, ServedInOrder, InvClientPackets, InvPeerPackets
<1>4. InvControl /\ InvTx  BY <1>2 DEF Init, InvControl, InvTx, Sending, Receiving
<1>5. InvWindow /\ InvServed /\ InvArming /\ InvReply /\ InvFin
  BY <1>2, ConstantTypes, Sizes DEF Init, InvWindow, InvServed, InvArming, InvReply, InvFin, Finished
<1>   QED  BY <1>1, <1>3, <1>4, <1>5 DEF IInv, CoreInv

-----------------------------------------------------------------------------
(* Steps that touch neither the numbers nor the packets *)

LEMMA PeerQuiet ==
  ASSUME IInv, UNCHANGED <<s2c, rxN, rxExp, served, stream, base, nxt>>
  PROVE  ServedInOrder' /\ InvPeerPackets' /\ InvWindow'
<1>1. ServedInOrder'  BY DEF IInv, CoreInv, ServedInOrder
<1>2. InvPeerPackets'  BY DEF IInv, CoreInv, InvPeerPackets, HasPayload
<1>3. InvWindow'  BY DEF IInv, CoreInv, InvWindow
<1>   QED  BY <1>1, <1>2, <1>3

LEMMA ClientQuiet ==
  ASSUME IInv, UNCHANGED <<c2s, issued, rxN, served, base, chunks, kind>>
  PROVE  InvClientPackets'
  BY DEF IInv, CoreInv, InvClientPackets, FinalIsLast

Quiet ==
  /\ UNCHANGED <<kind, chunks, issued, rxN, rxExp, rxData, rxSize, c2s, s2c, served, stream,
                 base, nxt>>
  /\ pc = "call_set" => pc' = "call_set"

LEMMA QuietKeeps ==
  ASSUME IInv, TypeOK', Quiet, InvControl', InvTx', InvServed', InvFin'
  PROVE  CoreInv'
<1>1. ServedInOrder' /\ InvPeerPackets' /\ InvWindow'  BY PeerQuiet DEF Quiet
<1>2. InvClientPackets'  BY ClientQuiet DEF Quiet
<1>3. InvReply'  BY DEF Quiet, IInv, CoreInv, InvReply
<1>   QED  BY <1>1, <1>2, <1>3 DEF IInv, CoreInv

LEMMA QuietThread ==
  ASSUME IInv, TypeOK',
         Discover \/ DiscSend \/ DiscWake \/ DiscConnected \/ DiscDest \/ DiscRetry
           \/ SendStart \/ SendWake \/ SendClear \/ SendRetry \/ RecvStart \/ RecvWake \/ RecvAgain \/ AlarmFires
  PROVE  CoreInv'
<1>  USE DEF IInv, CoreInv, sockVars, rxVars, thrVars, netVars, srvVars
<1>1. CASE Discover
  <2>1. Quiet  BY <1>1 DEF Discover, Quiet
  <2>2. InvControl'  BY <1>1 DEF Discover, InvControl, Sending, Receiving
  <2>3. InvTx'  BY <1>1 DEF Discover, InvTx, InvControl
  <2>4. InvServed'  BY <1>1 DEF Discover, InvServed, InvControl
  <2>5. InvFin'  BY <1>1 DEF Discover, InvFin, Finished, InvControl
  <2>   QED  BY <2>1, <2>2, <2>3, <2>4, <2>5, QuietKeeps
<1>2. CASE DiscSend
  <2>1. Quiet  BY <1>2 DEF DiscSend, SetAlarm, Quiet
  <2>2. InvControl'  BY <1>2 DEF DiscSend, SetAlarm, InvControl, Sending, Receiving
  <2>3. InvTx'  BY <1>2 DEF DiscSend, SetAlarm, InvTx, InvControl
  <2>4. InvServed'  BY <1>2 DEF DiscSend, SetAlarm, InvServed, InvControl
  <2>5. InvFin'  BY <1>2 DEF DiscSend, SetAlarm, InvFin, Finished, InvControl
  <2>   QED  BY <2>1, <2>2, <2>3, <2>4, <2>5, QuietKeeps
<1>3. CASE DiscWake
  <2>1. Quiet  BY <1>3 DEF DiscWake, WaitClear, Quiet
  <2>2. InvControl'  BY <1>3 DEF DiscWake, WaitClear, InvControl, Sending, Receiving
  <2>3. InvTx'  BY <1>3 DEF DiscWake, WaitClear, InvTx, InvControl
  <2>4. InvServed'  BY <1>3 DEF DiscWake, WaitClear, InvServed, InvControl
  <2>5. InvFin'  BY <1>3 DEF DiscWake, WaitClear, InvFin, Finished, InvControl
  <2>   QED  BY <2>1, <2>2, <2>3, <2>4, <2>5, QuietKeeps
<1>4. CASE DiscConnected
  <2>1. Quiet  BY <1>4 DEF DiscConnected, Quiet
  <2>2. InvControl'  BY <1>4 DEF DiscConnected, InvControl, Sending, Receiving
  <2>3. InvTx'  BY <1>4, ModZero DEF DiscConnected, InvTx, InvControl
  <2>4. InvServed'
    <3>1. state = "DISCOVERING" /\ stream = <<>> /\ issued = 0  BY <1>4 DEF DiscConnected, InvControl
    <3>2. rxN = Len(stream) /\ Len(served) = issued
      BY <3>1, Numbers DEF InvWindow, InvServed
    <3>   QED  BY <1>4, <3>2 DEF DiscConnected, InvServed
  <2>5. InvFin'  BY <1>4 DEF DiscConnected, InvFin, Finished, InvControl
  <2>   QED  BY <2>1, <2>2, <2>3, <2>4, <2>5, QuietKeeps
<1>5. CASE DiscDest
  <2>1. Quiet  BY <1>5 DEF DiscDest, Quiet
  <2>2. InvControl'  BY <1>5 DEF DiscDest, InvControl, Sending, Receiving
  <2>3. InvTx'  BY <1>5 DEF DiscDest, InvTx, InvControl
  <2>4. InvServed'  BY <1>5 DEF DiscDest, InvServed, InvControl
  <2>5. InvFin'  BY <1>5 DEF DiscDest, InvFin, Finished, InvControl
  <2>   QED  BY <2>1, <2>2, <2>3, <2>4, <2>5, QuietKeeps
<1>6. CASE DiscRetry
  <2>1. Quiet  BY <1>6 DEF DiscRetry, Quiet
  <2>2. InvControl'  BY <1>6 DEF DiscRetry, InvControl, Sending, Receiving
  <2>3. InvTx'  BY <1>6 DEF DiscRetry, InvTx, InvControl
  <2>4. InvServed'  BY <1>6 DEF DiscRetry, InvServed, InvControl
  <2>5. InvFin'  BY <1>6 DEF DiscRetry, InvFin, Finished, InvControl
  <2>   QED  BY <2>1, <2>2, <2>3, <2>4, <2>5, QuietKeeps
<1>7. CASE SendStart
  <2>1. Quiet  BY <1>7 DEF SendStart, Quiet
  <2>2. InvControl'  BY <1>7 DEF SendStart, InvControl, Sending, Receiving
  <2>3. InvTx'  BY <1>7 DEF SendStart, InvTx, InvControl
  <2>4. InvServed'  BY <1>7 DEF SendStart, InvServed, InvControl
  <2>5. InvFin'  BY <1>7 DEF SendStart, InvFin, Finished, InvControl
  <2>   QED  BY <2>1, <2>2, <2>3, <2>4, <2>5, QuietKeeps
<1>8. CASE SendWake
  <2>1. Quiet  BY <1>8 DEF SendWake, Quiet
  <2>2. InvControl'  BY <1>8 DEF SendWake, InvControl, Sending, Receiving
  <2>3. InvTx'  BY <1>8 DEF SendWake, InvTx, InvControl
  <2>4. InvServed'  BY <1>8 DEF SendWake, InvServed, InvControl
  <2>5. InvFin'  BY <1>8 DEF SendWake, InvFin, Finished, InvControl
  <2>   QED  BY <2>1, <2>2, <2>3, <2>4, <2>5, QuietKeeps
<1>9. CASE SendClear
  <2>1. Quiet  BY <1>9 DEF SendClear, SendBits, Quiet
  <2>2. InvControl'  BY <1>9 DEF SendClear, SendBits, InvControl, Sending, Receiving
  <2>3. InvTx'  BY <1>9 DEF SendClear, SendBits, InvTx, InvControl
  <2>4. InvServed'  BY <1>9 DEF SendClear, SendBits, InvServed, InvControl
  <2>5. InvFin'  BY <1>9 DEF SendClear, SendBits, InvFin, Finished, InvControl
  <2>   QED  BY <2>1, <2>2, <2>3, <2>4, <2>5, QuietKeeps
<1>10. CASE SendRetry
  <2>1. Quiet  BY <1>10 DEF SendRetry, RestoreSeq, Quiet
  <2>2. InvControl'  BY <1>10 DEF SendRetry, RestoreSeq, InvControl, Sending, Receiving
  <2>3. InvTx'  BY <1>10 DEF SendRetry, RestoreSeq, InvTx, InvControl
  <2>4. InvServed'  BY <1>10 DEF SendRetry, RestoreSeq, InvServed, InvControl
  <2>5. InvFin'  BY <1>10 DEF SendRetry, RestoreSeq, InvFin, Finished, InvControl
  <2>   QED  BY <2>1, <2>2, <2>3, <2>4, <2>5, QuietKeeps
<1>11. CASE RecvStart
  <2>1. Quiet  BY <1>11 DEF RecvStart, SetAlarm, Quiet
  <2>2. InvControl'  BY <1>11 DEF RecvStart, SetAlarm, InvControl, Sending, Receiving
  <2>3. InvTx'  BY <1>11 DEF RecvStart, SetAlarm, InvTx, InvControl
  <2>4. InvServed'  BY <1>11 DEF RecvStart, SetAlarm, InvServed, InvControl
  <2>5. InvFin'  BY <1>11 DEF RecvStart, SetAlarm, InvFin, Finished, InvControl
  <2>   QED  BY <2>1, <2>2, <2>3, <2>4, <2>5, QuietKeeps
<1>12. CASE RecvWake
  <2>1. Quiet  BY <1>12 DEF RecvWake, WaitClear, Quiet
  <2>2. InvControl'  BY <1>12 DEF RecvWake, WaitClear, InvControl, Sending, Receiving
  <2>3. InvTx'  BY <1>12 DEF RecvWake, WaitClear, InvTx, InvControl
  <2>4. InvServed'  BY <1>12 DEF RecvWake, WaitClear, InvServed, InvControl
  <2>5. InvFin'  BY <1>12 DEF RecvWake, WaitClear, InvFin, Finished, InvControl
  <2>   QED  BY <2>1, <2>2, <2>3, <2>4, <2>5, QuietKeeps
<1>13. CASE RecvAgain
  <2>1. Quiet  BY <1>13 DEF RecvAgain, SetAlarm, Quiet
  <2>2. InvControl'  BY <1>13 DEF RecvAgain, SetAlarm, InvControl, Sending, Receiving
  <2>3. InvTx'  BY <1>13 DEF RecvAgain, SetAlarm, InvTx, InvControl
  <2>4. InvServed'  BY <1>13 DEF RecvAgain, SetAlarm, InvServed, InvControl
  <2>5. InvFin'  BY <1>13 DEF RecvAgain, SetAlarm, InvFin, Finished, InvControl
  <2>   QED  BY <2>1, <2>2, <2>3, <2>4, <2>5, QuietKeeps
<1>14. CASE AlarmFires
  <2>1. Quiet  BY <1>14 DEF AlarmFires, Quiet
  <2>2. InvControl'  BY <1>14 DEF AlarmFires, InvControl, Sending, Receiving
  <2>3. InvTx'  BY <1>14 DEF AlarmFires, InvTx, InvControl
  <2>4. InvServed'  BY <1>14 DEF AlarmFires, InvServed, InvControl
  <2>5. InvFin'  BY <1>14 DEF AlarmFires, InvFin, Finished, InvControl
  <2>   QED  BY <2>1, <2>2, <2>3, <2>4, <2>5, QuietKeeps
<1>   QED  BY <1>1, <1>2, <1>3, <1>4, <1>5, <1>6, <1>7, <1>8, <1>9, <1>10, <1>11, <1>12, <1>13, <1>14

LEMMA QuietReceiver ==
  ASSUME IInv, TypeOK',
         \/ \E h \in Consoles : RxDiscovery(h)
         \/ \E h \in Servers \cup Foreign : RxInform(h) \/ SrvInform(h)
         \/ \E m \in s2c : RxIgnored(m) \/ RxOutOfOrder(m)
  PROVE  CoreInv'
<1>  USE DEF IInv, CoreInv, sockVars, rxVars, thrVars, netVars, srvVars
<1>1. Quiet  BY DEF RxDiscovery, RxInform, SrvInform, RxIgnored, RxOutOfOrder, Quiet
<1>2. /\ UNCHANGED <<state, tx, rxArmed, stream, pc, bits, sent>>
      /\ "FIN" \in flags' => "FIN" \in flags
  BY DEF RxDiscovery, RxInform, SrvInform, RxIgnored, RxOutOfOrder, AckBit
<1>3. InvControl'  BY <1>1, <1>2 DEF Quiet, InvControl, Sending, Receiving
<1>4. InvTx'  BY <1>1, <1>2 DEF Quiet, InvTx
<1>5. InvServed'  BY <1>1, <1>2 DEF Quiet, InvServed
<1>6. InvFin'  BY <1>1, <1>2 DEF Quiet, InvFin, Finished
<1>   QED  BY <1>1, <1>3, <1>4, <1>5, <1>6, QuietKeeps

-----------------------------------------------------------------------------
(* Steps that begin, continue or end a call *)

\* A call begins only when the peer has nothing left to do for the one before.
LEMMA Settled ==
  ASSUME IInv, pc = "idle", state = "CONNECTED"
  PROVE  /\ kind = "none" /\ chunks = 0 /\ Len(served) = issued /\ rxN = Len(stream)
         /\ "FIN" \notin flags /\ tx = issued % SeqMod
<1>1. kind = "none"  BY DEF IInv, CoreInv, InvControl, Sending, Receiving
<1>2. chunks = 0 /\ Len(served) = issued /\ rxN = Len(stream)
  BY <1>1 DEF IInv, CoreInv, InvControl, InvServed
<1>3. "FIN" \notin flags  BY <1>1 DEF IInv, CoreInv, InvFin
<1>4. tx = issued % SeqMod  BY DEF IInv, CoreInv, InvTx
<1>   QED  BY <1>1, <1>2, <1>3, <1>4

\* One more payload: packets that are out stay in their bounds, and none of
\* them ends the request.
LEMMA IssueKeeps ==
  ASSUME IInv, issued' = issued + 1, UNCHANGED <<c2s, rxN, served, base>>,
         chunks > 1 \/ Len(served) = issued
  PROVE  InvClientPackets'
<1>  USE DEF IInv, CoreInv
<1>1. \A m \in c2s : ~(m.req \in {"read", "write"} /\ m.n >= Len(served))
  BY Numbers, ClientPacketNumbers DEF InvClientPackets, FinalIsLast
<1>2. ASSUME NEW m \in c2s
      PROVE  /\ m.n <= issued' /\ m.a <= rxN'
             /\ m.req # "none" => m.seq = m.n % SeqMod /\ m.n < issued'
             /\ FinalIsLast(m)'
  BY <1>1, Numbers, ClientPacketNumbers DEF InvClientPackets, FinalIsLast
<1>   QED  BY <1>2 DEF InvClientPackets

LEMMA BeginKeeps ==
  ASSUME IInv, TypeOK', CallRead \/ \E k \in 1 .. MaxChunks : CallWrite(k)
  PROVE  CoreInv'
<1>  USE DEF IInv, CoreInv
<1>1. pc = "idle" /\ state = "CONNECTED"  BY DEF CallRead, CallWrite
<1>2. /\ issued' = issued + 1 /\ chunks' \in Nat /\ 1 <= chunks' /\ chunks' <= MaxRequest
      /\ kind' \in {"read", "write"} /\ (kind' = "read" => chunks' = 1 /\ MaxReply > 0)
      /\ pc' = "call_set" /\ rxArmed' = TRUE
  BY ConstantTypes, Sizes DEF CallRead, CallWrite
<1>3. UNCHANGED <<state, tx, flags, sent, c2s, s2c, rxN, rxExp, served, stream, base, nxt>>
  BY DEF CallRead, CallWrite, netVars, srvVars
<1>4. /\ kind = "none" /\ chunks = 0 /\ Len(served) = issued /\ rxN = Len(stream)
      /\ "FIN" \notin flags /\ tx = issued % SeqMod
  BY <1>1, Settled
<1>5. ServedInOrder' /\ InvPeerPackets' /\ InvWindow'  BY <1>3, PeerQuiet
<1>6. InvClientPackets'  BY <1>2, <1>3, <1>4, IssueKeeps
<1>7. InvControl'
  BY <1>1, <1>2, <1>3, Numbers DEF InvControl, Sending, Receiving
<1>8. InvTx'
  <2>1. issued' - 1 = issued  BY <1>2, Numbers
  <2>   QED  BY <1>2, <1>3, <1>4, <2>1 DEF InvTx
<1>9. InvServed'  BY <1>1, <1>2, <1>3, <1>4, Numbers, Sizes DEF InvServed
<1>10. InvReply'  BY <1>2, <1>3, <1>4, Numbers DEF InvReply
<1>11. InvFin'  BY <1>2, <1>3, <1>4 DEF InvFin, Finished
<1>   QED  BY <1>5, <1>6, <1>7, <1>8, <1>9, <1>10, <1>11

\* The size and the count of the buffer are set before anything can arrive.
LEMMA SetKeeps ==
  ASSUME IInv, TypeOK', SetRxBuffer
  PROVE  CoreInv'
<1>  USE DEF IInv, CoreInv
<1>1. /\ pc = "call_set" /\ pc' = "send_start" /\ kind # "none" /\ rxData' = <<>>
      /\ rxSize' = IF kind = "read" THEN MaxReply ELSE 1
      /\ UNCHANGED <<state, tx, flags, bits, sent, kind, chunks, issued, rxArmed, rxN, rxExp, c2s,
                     s2c, served, stream, base, nxt>>
  BY DEF SetRxBuffer, InvControl, Sending, netVars, srvVars
<1>2. rxN = Len(stream)  BY <1>1 DEF InvArming
<1>3. ServedInOrder' /\ InvPeerPackets' /\ InvWindow'  BY <1>1, PeerQuiet
<1>4. InvClientPackets'  BY <1>1, ClientQuiet
<1>5. InvControl'  BY <1>1, ConstantTypes DEF InvControl, Sending, Receiving
<1>6. InvTx'  BY <1>1 DEF InvTx
<1>7. InvServed'  BY <1>1 DEF InvServed
<1>8. InvReply'  BY <1>1, <1>2, Numbers DEF InvReply
<1>9. InvFin'  BY <1>1 DEF InvFin, Finished
<1>   QED  BY <1>3, <1>4, <1>5, <1>6, <1>7, <1>8, <1>9

LEMMA SendOkKeeps ==
  ASSUME IInv, TypeOK', SendOk
  PROVE  CoreInv'
<1>  USE DEF IInv, CoreInv, sockVars, netVars, srvVars
<1>1. pc = "send_check" /\ kind # "none" /\ state = "CONNECTED" /\ tx = issued % SeqMod
  BY DEF SendOk, InvControl, InvTx, Sending
<1>2. CASE chunks > 1
  <2>1. /\ chunks' = chunks - 1 /\ issued' = issued + 1 /\ pc' = "send_start"
        /\ UNCHANGED <<sockVars, flags, sent, kind, rxN, netVars, srvVars>>
    BY <1>2 DEF SendOk
  <2>2. ServedInOrder' /\ InvPeerPackets' /\ InvWindow'  BY <2>1, PeerQuiet
  <2>3. InvClientPackets'  BY <1>2, <2>1, IssueKeeps
  <2>4. InvControl'  BY <1>1, <1>2, <2>1, Numbers DEF InvControl, Sending, Receiving
  <2>5. InvTx'
    <3>1. issued' - 1 = issued  BY <2>1, Numbers
    <3>   QED  BY <1>1, <2>1, <3>1 DEF InvTx
  <2>6. InvServed'
    <3>1. issued \in Nat /\ chunks \in Nat /\ Len(served) \in Nat /\ MaxRequest \in Nat
      BY Numbers, Sizes
    <3>2. issued' = issued + 1 /\ chunks' = chunks - 1
          /\ UNCHANGED <<state, kind, served, stream, rxN>>
      BY <2>1
    <3>3. issued + chunks <= Len(served) + MaxRequest + 1  BY <1>1 DEF InvServed
    <3>4. ~(rxN < Len(stream))  BY <1>2, <3>1 DEF InvServed
    <3>   QED  BY <1>1, <1>2, <3>1, <3>2, <3>3, <3>4 DEF InvServed
  <2>7. InvReply'  BY <1>1, <1>2, <2>1, Numbers DEF InvReply
  <2>8. InvFin'  BY <1>1, <1>2, <2>1, Numbers DEF InvFin, Finished
  <2>   QED  BY <2>2, <2>3, <2>4, <2>5, <2>6, <2>7, <2>8
<1>3. CASE chunks = 1
  <2>1. pc' = "recv_start" /\ Quiet /\ UNCHANGED <<sockVars, flags, sent>>
    BY <1>3 DEF SendOk, Quiet
  <2>2. InvControl'  BY <1>1, <1>3, <2>1 DEF Quiet, InvControl, Sending, Receiving
  <2>3. InvTx'  BY <1>1, <2>1 DEF Quiet, InvTx
  <2>4. InvServed'  BY <2>1 DEF Quiet, InvServed
  <2>5. InvFin'  BY <1>1, <2>1 DEF Quiet, InvFin, Finished
  <2>   QED  BY <2>1, <2>2, <2>3, <2>4, <2>5, QuietKeeps
<1>   QED  BY <1>2, <1>3 DEF SendOk

\* However a call ends, the packets that are out keep their bounds.
LEMMA EndKeeps ==
  ASSUME IInv, TypeOK', RecvDone \/ RecvTimeout \/ SendFail
  PROVE  CoreInv'
<1>  USE DEF IInv, CoreInv
<1>1. /\ kind # "none" /\ state = "CONNECTED" /\ issued > 0
      /\ pc \in {"recv_done", "recv_woken", "send_check"}
  BY DEF RecvDone, RecvTimeout, SendFail, InvControl, Sending, Receiving
<1>2. /\ kind' = "none" /\ chunks' = 0 /\ pc' = "idle"
      /\ UNCHANGED <<flags, rxExp, rxN, issued, c2s, s2c, served, stream, base, nxt, rxData, rxSize>>
  BY DEF RecvDone, RecvTimeout, SendFail, rxVars, netVars, srvVars
<1>3. \/ state' = "DISCONNECTED"
      \/ state' = "CONNECTED" /\ tx' = tx /\ pc = "recv_done"
  BY <1>1 DEF RecvDone, RecvTimeout, SendFail
<1>4. ServedInOrder' /\ InvPeerPackets' /\ InvWindow'  BY <1>2, PeerQuiet
<1>5. InvClientPackets'
  <2>1. \A m \in c2s : FinalIsLast(m)'  BY <1>2 DEF InvClientPackets, FinalIsLast
  <2>   QED  BY <1>2, <2>1 DEF InvClientPackets
<1>6. InvControl'  BY <1>1, <1>2, <1>3 DEF InvControl, Sending, Receiving
<1>7. InvTx'  BY <1>1, <1>2, <1>3 DEF InvTx
<1>8. InvServed'
  <2>1. state' = "CONNECTED" => Len(served) = issued /\ rxN = Len(stream)
    BY <1>1, <1>3 DEF InvFin, Finished
  <2>   QED  BY <1>1, <1>2, <2>1, Numbers DEF InvServed
<1>9. InvReply'  BY <1>2 DEF InvReply
<1>10. InvFin'  BY <1>1, <1>2, <1>3 DEF InvFin, Finished
<1>   QED  BY <1>4, <1>5, <1>6, <1>7, <1>8, <1>9, <1>10

-----------------------------------------------------------------------------
(* Packets of the client *)

\* A packet that says what is true of the socket at this moment may be sent.
LEMMA NewClientPacket ==
  ASSUME IInv, NEW m, m.n \in Nat, m.a = rxN, m.n <= issued, issued <= m.n + 1,
         m.req # "none" => m.seq = m.n % SeqMod /\ m.n < issued,
         "ACK" \in m.flags => m.ack = (rxN - 1) % SeqMod,
         FinalIsLast(m), ToPeer(m),
         UNCHANGED <<issued, rxN, served, base, chunks, kind>>
  PROVE  InvClientPackets'
<1>  USE DEF IInv, CoreInv
<1>0. MaxLag \in Nat /\ 1 <= MaxLag  BY ConstantTypes
<1>1. CASE dest \notin Servers  BY <1>1, ClientQuiet DEF ToPeer
<1>2. CASE dest \in Servers
  <2>1. /\ c2s' \subseteq c2s \cup {m}
        /\ \A k \in c2s' : m.n <= k.n + MaxLag /\ m.a <= k.a + MaxLag
    BY <1>2 DEF ToPeer, Fresh
  <2>2. \A k \in c2s : k.n <= issued /\ k.a <= rxN  BY DEF InvClientPackets
  <2>3. ASSUME NEW k \in c2s'
        PROVE  /\ k.n <= issued' /\ k.a <= rxN'
               /\ k.req # "none" => k.seq = k.n % SeqMod /\ k.n < issued'
               /\ "ACK" \in k.flags => k.ack = (k.a - 1) % SeqMod
               /\ k.n + MaxLag + 1 >= Len(served') /\ k.a + MaxLag >= base'
               /\ FinalIsLast(k)'
    <3>1. FinalIsLast(m)'  BY DEF FinalIsLast
    <3>2. CASE k = m
      <4>1. m.n + MaxLag + 1 >= Len(served)  BY <1>0, Numbers DEF InvServed
      <4>2. m.a + MaxLag >= base  BY <1>0, Numbers DEF InvWindow
      <4>   QED  BY <3>1, <3>2, <4>1, <4>2, Numbers
    <3>3. CASE k \in c2s  BY <3>3 DEF InvClientPackets, FinalIsLast
    <3>   QED  BY <2>1, <3>2, <3>3
  <2>4. ASSUME NEW k \in c2s', NEW l \in c2s'
        PROVE  l.n <= k.n + MaxLag /\ l.a <= k.a + MaxLag
    <3>1. CASE l = m  BY <2>1, <3>1
    <3>2. CASE l \in c2s /\ k \in c2s  BY <3>2 DEF InvClientPackets
    <3>3. CASE l \in c2s /\ k = m
      <4>1. l.n \in Nat /\ l.a \in Nat /\ l.n <= issued /\ l.a <= rxN
        BY <2>2, <3>3, ClientPacketNumbers
      <4>2. l.n <= m.n + MaxLag  BY <1>0, <4>1, Numbers
      <4>3. l.a <= m.a + MaxLag  BY <1>0, <4>1, Numbers
      <4>   QED  BY <3>3, <4>2, <4>3
    <3>   QED  BY <2>1, <3>1, <3>2, <3>3
  <2>   QED  BY <2>3, <2>4 DEF InvClientPackets
<1>   QED  BY <1>1, <1>2

\* rx_seq_nr_expected - 1 is the number of the last packet taken.
LEMMA LastReceivedIs ==
  ASSUME IInv
  PROVE  LastReceived = (rxN - 1) % SeqMod
<1>1. rxExp = rxN % SeqMod /\ rxN \in Int  BY Numbers DEF IInv, CoreInv, InvWindow
<1>   QED  BY <1>1, ModPrev, SeqModPos DEF LastReceived

LEMMA SendTxKeeps ==
  ASSUME IInv, TypeOK', SendTx
  PROVE  CoreInv'
<1>  USE DEF IInv, CoreInv
<1>1. /\ pc = "send_tx" /\ kind # "none" /\ state = "CONNECTED" /\ issued > 0 /\ chunks > 0
      /\ tx = (issued - 1) % SeqMod /\ (kind = "read" => chunks = 1)
      /\ kind \in {"read", "write"}
  BY DEF SendTx, InvControl, InvTx, Sending, TypeOK, ThreadTypes
<1>2. /\ sent' = tx /\ tx' = NextSeq(tx) /\ pc' = "send_wait" /\ ToPeer(DataPacket)
      /\ UNCHANGED <<state, rxArmed, rxSize, rxData, rxExp, rxN, flags, bits, kind, chunks, issued,
                     s2c, served, stream, base, nxt>>
  BY DEF SendTx, rxVars, srvVars
<1>3. InvClientPackets'
  <2>  DEFINE m == DataPacket
  <2>1. /\ m.n = issued - 1 /\ m.a = rxN /\ m.seq = tx /\ m.ack = LastReceived
        /\ m.req = IF chunks > 1 THEN "more" ELSE kind
    BY DEF DataPacket, ClientPacket
  <2>2. m.n \in Nat /\ m.n < issued /\ m.n <= issued /\ issued <= m.n + 1  BY <1>1, <2>1, Numbers
  <2>3. m.seq = m.n % SeqMod  BY <1>1, <2>1
  <2>4. m.ack = (rxN - 1) % SeqMod  BY <2>1, LastReceivedIs
  <2>5. FinalIsLast(m)  BY <1>1, <2>1, Numbers DEF FinalIsLast
  <2>6. ToPeer(m) /\ UNCHANGED <<issued, rxN, served, base, chunks, kind>>  BY <1>2
  <2>  HIDE DEF m
  <2>   QED  BY <2>1, <2>2, <2>3, <2>4, <2>5, <2>6, NewClientPacket
<1>4. ServedInOrder' /\ InvPeerPackets' /\ InvWindow'  BY <1>2, PeerQuiet
<1>5. InvControl'  BY <1>1, <1>2 DEF InvControl, Sending, Receiving
<1>6. InvTx'
  <2>1. issued - 1 \in Int /\ issued - 1 + 1 = issued  BY Numbers
  <2>2. NextSeq(tx) = issued % SeqMod  BY <1>1, <2>1, ModNext, SeqModPos DEF NextSeq
  <2>   QED  BY <1>1, <1>2, <2>2 DEF InvTx
<1>7. InvServed' /\ InvReply'  BY <1>1, <1>2 DEF InvServed, InvReply
<1>8. InvFin'  BY <1>1, <1>2 DEF InvFin, Finished
<1>   QED  BY <1>3, <1>4, <1>5, <1>6, <1>7, <1>8

LEMMA RecvAckKeeps ==
  ASSUME IInv, TypeOK', NEW isAck \in BOOLEAN,
         \/ pc = "recv_woken" /\ "FIN" \in bits /\ RecvAck(isAck, "recv_done")
         \/ pc = "recv_woken" /\ "FIN" \notin bits /\ RecvAck(isAck, "recv_again")
  PROVE  CoreInv'
<1>  USE DEF IInv, CoreInv
<1>1. /\ ToPeer(AckPacket(isAck)) /\ pc = "recv_woken"
      /\ pc' = (IF "FIN" \in bits THEN "recv_done" ELSE "recv_again") /\ bits' = {}
      /\ UNCHANGED <<state, tx, rxArmed, rxSize, rxData, rxExp, rxN, flags, sent, kind, chunks,
                     issued, s2c, served, stream, base, nxt>>
  BY DEF RecvAck, sockVars, srvVars
<1>2. kind # "none" /\ state = "CONNECTED"  BY <1>1 DEF InvControl, Receiving
<1>3. InvClientPackets'
  <2>  DEFINE m == AckPacket(isAck)
  <2>1. /\ m.n = issued /\ m.a = rxN /\ m.req = "none"
        /\ "ACK" \in m.flags => m.ack = LastReceived
    BY DEF AckPacket, ClientPacket
  <2>2. m.n \in Nat /\ m.n <= issued /\ issued <= m.n + 1  BY <2>1, Numbers
  <2>3. "ACK" \in m.flags => m.ack = (rxN - 1) % SeqMod  BY <2>1, LastReceivedIs
  <2>4. FinalIsLast(m)  BY <2>1 DEF FinalIsLast
  <2>5. ToPeer(m) /\ UNCHANGED <<issued, rxN, served, base, chunks, kind>>  BY <1>1
  <2>  HIDE DEF m
  <2>   QED  BY <2>1, <2>2, <2>3, <2>4, <2>5, NewClientPacket
<1>4. ServedInOrder' /\ InvPeerPackets' /\ InvWindow'  BY <1>1, PeerQuiet
<1>5. InvControl'  BY <1>1, <1>2 DEF InvControl, Sending, Receiving
<1>6. InvTx' /\ InvServed' /\ InvReply'  BY <1>1, <1>2 DEF InvTx, InvServed, InvReply
<1>7. InvFin'  BY <1>1, <1>2 DEF InvFin, Finished
<1>   QED  BY <1>3, <1>4, <1>5, <1>6, <1>7

-----------------------------------------------------------------------------
(* Packets of the peer *)

\* The sequence number singles out the packet expected.
LEMMA ExpectedIs ==
  ASSUME IInv, NEW m \in s2c, HasPayload(m), Expected(m)
  PROVE  m.n = rxN /\ rxN < nxt
<1>  USE DEF IInv, CoreInv
<1>1. m.n \in Int /\ rxN \in Int /\ m.n % SeqMod = rxN % SeqMod
  BY Numbers, PeerPacketNumbers DEF InvPeerPackets, InvWindow, Expected
<1>2. m.n < nxt /\ nxt <= m.n + MaxLag  BY DEF InvPeerPackets
<1>3. base <= rxN /\ rxN <= nxt /\ nxt <= base + SendWindow  BY DEF InvWindow
<1>4. m.n - rxN < SeqMod /\ rxN - m.n < SeqMod
  <2>1. m.n \in Nat /\ rxN \in Nat /\ nxt \in Nat /\ base \in Nat  BY Numbers, PeerPacketNumbers
  <2>2. m.n < rxN + SendWindow /\ rxN <= m.n + MaxLag  BY <1>2, <1>3, <2>1, ConstantTypes
  <2>   QED  BY <2>1, <2>2, ConstantTypes, Sizes
<1>5. m.n = rxN  BY <1>1, <1>4, ModUnique, SeqModPos
<1>   QED  BY <1>2, <1>5

\* The packet the peer takes for the next one is the next one.
LEMMA NextIs ==
  ASSUME IInv, NEW m \in c2s, m.req # "none", m.seq = Len(served) % SeqMod
  PROVE  m.n = Len(served) /\ Len(served) < issued
<1>  USE DEF IInv, CoreInv
<1>1. m.n \in Nat /\ Len(served) \in Nat /\ issued \in Nat  BY Numbers, ClientPacketNumbers
<1>2. m.seq = m.n % SeqMod /\ m.n < issued /\ m.n + MaxLag + 1 >= Len(served)
  BY DEF InvClientPackets
<1>3. issued <= Len(served) + MaxRequest  BY DEF InvServed
<1>4. m.n - Len(served) < SeqMod /\ Len(served) - m.n < SeqMod
  BY <1>1, <1>2, <1>3, ConstantTypes, Sizes
<1>5. m.n = Len(served)  BY <1>1, <1>2, <1>4, ModUnique, SeqModPos
<1>   QED  BY <1>2, <1>5

\* While the buffer is being set no packet is the expected one, and the peer
\* has no request left to accept.
LEMMA NothingArrives ==
  ASSUME IInv, pc = "call_set"
  PROVE  /\ \A m \in s2c : ~RxInOrder(m)
         /\ \A m \in c2s : ~SrvAccept(m)
<1>1. Len(served) = issued - 1 /\ rxN = Len(stream)  BY DEF IInv, InvArming
<1>2. ASSUME NEW m \in s2c, RxInOrder(m) PROVE FALSE
  <2>1. rxN < nxt  BY <1>2, ExpectedIs DEF RxInOrder
  <2>2. nxt <= Len(stream)  BY DEF IInv, CoreInv, InvWindow
  <2>   QED  BY <1>1, <2>1, <2>2, Numbers DEF IInv, CoreInv
<1>3. ASSUME NEW m \in c2s, SrvAccept(m) PROVE FALSE
  <2>1. m.req # "none" /\ m.n = Len(served)  BY <1>3, NextIs DEF SrvAccept
  <2>2. m.n < issued - 1  BY <2>1 DEF IInv, InvArming
  <2>   QED  BY <1>1, <2>1, <2>2, Numbers DEF IInv, CoreInv
<1>   QED  BY <1>2, <1>3

LEMMA RxInOrderKeeps ==
  ASSUME IInv, TypeOK', NEW m \in s2c, RxInOrder(m)
  PROVE  CoreInv'
<1>  USE DEF IInv, CoreInv
<1>0. HasPayload(m) /\ Expected(m) /\ rxArmed  BY DEF RxInOrder
<1>30. pc # "call_set"  BY NothingArrives
<1>1. m.n = rxN /\ rxN < nxt /\ nxt <= Len(stream)  BY <1>0, ExpectedIs DEF InvWindow
<1>2. Len(served) = issued /\ chunks <= 1  BY <1>1, Numbers DEF InvServed
<1>3. state # "DISCONNECTED" => kind # "none" /\ "FIN" \notin flags /\ ~Finished
  <2>1. state # "DISCONNECTED" => "FIN" \notin flags /\ ~Finished  BY <1>1, Numbers DEF InvFin
  <2>2. state \notin {"INIT", "DISCOVERING"}  BY <1>1, Numbers DEF InvControl
  <2>3. state = "CONNECTED" => kind # "none"  BY <1>1, Numbers DEF InvServed
  <2>   QED  BY <2>1, <2>2, <2>3 DEF TypeOK, SocketTypes
<1>4. /\ rxExp' = NextSeq(m.seq) /\ rxN' = rxN + 1
      /\ UNCHANGED <<state, tx, rxArmed, rxSize, pc, bits, sent, kind, chunks, issued,
                     c2s, s2c, served, stream, base, nxt>>
  BY DEF RxInOrder, thrVars, netVars, srvVars
<1>5. /\ Len(rxData') <= Len(rxData) + 1 /\ Len(rxData') \in Nat
      /\ "FIN" \in flags' /\ "FIN" \notin flags => "FIN" \in m.flags \/ Len(rxData') >= rxSize
  BY Numbers DEF RxInOrder, AckBit
<1>6. ServedInOrder' /\ InvClientPackets' /\ InvPeerPackets'
  <2>1. ServedInOrder'  BY <1>4 DEF ServedInOrder
  <2>2. InvPeerPackets'  BY <1>4 DEF InvPeerPackets, HasPayload
  <2>3. \A k \in c2s : FinalIsLast(k)'  BY <1>4 DEF InvClientPackets, FinalIsLast
  <2>4. \A k \in c2s : k.a <= rxN'  BY <1>4, Numbers, ClientPacketNumbers DEF InvClientPackets
  <2>5. InvClientPackets'  BY <1>4, <2>3, <2>4 DEF InvClientPackets
  <2>   QED  BY <2>1, <2>2, <2>5
<1>7. InvWindow'
  <2>1. m.seq = rxN % SeqMod  BY <1>1 DEF InvPeerPackets
  <2>2. rxExp' = NextSeq(rxN % SeqMod)  BY <1>4, <2>1
  <2>3. rxExp' = (rxN + 1) % SeqMod
    <3>1. rxN \in Int  BY Numbers
    <3>2. NextSeq(rxN % SeqMod) = (rxN + 1) % SeqMod  BY <3>1, ModNext, SeqModPos DEF NextSeq
    <3>   QED  BY <2>2, <3>2
  <2>   QED  BY <1>1, <1>4, <2>3, Numbers DEF InvWindow
<1>8. InvControl' /\ InvTx'  BY <1>4 DEF InvControl, InvTx
<1>9. InvServed'  BY <1>1, <1>2, <1>3, <1>4, Numbers DEF InvServed
<1>10. InvReply'
  <2>1. \A i \in rxN' + 1 .. Len(stream) : i \in rxN + 1 .. Len(stream)  BY <1>4, Numbers
  <2>2. ASSUME kind # "none", rxN' + 1 < Len(stream)
        PROVE  Len(rxData') + (Len(stream) - rxN') <= rxSize
    <3>1. rxN + 1 < Len(stream)  BY <1>4, <2>2, Numbers
    <3>2. Len(rxData) + (Len(stream) - rxN) <= rxSize  BY <2>2, <3>1, <1>30 DEF InvReply
    <3>3. rxN \in Nat /\ rxSize \in Nat /\ Len(stream) \in Nat /\ Len(rxData) \in Nat
      BY Numbers
    <3>4. rxN' = rxN + 1 /\ Len(rxData') <= Len(rxData) + 1 /\ Len(rxData') \in Nat
      BY <1>4, <1>5
    <3>   QED  BY <3>2, <3>3, <3>4
  <2>3. ~(Len(served) < issued \/ chunks > 1)  BY <1>2, Numbers
  <2>   QED  BY <1>4, <2>1, <2>2, <2>3 DEF InvReply
<1>11. InvFin'
  <2>1. ASSUME state # "DISCONNECTED", "FIN" \in flags'
        PROVE  rxN' = Len(stream)
    <3>1. kind # "none" /\ ("FIN" \in m.flags \/ Len(rxData') >= rxSize)  BY <1>3, <1>5, <2>1
    <3>2. CASE "FIN" \in m.flags
      <4>1. stream[rxN + 1].fin  BY <1>0, <1>1, <3>2 DEF InvPeerPackets
      <4>2. rxN + 1 \in rxN + 1 .. Len(stream)  BY <1>1, Numbers
      <4>   QED  BY <1>4, <3>1, <4>1, <4>2, <1>30 DEF InvReply
    <3>3. CASE rxN + 1 < Len(stream)
      <4>1. Len(rxData) + (Len(stream) - rxN) <= rxSize  BY <3>1, <3>3, <1>30 DEF InvReply
      <4>2. Len(rxData') < rxSize  BY <1>5, <3>3, <4>1, Numbers
      <4>3. "FIN" \in m.flags  BY <3>1, <1>5, <4>2, Numbers
      <4>   QED  BY <3>2, <4>3
    <3>   QED  BY <1>1, <1>4, <3>3, Numbers
  <2>2. Finished' => Finished  BY <1>4 DEF Finished
  <2>3. Finished => state # "DISCONNECTED"  BY DEF InvControl, Finished, Receiving
  <2>   QED  BY <1>2, <1>3, <1>4, <2>1, <2>2, <2>3 DEF InvFin
<1>   QED  BY <1>6, <1>7, <1>8, <1>9, <1>10, <1>11

-----------------------------------------------------------------------------
(* The peer *)

\* The peer reads an ACK of the client as exactly what the client had taken.
LEMMA AckedExactly ==
  ASSUME IInv, NEW m \in c2s
  PROVE  /\ Acknowledged(m) \in {base, m.a} /\ base <= Acknowledged(m)
         /\ Acknowledged(m) <= rxN /\ Acknowledged(m) \in Nat
<1>  USE DEF IInv, CoreInv
<1>  DEFINE upTo == {a \in base .. nxt : "ACK" \in m.flags /\ (a - 1) % SeqMod = m.ack}
<1>1. m.a \in Nat /\ base \in Nat /\ nxt \in Nat /\ rxN \in Nat  BY Numbers, ClientPacketNumbers
<1>2. m.a <= rxN /\ m.a + MaxLag >= base  BY DEF InvClientPackets
<1>3. base <= rxN /\ rxN <= nxt /\ nxt <= base + SendWindow  BY DEF InvWindow
<1>4. ASSUME NEW a \in upTo PROVE a = m.a
  <2>1. a \in Nat /\ base <= a /\ a <= nxt  BY <1>1
  <2>2. (a - 1) % SeqMod = (m.a - 1) % SeqMod  BY DEF InvClientPackets
  <2>3. (a - 1) - (m.a - 1) < SeqMod /\ (m.a - 1) - (a - 1) < SeqMod
    <3>1. a <= m.a + MaxLag + SendWindow /\ m.a <= a + SendWindow
      BY <1>1, <1>2, <1>3, <2>1, ConstantTypes
    <3>   QED  BY <1>1, <2>1, <3>1, ConstantTypes, Sizes
  <2>4. a - 1 = m.a - 1  BY <1>1, <2>1, <2>2, <2>3, ModUnique, SeqModPos
  <2>   QED  BY <1>1, <2>1, <2>4
<1>5. CASE upTo = {}  BY <1>1, <1>3, <1>5 DEF Acknowledged
<1>6. CASE upTo # {}
  <2>1. Acknowledged(m) \in upTo  BY <1>6 DEF Acknowledged
  <2>2. Acknowledged(m) = m.a  BY <1>4, <2>1
  <2>3. base <= Acknowledged(m)  BY <1>1, <2>1
  <2>   QED  BY <1>1, <1>2, <2>2, <2>3
<1>   QED  BY <1>5, <1>6

\* What the peer does about a packet keeps the bounds of those that are out.
LEMMA HeardKeeps ==
  ASSUME IInv, NEW m \in c2s, base' = Acknowledged(m), UNCHANGED <<c2s, issued, rxN, chunks, kind>>,
         Len(served') \in Nat, Len(served) <= Len(served'), Len(served') <= m.n + 1 \/ served' = served
  PROVE  InvClientPackets'
<1>  USE DEF IInv, CoreInv
<1>1. ASSUME NEW k \in c2s
      PROVE  k.n + MaxLag + 1 >= Len(served') /\ k.a + MaxLag >= base' /\ FinalIsLast(k)'
  <2>1. k.n + MaxLag + 1 >= Len(served) /\ k.a + MaxLag >= base
        /\ m.n <= k.n + MaxLag /\ m.a <= k.a + MaxLag
    BY DEF InvClientPackets
  <2>2. k.n + MaxLag + 1 >= Len(served')
    <3>1. k.n \in Nat /\ m.n \in Nat /\ MaxLag \in Nat  BY ClientPacketNumbers, ConstantTypes
    <3>2. CASE served' = served  BY <2>1, <3>2
    <3>3. CASE Len(served') <= m.n + 1  BY <2>1, <3>1, <3>3
    <3>   QED  BY <3>2, <3>3
  <2>3. k.a + MaxLag >= base'  BY <2>1, AckedExactly
  <2>4. FinalIsLast(k)'  BY Numbers, ClientPacketNumbers DEF InvClientPackets, FinalIsLast
  <2>   QED  BY <2>2, <2>3, <2>4
<1>   QED  BY <1>1 DEF InvClientPackets

LEMMA WindowKeeps ==
  ASSUME IInv, NEW m \in c2s, base' = Acknowledged(m), UNCHANGED <<rxExp, rxN, nxt>>,
         Len(stream') \in Nat, Len(stream) <= Len(stream')
  PROVE  InvWindow'
<1>  USE DEF IInv, CoreInv
<1>1. base' \in Nat /\ base <= base' /\ base' <= rxN  BY AckedExactly
<1>2. nxt <= base' + SendWindow
  <2>1. nxt \in Nat /\ base \in Nat /\ SendWindow \in Nat  BY Numbers, ConstantTypes
  <2>2. nxt <= base + SendWindow  BY DEF InvWindow
  <2>   QED  BY <1>1, <2>1, <2>2
<1>   QED  BY <1>1, <1>2, Numbers DEF InvWindow

\* A packet that says what is true of the stream may be sent.
LEMMA NewPeerPacket ==
  ASSUME IInv, NEW m, FromPeer(m), m.seq = m.n % SeqMod, nxt' <= m.n + MaxLag,
         nxt \in Nat, nxt' \in Nat, nxt <= nxt',
         HasPayload(m) => /\ m.n < nxt'
                          /\ m.hdr = stream'[m.n + 1].hdr /\ m.len = stream'[m.n + 1].len
                          /\ ("FIN" \in m.flags) = stream'[m.n + 1].fin,
         \A i \in 1 .. nxt : stream'[i] = stream[i]
  PROVE  InvPeerPackets'
<1>  USE DEF IInv, CoreInv
<1>1. s2c' \subseteq s2c \cup {m} /\ \A k \in s2c' : nxt' <= k.n + MaxLag
  BY DEF FromPeer, Fresh
<1>2. ASSUME NEW k \in s2c, HasPayload(k)
      PROVE  /\ k.n < nxt' /\ k.hdr = stream'[k.n + 1].hdr /\ k.len = stream'[k.n + 1].len
             /\ ("FIN" \in k.flags) = stream'[k.n + 1].fin
  <2>1. k.n \in Nat /\ k.n < nxt  BY <1>2, PeerPacketNumbers DEF InvPeerPackets
  <2>2. k.n + 1 \in 1 .. nxt  BY <2>1
  <2>   QED  BY <1>2, <2>1, <2>2 DEF InvPeerPackets
<1>3. \A k \in s2c : k.seq = k.n % SeqMod  BY DEF InvPeerPackets
<1>4. ASSUME NEW k \in s2c'
      PROVE  /\ k.seq = k.n % SeqMod /\ nxt' <= k.n + MaxLag
             /\ HasPayload(k) => /\ k.n < nxt'
                                 /\ k.hdr = stream'[k.n + 1].hdr /\ k.len = stream'[k.n + 1].len
                                 /\ ("FIN" \in k.flags) = stream'[k.n + 1].fin
  <2>1. CASE k = m  BY <1>1, <2>1
  <2>2. CASE k \in s2c  BY <1>1, <1>2, <1>3, <2>2
  <2>   QED  BY <1>1, <2>1, <2>2
<1>   QED  BY <1>4 DEF InvPeerPackets, HasPayload

LEMMA PeerAckKeeps ==
  ASSUME IInv, NEW a \in Nat, NEW isAck \in BOOLEAN, FromPeer(PeerAck(nxt, a, isAck)),
         nxt' = nxt, \A i \in 1 .. nxt : stream'[i] = stream[i]
  PROVE  InvPeerPackets'
<1>  DEFINE m == PeerAck(nxt, a, isAck)
<1>1. m.n = nxt /\ m.seq = nxt % SeqMod /\ m.hdr = FALSE /\ m.len = 0
  BY DEF PeerAck, PeerPacket
<1>2. nxt \in Nat /\ nxt <= nxt + MaxLag /\ nxt <= nxt  BY Numbers, ConstantTypes DEF IInv, CoreInv
<1>3. ~HasPayload(m)  BY <1>1 DEF HasPayload
<1>4. FromPeer(m)  OBVIOUS
<1>  HIDE DEF m
<1>   QED  BY <1>1, <1>2, <1>3, <1>4, NewPeerPacket

LEMMA SrvRejectKeeps ==
  ASSUME IInv, TypeOK', NEW m \in c2s, SrvReject(m) \/ SrvAcked(m)
  PROVE  CoreInv'
<1>  USE DEF IInv, CoreInv
<1>1. /\ base' = Acknowledged(m)
      /\ UNCHANGED <<c2s, issued, rxN, rxExp, chunks, kind, served, stream, nxt, state, tx, pc, sent,
                     bits, flags, rxArmed, rxSize, rxData>>
  BY DEF SrvReject, SrvAcked, sockVars, thrVars, netVars
<1>2. ServedInOrder' /\ InvControl' /\ InvTx' /\ InvServed' /\ InvReply' /\ InvFin'
  BY <1>1 DEF ServedInOrder, InvControl, InvTx, InvServed, InvReply, InvFin, Finished
<1>3. InvClientPackets'  BY <1>1, HeardKeeps, Numbers
<1>4. InvWindow'  BY <1>1, WindowKeeps, Numbers
<1>5. InvPeerPackets'
  <2>1. CASE SrvAcked(m)
    <3>1. UNCHANGED <<s2c, nxt, stream>>  BY <2>1 DEF SrvAcked, netVars
    <3>   QED  BY <3>1 DEF InvPeerPackets, HasPayload
  <2>2. CASE SrvReject(m)
    <3>1. PICK isAck \in BOOLEAN : FromPeer(PeerAck(nxt, Len(served), isAck))
      BY <2>2 DEF SrvReject
    <3>   QED  BY <1>1, <3>1, PeerAckKeeps, Numbers
  <2>   QED  BY <2>1, <2>2
<1>   QED  BY <1>2, <1>3, <1>4, <1>5

LEMMA SrvSendKeeps ==
  ASSUME IInv, TypeOK', NEW i \in base .. nxt, SrvSend(i)
  PROVE  CoreInv'
<1>  USE DEF IInv, CoreInv
<1>1. /\ i \in Nat /\ i < Len(stream) /\ i <= nxt /\ i < base + SendWindow /\ base <= i
      /\ nxt' = IF i = nxt THEN nxt + 1 ELSE nxt
      /\ UNCHANGED <<c2s, issued, rxN, rxExp, chunks, kind, served, stream, base, state, tx, pc, sent,
                     bits, flags, rxArmed, rxSize, rxData>>
  BY Numbers DEF SrvSend, sockVars, thrVars
<1>2. ServedInOrder' /\ InvControl' /\ InvTx' /\ InvServed' /\ InvReply' /\ InvFin'
  BY <1>1 DEF ServedInOrder, InvControl, InvTx, InvServed, InvReply, InvFin, Finished
<1>3. InvClientPackets'  BY <1>1, ClientQuiet
<1>4. nxt' \in Nat /\ nxt <= nxt' /\ i < nxt' /\ nxt' <= i + MaxLag
  <2>1. nxt <= base + SendWindow  BY DEF InvWindow
  <2>2. CASE i = nxt  BY <1>1, <2>2, Numbers, ConstantTypes
  <2>3. CASE i < nxt
    <3>1. nxt <= i + SendWindow  BY <1>1, <2>1, Numbers, ConstantTypes
    <3>   QED  BY <1>1, <2>3, <3>1, Numbers, ConstantTypes, Sizes
  <2>   QED  BY <1>1, <2>2, <2>3, Numbers
<1>5. InvWindow'
  <2>1. base <= rxN /\ rxN <= nxt /\ nxt <= Len(stream) /\ nxt <= base + SendWindow
    BY DEF InvWindow
  <2>2. rxN <= nxt' /\ nxt' <= Len(stream) /\ nxt' <= base + SendWindow
    BY <1>1, <1>4, <2>1, Numbers, ConstantTypes
  <2>   QED  BY <1>1, <2>2 DEF InvWindow
<1>6. InvPeerPackets'
  <2>  DEFINE p  == stream[i + 1]
              fl == {"ACK"} \cup (IF p.fin THEN {"FIN"} ELSE {})
              m  == PeerPacket(i, Len(served), fl, Len(served) - 1, p.hdr, p.len)
  <2>1. p \in ReplyPackets
    <3>1. i + 1 \in 1 .. Len(stream)  BY <1>1, Numbers
    <3>   QED  BY <3>1, Numbers
  <2>2. p.fin \in BOOLEAN  BY <2>1 DEF ReplyPackets
  <2>3. ("FIN" \in fl) = p.fin  BY <2>2
  <2>  HIDE DEF fl, p
  <2>4. m.n = i /\ m.seq = i % SeqMod /\ m.hdr = p.hdr /\ m.len = p.len /\ m.flags = fl
    BY DEF PeerPacket
  <2>5. FromPeer(m)  BY DEF SrvSend, fl, p
  <2>6. p = stream'[m.n + 1]  BY <1>1, <2>4 DEF p
  <2>  HIDE DEF m
  <2>   QED  BY <1>1, <1>4, <2>3, <2>4, <2>5, <2>6, NewPeerPacket, Numbers
<1>   QED  BY <1>2, <1>3, <1>5, <1>6

\* The reply to a request is what the client waits for: it ends in its only
\* FIN and fits the buffer.
LEMMA ReplyFits ==
  ASSUME IInv, TypeOK', NEW m \in c2s, SrvAccept(m), m.req \in {"read", "write"},
         NEW isRead \in BOOLEAN, NEW size \in Nat, isRead => m.req = "read" /\ size <= MaxReply,
         ~isRead => size = 1, stream' = stream \o Reply(m.n, isRead, size)
  PROVE  /\ Len(stream) <= Len(stream') /\ \A i \in 1 .. Len(stream) : stream'[i] = stream[i]
         /\ InvReply'
<1>  USE DEF IInv, CoreInv
<1>  DEFINE r == Reply(m.n, isRead, size)
<1>1. m.n \in Nat /\ stream \in Seq(ReplyPackets) /\ Len(stream) \in Nat  BY Numbers, ClientPacketNumbers
<1>2. r \in Seq(ReplyPackets) /\ Len(r) = IF size = 0 THEN 1 ELSE size  BY <1>1, ReplyType
<1>3. \A i \in 1 .. Len(r) : r[i].fin <=> i = Len(r)
  <2>1. \A i \in 1 .. Len(r) : r[i].fin <=> i >= size  BY <1>2 DEF Reply
  <2>2. \A i \in 1 .. Len(r) : i >= size <=> i = Len(r)  BY <1>2
  <2>   QED  BY <2>1, <2>2
<1>  HIDE DEF r
<1>4. /\ Len(stream') = Len(stream) + Len(r)
      /\ \A i \in 1 .. Len(stream) : stream'[i] = stream[i]
      /\ \A i \in Len(stream) + 1 .. Len(stream) + Len(r) : stream'[i] = r[i - Len(stream)]
  <2>1. stream' = stream \o r  BY DEF r
  <2>2. /\ Len(stream \o r) = Len(stream) + Len(r)
        /\ \A i \in 1 .. Len(stream) + Len(r) :
             (stream \o r)[i] = IF i <= Len(stream) THEN stream[i] ELSE r[i - Len(stream)]
    BY <1>1, <1>2, ConcatProperties
  <2>3. Len(r) \in Nat  BY <1>2
  <2>4. /\ \A i \in 1 .. Len(stream) : i \in 1 .. Len(stream) + Len(r) /\ i <= Len(stream)
        /\ \A i \in Len(stream) + 1 .. Len(stream) + Len(r) :
             i \in 1 .. Len(stream) + Len(r) /\ ~(i <= Len(stream))
    BY <1>1, <2>3
  <2>   QED  BY <2>1, <2>2, <2>4
<1>5. Len(served) < issued /\ m.n = Len(served)  BY NextIs DEF SrvAccept
<1>6. rxN = Len(stream)
  BY <1>5, Numbers DEF InvServed, InvWindow
<1>7. UNCHANGED <<kind, chunks, issued, rxN, rxData, rxSize>>
  BY DEF SrvAccept, sockVars, thrVars
<1>8. m.n = issued - 1 /\ (kind # "none" => m.req = kind)
  BY <1>1, <1>5, Numbers DEF InvClientPackets, FinalIsLast
<1>9. ASSUME NEW i \in rxN + 1 .. Len(stream')
      PROVE  stream'[i].fin <=> i = Len(stream')
  <2>1. i \in Len(stream) + 1 .. Len(stream) + Len(r)  BY <1>4, <1>6
  <2>2. i - Len(stream) \in 1 .. Len(r) /\ (i - Len(stream) = Len(r) <=> i = Len(stream'))
    BY <1>1, <1>2, <1>4, <2>1
  <2>   QED  BY <1>3, <1>4, <2>1, <2>2
<1>10. ASSUME kind # "none"
       PROVE  /\ rxData = <<>>
              /\ rxN + 1 < Len(stream') => Len(rxData) + (Len(stream') - rxN) <= rxSize
  <2>0. pc # "call_set"  BY NothingArrives
  <2>1. rxData = <<>>  BY <1>5, <1>10, <2>0 DEF InvReply
  <2>2. kind = "read" => rxSize = MaxReply  BY <2>0 DEF InvControl
  <2>3. Len(stream') - rxN = Len(r)  BY <1>1, <1>2, <1>4, <1>6
  <2>   QED  BY <1>2, <1>8, <1>10, <2>1, <2>2, <2>3, Numbers, ConstantTypes
<1>11. InvReply'  BY <1>7, <1>9, <1>10 DEF InvReply
<1>   QED  BY <1>1, <1>2, <1>4, <1>11

\* The peer answers the last packet of a request, and no other.
LEMMA AcceptAdds ==
  ASSUME NEW m \in c2s, SrvAccept(m)
  PROVE  \/ m.req = "more" /\ stream' = stream
         \/ /\ m.req \in {"read", "write"}
            /\ \E isRead \in BOOLEAN, size \in Nat :
                 /\ isRead => m.req = "read" /\ size <= MaxReply
                 /\ ~isRead => size = 1
                 /\ stream' = stream \o Reply(m.n, isRead, size)
<1>1. 0 .. MaxReply \subseteq Nat /\ \A size \in 0 .. MaxReply : size <= MaxReply
  BY ConstantTypes
<1>2. CASE m.req = "more"  BY <1>2 DEF SrvAccept
<1>3. CASE m.req = "write"
  <2>1. stream' = stream \o Reply(m.n, FALSE, 1)  BY <1>3 DEF SrvAccept
  <2>   QED  BY <1>3, <2>1
<1>4. CASE m.req = "read"
  <2>1. PICK size \in 0 .. MaxReply : stream' = stream \o Reply(m.n, TRUE, size)
    BY <1>4 DEF SrvAccept
  <2>   QED  BY <1>1, <1>4, <2>1
<1>   QED  BY <1>2, <1>3, <1>4 DEF SrvAccept

LEMMA SrvAcceptKeeps ==
  ASSUME IInv, TypeOK', NEW m \in c2s, SrvAccept(m)
  PROVE  CoreInv'
<1>  USE DEF IInv, CoreInv
<1>1. /\ base' = Acknowledged(m) /\ served' = Append(served, m.n) /\ m.req # "none"
      /\ FromPeer(PeerAck(nxt, Len(served) + 1, TRUE))
      /\ UNCHANGED <<c2s, issued, rxN, rxExp, chunks, kind, nxt, state, tx, pc, sent, bits, flags,
                     rxArmed, rxSize, rxData>>
  BY DEF SrvAccept, sockVars, thrVars
<1>2. m.n = Len(served) /\ Len(served) < issued  BY NextIs DEF SrvAccept
<1>3. /\ Len(served') = Len(served) + 1 /\ Len(served') = m.n + 1 /\ Len(served') \in Nat
      /\ \A i \in 1 .. Len(served) : served'[i] = served[i]
      /\ served'[Len(served) + 1] = m.n
  BY <1>1, <1>2, Numbers, ClientPacketNumbers
<1>4. rxN = Len(stream)  BY <1>2, Numbers DEF InvServed, InvWindow
<1>5. \/ m.req = "more" /\ stream' = stream
      \/ /\ m.req \in {"read", "write"}
         /\ \E isRead \in BOOLEAN, size \in Nat :
              /\ isRead => m.req = "read" /\ size <= MaxReply
              /\ ~isRead => size = 1
              /\ stream' = stream \o Reply(m.n, isRead, size)
  BY AcceptAdds
<1>6. Len(stream) <= Len(stream') /\ (\A i \in 1 .. Len(stream) : stream'[i] = stream[i]) /\ InvReply'
  <2>1. CASE m.req = "more" /\ stream' = stream
    <3>1. InvReply'  BY <1>1, <1>2, <1>3, <2>1, Numbers DEF InvReply
    <3>   QED  BY <2>1, <3>1, Numbers
  <2>2. CASE m.req \in {"read", "write"}
    <3>1. m.req # "more"  BY <2>2
    <3>   QED  BY <1>5, <2>2, <3>1, ReplyFits
  <2>   QED  BY <1>5, <2>1, <2>2
<1>7. Len(stream') \in Nat  BY DEF TypeOK, PeerTypes
<1>8. ServedInOrder'
  <2>1. ASSUME NEW i \in 1 .. Len(served') PROVE served'[i] = i - 1
    <3>1. CASE i \in 1 .. Len(served)  BY <1>3, <3>1 DEF ServedInOrder
    <3>2. CASE i = Len(served) + 1
      <4>1. i - 1 = Len(served)  BY <3>2, Numbers
      <4>   QED  BY <1>2, <1>3, <3>2, <4>1
    <3>   QED  BY <1>3, <3>1, <3>2, Numbers
  <2>   QED  BY <2>1 DEF ServedInOrder
<1>9. InvClientPackets'
  <2>1. Len(served) <= Len(served') /\ Len(served') <= m.n + 1  BY <1>3, Numbers
  <2>   QED  BY <1>1, <1>3, <2>1, HeardKeeps
<1>10. InvWindow'  BY <1>1, <1>6, <1>7, WindowKeeps
<1>11. InvPeerPackets'
  <2>1. nxt <= Len(stream)  BY DEF InvWindow
  <2>2. \A i \in 1 .. nxt : i \in 1 .. Len(stream)  BY <2>1, Numbers
  <2>3. \A i \in 1 .. nxt : stream'[i] = stream[i]  BY <1>6, <2>2
  <2>4. Len(served) + 1 \in Nat /\ TRUE \in BOOLEAN  BY Numbers
  <2>   QED  BY <1>1, <2>3, <2>4, PeerAckKeeps
<1>12. InvControl'
  <2>1. state \notin {"INIT", "DISCOVERING"}  BY <1>2, Numbers DEF InvControl
  <2>   QED  BY <1>1, <2>1 DEF InvControl
<1>13. InvTx'  BY <1>1 DEF InvTx
<1>14. m.req \in {"read", "write"} => m.n = issued - 1 /\ chunks <= 1
  BY <1>2, Numbers, ClientPacketNumbers DEF InvClientPackets, FinalIsLast
<1>15. InvServed'
  <2>1. ~(state = "CONNECTED" /\ kind = "none")  BY <1>2, Numbers DEF InvServed
  <2>2. rxN < Len(stream') => Len(served') = issued /\ chunks <= 1
    BY <1>2, <1>3, <1>4, <1>5, <1>14, Numbers
  <2>3. Len(served') <= issued /\ issued <= Len(served') + MaxRequest
        /\ (kind # "none" => issued + chunks <= Len(served') + MaxRequest + 1)
    BY <1>2, <1>3, Numbers, Sizes DEF InvServed
  <2>   QED  BY <1>1, <2>1, <2>2, <2>3 DEF InvServed
<1>16. InvFin'
  <2>1. ~(state # "DISCONNECTED" /\ ("FIN" \in flags \/ Finished))  BY <1>2, Numbers DEF InvFin
  <2>   QED  BY <1>1, <2>1 DEF InvFin, Finished
<1>   QED  BY <1>6, <1>8, <1>9, <1>10, <1>11, <1>12, <1>13, <1>15, <1>16

-----------------------------------------------------------------------------

LEMMA StepKeeps ==
  ASSUME IInv, TypeOK', Next
  PROVE  CoreInv'
<1>1. CASE Caller  BY <1>1, QuietThread, BeginKeeps DEF Caller
<1>2. CASE RecvFin \/ RecvNack \/ RecvWindow
  BY <1>2, RecvAckKeeps DEF RecvFin, RecvNack, RecvWindow
<1>3. CASE Thread
  BY <1>2, <1>3, QuietThread, SetKeeps, SendTxKeeps, SendOkKeeps, EndKeeps DEF Thread
<1>4. CASE AlarmFires  BY <1>4, QuietThread
<1>5. CASE Receiver  BY <1>5, QuietReceiver, RxInOrderKeeps DEF Receiver, RxData
<1>6. CASE Peer
  BY <1>6, QuietReceiver, SrvAcceptKeeps, SrvRejectKeeps, SrvSendKeeps DEF Peer
<1>   QED  BY <1>1, <1>3, <1>4, <1>5, <1>6 DEF Next

LEMMA ArmingKeeps ==
  ASSUME IInv, Next
  PROVE  InvArming'
<1>1. CASE CallRead \/ \E k \in 1 .. MaxChunks : CallWrite(k)
  <2>1. /\ pc = "idle" /\ state = "CONNECTED" /\ issued' = issued + 1
        /\ UNCHANGED <<c2s, served, stream, rxN>>
    BY <1>1 DEF CallRead, CallWrite, netVars, srvVars
  <2>2. Len(served) = issued /\ rxN = Len(stream)  BY <2>1, Settled
  <2>3. issued' - 1 = issued  BY <2>1, Numbers DEF IInv, CoreInv
  <2>4. \A m \in c2s : m.req # "none" => m.n < issued
    BY DEF IInv, CoreInv, InvClientPackets
  <2>   QED  BY <2>1, <2>2, <2>3, <2>4 DEF InvArming
<1>2. CASE Discover \/ Thread
  <2>1. pc' # "call_set"
    BY <1>2 DEF Discover, Thread, DiscSend, DiscWake, DiscConnected, DiscDest, DiscRetry,
                SetRxBuffer, SendStart, SendTx, SendWake, SendClear, SendOk, SendRetry, SendFail,
                RecvStart, RecvWake, RecvFin, RecvNack, RecvWindow, RecvAgain, RecvAck, RecvDone,
                RecvTimeout, WaitClear
  <2>   QED  BY <2>1 DEF InvArming
<1>3. CASE AlarmFires \/ Receiver \/ Peer
  <2>1. pc' = pc /\ issued' = issued /\ c2s' = c2s
    BY <1>3 DEF AlarmFires, Receiver, RxDiscovery, RxInform, RxData, RxIgnored, RxOutOfOrder,
                RxInOrder, Peer, SrvInform, SrvAccept, SrvReject, SrvAcked, SrvSend, thrVars, netVars
  <2>2. CASE pc # "call_set"  BY <2>1, <2>2 DEF InvArming
  <2>3. CASE pc = "call_set"
    <3>1. \/ AlarmFires \/ \E h \in Consoles : RxDiscovery(h)
          \/ \E h \in Servers \cup Foreign : RxInform(h) \/ SrvInform(h)
          \/ \E m \in s2c : RxIgnored(m) \/ RxOutOfOrder(m)
          \/ \E m \in c2s : SrvReject(m) \/ SrvAcked(m)
          \/ \E i \in base .. nxt : SrvSend(i)
      BY <1>3, <2>3, NothingArrives DEF Receiver, RxData, Peer
    <3>2. UNCHANGED <<served, stream, rxN>>
      BY <3>1 DEF AlarmFires, RxDiscovery, RxInform, SrvInform, RxIgnored, RxOutOfOrder, SrvReject,
                  SrvAcked, SrvSend, rxVars, srvVars
    <3>   QED  BY <2>1, <3>2 DEF IInv, InvArming
  <2>   QED  BY <2>2, <2>3
<1>   QED  BY <1>1, <1>2, <1>3 DEF Next, Caller

\* IInv holds in every state, whatever the network loses, repeats or reorders.
THEOREM Invariance == Spec => []IInv
<1>1. IInv /\ [Next]_vars => IInv'
  <2>  SUFFICES ASSUME IInv, [Next]_vars PROVE IInv'  OBVIOUS
  <2>1. CASE Next
    <3>1. TypeOK'  BY <2>1, TypeThread, TypeReceiver, TypePeer DEF Next, IInv, CoreInv
    <3>   QED  BY <2>1, <3>1, StepKeeps, ArmingKeeps DEF IInv
  <2>2. CASE UNCHANGED vars
    <3>1. TypeOK'
      BY <2>2 DEF IInv, CoreInv, vars, sockVars, thrVars, netVars, srvVars, TypeOK, SocketTypes,
                  ThreadTypes, NetTypes, PeerTypes
    <3>2. Quiet /\ UNCHANGED <<state, tx, rxArmed, pc, bits, sent, flags>>
      BY <2>2 DEF vars, sockVars, thrVars, netVars, srvVars, Quiet
    <3>3. InvControl' /\ InvTx' /\ InvServed' /\ InvFin'
      BY <3>2 DEF Quiet, IInv, CoreInv, InvControl, InvTx, InvServed, InvFin, Finished
    <3>4. InvArming'  BY <3>2 DEF Quiet, IInv, CoreInv, InvArming
    <3>   QED  BY <3>1, <3>2, <3>3, <3>4, QuietKeeps DEF IInv
  <2>   QED  BY <2>1, <2>2
<1>   QED  BY InvInit, <1>1, PTL DEF Spec

\* The peer applies each payload handed to udprdma_send at most once and in
\* order, over retransmissions, lost ACKs, late packets and sequence numbers
\* that wrap.
THEOREM AppliedInOrder == Spec => []ServedInOrder
<1>1. IInv => ServedInOrder  BY DEF IInv, CoreInv
<1>   QED  BY <1>1, Invariance, PTL

\* The peer is never told that a packet has arrived that _ist has not taken.
THEOREM Acknowledgements == Spec => []AckHonest
<1>1. IInv => AckHonest  BY DEF IInv, CoreInv, InvWindow, AckHonest
<1>   QED  BY <1>1, Invariance, PTL

-----------------------------------------------------------------------------
(* The socket implements RequestChannel *)

\* Most steps are invisible to the layer above.
LEMMA Invisible ==
  ASSUME UNCHANGED <<kind, issued, served, state>>, pc = "closed" <=> pc' = "closed"
  PROVE  [Channel!Next]_Channel!cvars
  BY DEF Channel!cvars

LEMMA InvisibleThread ==
  ASSUME DiscSend \/ DiscWake \/ DiscDest \/ SetRxBuffer \/ SendStart \/ SendTx \/ SendWake \/ SendClear
         \/ SendRetry \/ RecvStart \/ RecvWake \/ RecvFin \/ RecvNack \/ RecvWindow \/ RecvAgain
         \/ AlarmFires \/ (DiscRetry /\ pc' # "closed")
  PROVE  [Channel!Next]_Channel!cvars
<1>1. UNCHANGED <<kind, issued, served, state>>
  BY DEF DiscSend, DiscWake, DiscDest, DiscRetry, SetRxBuffer, SendStart, SendTx, SendWake, SendClear,
         SendRetry, RecvStart, RecvWake, RecvFin, RecvNack, RecvWindow, RecvAgain, RecvAck,
         AlarmFires, WaitClear, sockVars, thrVars, srvVars
<1>2. (pc # "closed" /\ pc' # "closed") \/ pc' = pc
  BY DEF DiscSend, DiscWake, DiscDest, DiscRetry, SetRxBuffer, SendStart, SendTx, SendWake, SendClear,
         SendRetry, RecvStart, RecvWake, RecvFin, RecvNack, RecvWindow, RecvAgain, RecvAck,
         AlarmFires, WaitClear, thrVars
<1>   QED  BY <1>1, <1>2, Invisible

LEMMA InvisibleNetwork ==
  ASSUME \/ Receiver
         \/ \E h \in Servers \cup Foreign : SrvInform(h)
         \/ \E m \in c2s : SrvReject(m) \/ SrvAcked(m)
         \/ \E i \in base .. nxt : SrvSend(i)
  PROVE  [Channel!Next]_Channel!cvars
<1>1. UNCHANGED <<kind, issued, served, state, pc>>
  BY DEF Receiver, RxDiscovery, RxInform, RxData, RxIgnored, RxOutOfOrder, RxInOrder,
         SrvInform, SrvReject, SrvAcked, SrvSend, sockVars, thrVars, srvVars
<1>   QED  BY <1>1, Invisible

\* What a step of the socket or of the peer does to the channel.
LEMMA ChannelStep ==
  ASSUME IInv, IInv', Next
  PROVE  [Channel!Next]_Channel!cvars
<1>  USE DEF Channel!Next, Channel!cvars
<1>1. CASE Discover
  <2>1. pc # "closed" /\ pc' # "closed" /\ UNCHANGED <<kind, issued, served>>
        /\ state = "INIT" /\ state' = "DISCOVERING"
    BY <1>1 DEF Discover, srvVars
  <2>   QED  BY <2>1
<1>2. CASE CallRead \/ \E k \in 1 .. MaxChunks : CallWrite(k)
  <2>1. /\ pc = "idle" /\ state = "CONNECTED" /\ state' = state /\ kind' # "none"
        /\ issued' = issued + 1 /\ served' = served
    BY <1>2 DEF CallRead, CallWrite, srvVars
  <2>2. kind = "none"  BY <2>1, Settled
  <2>   QED  BY <2>1, <2>2 DEF Channel!Begin
<1>3. CASE DiscConnected
  <2>1. /\ pc = "disc_woken" /\ state' = "CONNECTED" /\ UNCHANGED <<kind, issued, served>>
    BY <1>3 DEF DiscConnected, srvVars
  <2>2. state = "DISCOVERING"  BY <2>1 DEF IInv, CoreInv, InvControl
  <2>   QED  BY <2>1, <2>2 DEF Channel!Connect
<1>4. CASE DiscRetry /\ pc' = "closed"
  <2>1. /\ pc = "disc_woken" /\ state' = "INIT" /\ UNCHANGED <<kind, issued, served>>
    BY <1>4 DEF DiscRetry, srvVars
  <2>2. state = "DISCOVERING"  BY <2>1 DEF IInv, CoreInv, InvControl
  <2>   QED  BY <1>4, <2>1, <2>2 DEF Channel!NoServer
<1>5. CASE SendOk
  <2>1. /\ pc = "send_check" /\ UNCHANGED <<state, kind, served>> /\ pc' # "closed"
        /\ issued' \in {issued, issued + 1}
    BY <1>5 DEF SendOk, sockVars, srvVars
  <2>2. kind # "none" /\ state = "CONNECTED"  BY <2>1 DEF IInv, CoreInv, InvControl, Sending
  <2>   QED  BY <2>1, <2>2 DEF Channel!Continue
<1>6. CASE RecvDone
  <2>1. pc = "recv_done" /\ kind' = "none" /\ UNCHANGED <<state, issued, served>>
    BY <1>6 DEF RecvDone, srvVars
  <2>2. kind # "none" /\ state = "CONNECTED"  BY <2>1 DEF IInv, CoreInv, InvControl, Receiving
  <2>3. Len(served) = issued  BY <2>1, <2>2 DEF IInv, CoreInv, InvFin, Finished
  <2>   QED  BY <2>1, <2>2, <2>3 DEF Channel!Succeed
<1>7. CASE RecvTimeout \/ SendFail
  <2>1. /\ pc \in {"recv_woken", "send_check"} /\ kind' = "none" /\ state' = "DISCONNECTED"
        /\ UNCHANGED <<issued, served>>
    BY <1>7 DEF RecvTimeout, SendFail, netVars, srvVars
  <2>2. kind # "none" /\ state = "CONNECTED"  BY <2>1 DEF IInv, CoreInv, InvControl, Sending, Receiving
  <2>   QED  BY <2>1, <2>2 DEF Channel!Fail
<1>8. ASSUME NEW m \in c2s, SrvAccept(m) PROVE [Channel!Next]_Channel!cvars
  <2>1. UNCHANGED <<state, pc, kind, issued>> /\ served' = Append(served, m.n)
    BY <1>8 DEF SrvAccept, sockVars, thrVars
  <2>2. Len(served) < issued  BY <1>8, NextIs DEF SrvAccept
  <2>3. Len(served') = Len(served) + 1
    BY <2>1, Numbers, ClientPacketNumbers DEF IInv, CoreInv
  <2>   QED  BY <2>1, <2>2, <2>3 DEF Channel!Apply
<1>9. CASE DiscRetry /\ pc' # "closed"  BY <1>9, InvisibleThread
<1>10. CASE Thread  BY <1>3, <1>4, <1>5, <1>6, <1>7, <1>9, <1>10, InvisibleThread DEF Thread
<1>11. CASE Peer  BY <1>8, <1>11, InvisibleNetwork DEF Peer
<1>   QED
  BY <1>1, <1>2, <1>10, <1>11, InvisibleThread, InvisibleNetwork DEF Next, Caller

\* For the layer above, socket, peer and network together are a channel on
\* which a request is applied at most once, and wholly before it succeeds.
THEOREM Refinement == Spec => ImplementsChannel
<1>1. Init => Channel!Init  BY DEF Init, Channel!Init
<1>2. IInv /\ IInv' /\ [Next]_vars => [Channel!Next]_Channel!cvars
  <2>  SUFFICES ASSUME IInv, IInv', [Next]_vars PROVE [Channel!Next]_Channel!cvars
    OBVIOUS
  <2>1. CASE Next  BY <2>1, ChannelStep
  <2>2. CASE UNCHANGED vars
    <3>1. UNCHANGED <<kind, issued, served, state, pc>>
      BY <2>2 DEF vars, sockVars, thrVars, srvVars
    <3>   QED  BY <3>1, Invisible
  <2>   QED  BY <2>1, <2>2
<1>   QED  BY <1>1, <1>2, Invariance, PTL DEF Spec, ImplementsChannel, Channel!Spec
-----------------------------------------------------------------------------
(* The alarm of a send, and the buffers of a call *)

\* From the clearing of EF_TIMEOUT to the first wait of udprdma_recv no alarm
\* is set and no timeout is signalled.
Settling == pc \in {"send_check", "recv_start"} => "TIMEOUT" \notin flags /\ ~alarm

\* A buffer is set only during a call, or after a failed send.
Lent ==
  /\ rxArmed => kind # "none" \/ ret = "ERR_NACK"
  /\ pc = "call_set" => kind # "none"

LEMMA ThreadSettles ==
  ASSUME Settling, Lent, Caller \/ Thread \/ AlarmFires
  PROVE  Settling' /\ Lent'
<1>1. CASE Caller
  BY <1>1 DEF Caller, Discover, CallRead, CallWrite, Settling, Lent, rxVars
<1>2. CASE DiscSend \/ DiscWake \/ DiscConnected \/ DiscDest \/ DiscRetry
  BY <1>2 DEF DiscSend, DiscWake, DiscConnected, DiscDest, DiscRetry, WaitClear, Settling,
              Lent, rxVars, sockVars
<1>3. CASE SetRxBuffer \/ SendStart \/ SendTx \/ SendWake
  BY <1>3 DEF SetRxBuffer, SendStart, SendTx, SendWake, Settling, Lent, rxVars, sockVars
<1>4. CASE SendClear \/ SendOk \/ SendRetry \/ SendFail
  BY <1>4 DEF SendClear, SendBits, SendOk, SendRetry, SendFail, Settling, Lent, rxVars,
              sockVars
<1>5. CASE RecvStart \/ RecvWake \/ RecvAgain
  BY <1>5 DEF RecvStart, RecvWake, RecvAgain, WaitClear, Settling, Lent, sockVars
<1>6. CASE RecvFin \/ RecvNack \/ RecvWindow
  <2>1. pc' \in {"recv_done", "recv_again"} /\ UNCHANGED <<rxArmed, kind, ret>>
    BY <1>6 DEF RecvFin, RecvNack, RecvWindow, RecvAck, sockVars
  <2>   QED  BY <2>1 DEF Settling, Lent
<1>7. CASE RecvDone \/ RecvTimeout
  BY <1>7 DEF RecvDone, RecvTimeout, ReleaseBuffers, Settling, Lent
<1>8. CASE AlarmFires
  BY <1>8 DEF AlarmFires, Settling, Lent, thrVars, sockVars
<1>9. CASE Thread  BY <1>2, <1>3, <1>4, <1>5, <1>6, <1>7, <1>9 DEF Thread
<1>   QED  BY <1>1, <1>8, <1>9

LEMMA OthersSettle ==
  ASSUME Settling, Lent, Receiver \/ Peer
  PROVE  Settling' /\ Lent'
<1>1. UNCHANGED <<pc, kind, ret, rxArmed, alarm>>
  BY DEF Receiver, RxDiscovery, RxInform, RxData, RxIgnored, RxOutOfOrder, RxInOrder, Peer,
         SrvInform, SrvAccept, SrvReject, SrvAcked, SrvSend, thrVars, sockVars, rxVars
<1>2. "TIMEOUT" \in flags' => "TIMEOUT" \in flags
  <2>1. CASE Peer
    BY <2>1 DEF Peer, SrvInform, SrvAccept, SrvReject, SrvAcked, SrvSend
  <2>2. CASE Receiver
    <3>1. ASSUME NEW m \in s2c, RxInOrder(m) PROVE "TIMEOUT" \in flags' => "TIMEOUT" \in flags
      BY <3>1 DEF RxInOrder, AckBit
    <3>2. ASSUME NEW m \in s2c, RxIgnored(m) \/ RxOutOfOrder(m)
          PROVE  "TIMEOUT" \in flags' => "TIMEOUT" \in flags
      BY <3>2 DEF RxIgnored, RxOutOfOrder, AckBit
    <3>   QED  BY <2>2, <3>1, <3>2 DEF Receiver, RxData, RxDiscovery, RxInform
  <2>   QED  BY <2>1, <2>2
<1>3. Settling'  BY <1>1, <1>2 DEF Settling
<1>4. Lent'  BY <1>1 DEF Lent
<1>   QED  BY <1>3, <1>4

LEMMA SettlingAndLent == Spec => [](Settling /\ Lent)
<1>1. Init => Settling /\ Lent  BY DEF Init, Settling, Lent
<1>2. Settling /\ Lent /\ [Next]_vars => (Settling /\ Lent)'
  <2>1. CASE UNCHANGED vars
    BY <2>1 DEF Settling, Lent, vars, thrVars, sockVars
  <2>   QED  BY <2>1, ThreadSettles, OthersSettle DEF Next
<1>   QED  BY <1>1, <1>2, PTL DEF Spec

\* udprdma_recv starts without a timeout left over from the send before it.
THEOREM NoStaleTimeout == Spec => []FreshRecv
<1>1. Settling => FreshRecv  BY DEF Settling, FreshRecv
<1>   QED  BY <1>1, SettlingAndLent, PTL

\* The receive thread writes to memory of the caller only during the call, or
\* after a failed send.
THEOREM BuffersReturned == Spec => BufferReleased
<1>1. ASSUME Lent, [Next]_vars
      PROVE  [rxData' # rxData => kind # "none" \/ kind' # "none" \/ ret = "ERR_NACK"]_vars
  <2>  SUFFICES ASSUME Next, rxData' # rxData
       PROVE  kind # "none" \/ kind' # "none" \/ ret = "ERR_NACK"
    BY <1>1
  <2>1. CASE Caller
    BY <2>1 DEF Caller, Discover, CallRead, CallWrite, rxVars
  <2>4. CASE SetRxBuffer  BY <1>1, <2>4 DEF SetRxBuffer, Lent
  <2>2. CASE Receiver
    <3>1. rxArmed
      BY <2>2 DEF Receiver, RxDiscovery, RxInform, RxData, RxIgnored, RxOutOfOrder,
                  RxInOrder, rxVars
    <3>   QED  BY <1>1, <3>1 DEF Lent
  <2>3. rxData' = rxData \/ Caller \/ Receiver \/ SetRxBuffer
    BY DEF Next, Thread, DiscSend, DiscWake, DiscConnected, DiscDest, DiscRetry, SendStart,
           SendTx, SendWake, SendClear, SendOk, SendRetry, SendFail, RecvStart, RecvWake,
           RecvFin, RecvNack, RecvWindow, RecvAgain, RecvAck, RecvDone, RecvTimeout,
           AlarmFires, WaitClear, Peer, SrvInform, SrvAccept, SrvReject, SrvAcked, SrvSend,
           sockVars, rxVars
  <2>   QED  BY <2>1, <2>2, <2>3, <2>4
<1>   QED  BY <1>1, SettlingAndLent, PTL DEF Spec, BufferReleased

-----------------------------------------------------------------------------
(* A call that succeeds has the reply to its own request *)

callVars == <<kind, chunks, issued, served, stream, rxN, rxData, rxSize, rxArmed, hdrArmed,
              hdrRecv, hdrVal, ret>>

\* EF_RX_FIN is up, or was when the receive woke.
FinSeen == "FIN" \in flags \/ Finished

\* A step that leaves the call alone.
LEMMA CallSame ==
  ASSUME CallInv, UNCHANGED callVars, ret = "ok" => state' = state,
         pc = "call_set" => pc' = "call_set",
         state' # "DISCONNECTED" /\ FinSeen' => state # "DISCONNECTED" /\ FinSeen
  PROVE  CallInv'
<1>1. Mine' = Mine  BY DEF callVars, Mine, ReplyTo
<1>2. InvStream'  BY DEF CallInv, callVars, InvStream
<1>3. InvPending'  BY <1>1 DEF CallInv, callVars, InvPending
<1>4. InvHeld'  BY <1>1 DEF CallInv, callVars, InvHeld
<1>5. InvHeader'  BY <1>1 DEF CallInv, callVars, InvHeader
<1>6. InvEnd'
  <2>1. state' # "DISCONNECTED" /\ FinSeen' => Mine' # {}
    BY <1>1 DEF CallInv, InvEnd, FinSeen
  <2>   QED  BY <2>1 DEF CallInv, callVars, InvEnd, FinSeen
<1>7. CallComplete'  BY DEF CallInv, callVars, CallComplete, ReplyTo
<1>   QED  BY <1>2, <1>3, <1>4, <1>5, <1>6, <1>7 DEF CallInv

LEMMA CallSameThread ==
  ASSUME IInv, CallInv,
         \/ Discover \/ DiscSend \/ DiscWake \/ DiscConnected \/ DiscDest \/ DiscRetry
         \/ SendStart \/ SendTx \/ SendWake \/ SendClear \/ SendRetry
         \/ RecvStart \/ RecvWake \/ RecvFin \/ RecvNack \/ RecvWindow \/ RecvAgain \/ AlarmFires
  PROVE  CallInv'
<1>  USE DEF callVars, sockVars, rxVars, thrVars, netVars, srvVars, FinSeen, Finished
<1>1. CASE Discover \/ DiscSend \/ DiscConnected \/ DiscDest \/ DiscRetry
  <2>1. /\ UNCHANGED <<callVars, flags>> /\ pc' \notin {"recv_woken", "recv_done"}
        /\ state = "CONNECTED" => state' = state
        /\ state # "DISCONNECTED" /\ pc # "call_set"
    BY <1>1 DEF Discover, DiscSend, DiscConnected, DiscDest, DiscRetry, IInv, CoreInv, InvControl
  <2>2. ret = "ok" => state = "CONNECTED"  BY DEF CallInv, InvEnd
  <2>   QED  BY <2>1, <2>2, CallSame
<1>2. CASE DiscWake
  <2>1. UNCHANGED <<callVars, state>> /\ flags' = {} /\ pc' = "disc_woken" /\ pc # "call_set"
    BY <1>2 DEF DiscWake, WaitClear
  <2>   QED  BY <2>1, CallSame
<1>3. CASE SendStart \/ SendWake \/ SendClear \/ RecvStart \/ RecvAgain
  <2>1. /\ UNCHANGED <<callVars, state>> /\ pc' \notin {"recv_woken", "recv_done"}
        /\ "FIN" \in flags' => "FIN" \in flags
        /\ pc # "call_set"
    BY <1>3 DEF SendStart, SendWake, SendClear, SendBits, RecvStart, RecvAgain
  <2>   QED  BY <2>1, CallSame
<1>4. CASE SendTx \/ SendRetry
  <2>1. /\ UNCHANGED <<callVars, state, flags>> /\ pc' \notin {"recv_woken", "recv_done"}
        /\ pc # "call_set"
    BY <1>4 DEF SendTx, SendRetry
  <2>   QED  BY <2>1, CallSame
<1>5. CASE RecvWake
  <2>1. /\ UNCHANGED <<callVars, state>> /\ flags' = {} /\ bits' = flags /\ pc' = "recv_woken"
        /\ pc # "call_set"
    BY <1>5 DEF RecvWake, WaitClear
  <2>   QED  BY <2>1, CallSame
<1>6. CASE RecvFin \/ RecvNack \/ RecvWindow
  <2>1. /\ UNCHANGED <<callVars, state, flags>> /\ bits' = {} /\ pc' \in {"recv_done", "recv_again"}
        /\ pc # "call_set"
        /\ pc' = "recv_done" => pc = "recv_woken" /\ "FIN" \in bits
    BY <1>6 DEF RecvFin, RecvNack, RecvWindow, RecvAck
  <2>   QED  BY <2>1, CallSame
<1>7. CASE AlarmFires
  <2>1. UNCHANGED <<callVars, state, bits, pc>> /\ ("FIN" \in flags' => "FIN" \in flags)
    BY <1>7 DEF AlarmFires
  <2>   QED  BY <2>1, CallSame
<1>   QED  BY <1>1, <1>2, <1>3, <1>4, <1>5, <1>6, <1>7

LEMMA CallSameOthers ==
  ASSUME CallInv,
         \/ \E h \in Consoles : RxDiscovery(h)
         \/ \E h \in Servers \cup Foreign : RxInform(h) \/ SrvInform(h)
         \/ \E m \in s2c : RxIgnored(m) \/ RxOutOfOrder(m)
         \/ \E m \in c2s : SrvReject(m) \/ SrvAcked(m)
         \/ \E i \in base .. nxt : SrvSend(i)
  PROVE  CallInv'
<1>  USE DEF callVars, sockVars, rxVars, thrVars, netVars, srvVars
<1>1. UNCHANGED <<callVars, state, pc, bits>>
  BY DEF RxDiscovery, RxInform, SrvInform, RxIgnored, RxOutOfOrder, SrvReject, SrvAcked, SrvSend
<1>2. "FIN" \in flags' => "FIN" \in flags
  <2>1. ASSUME NEW m \in s2c, RxIgnored(m) \/ RxOutOfOrder(m)
        PROVE  "FIN" \in flags' => "FIN" \in flags
    BY <2>1 DEF RxIgnored, RxOutOfOrder, AckBit
  <2>2. CASE \E m \in s2c : RxIgnored(m) \/ RxOutOfOrder(m)  BY <2>1, <2>2
  <2>3. CASE ~ \E m \in s2c : RxIgnored(m) \/ RxOutOfOrder(m)
    <3>1. (\E h \in Consoles : RxDiscovery(h)) => flags' = flags \cup {"DISC"}
      BY DEF RxDiscovery
    <3>2. (\E h \in Servers \cup Foreign : RxInform(h)) => flags' = flags \cup {"INFO"}
      BY DEF RxInform
    <3>3. /\ (\E h \in Servers \cup Foreign : SrvInform(h)) => flags' = flags
          /\ (\E m \in c2s : SrvReject(m) \/ SrvAcked(m)) => flags' = flags
          /\ (\E i \in base .. nxt : SrvSend(i)) => flags' = flags
      BY DEF SrvInform, SrvReject, SrvAcked, SrvSend
    <3>4. flags' \in {flags, flags \cup {"DISC"}, flags \cup {"INFO"}}
      BY <2>3, <3>1, <3>2, <3>3
    <3>   QED  BY <3>4
  <2>   QED  BY <2>2, <2>3
<1>   QED  BY <1>1, <1>2, CallSame DEF FinSeen, Finished

\* One more payload: nothing answers it yet.
LEMMA NoneYet ==
  ASSUME IInv, CallInv, issued' = issued + 1, UNCHANGED <<served, stream>>
  PROVE  Mine' = {}
<1>1. \A i \in 0 .. Len(stream) - 1 : stream[i + 1].for < Len(served)
  <2>1. \A i \in 0 .. Len(stream) - 1 : i + 1 \in 1 .. Len(stream)  BY Numbers DEF IInv, CoreInv
  <2>   QED  BY <2>1 DEF CallInv, InvStream
<1>2. issued' - 1 = issued /\ Len(served) <= issued /\ issued \in Nat /\ Len(served) \in Nat
  BY Numbers DEF IInv, CoreInv, InvServed
<1>3. \A i \in 0 .. Len(stream) - 1 : stream[i + 1].for # issued
  <2>  SUFFICES ASSUME NEW i \in 0 .. Len(stream) - 1, stream[i + 1].for = issued PROVE FALSE
    OBVIOUS
  <2>1. issued < Len(served)  BY <1>1
  <2>   QED  BY <1>2, <2>1
<1>   QED  BY <1>2, <1>3 DEF Mine, ReplyTo

LEMMA BeginCall ==
  ASSUME IInv, CallInv, CallRead \/ \E k \in 1 .. MaxChunks : CallWrite(k)
  PROVE  CallInv'
<1>1. pc = "idle" /\ state = "CONNECTED"  BY DEF CallRead, CallWrite
<1>2. /\ issued' = issued + 1 /\ ret' = "none" /\ pc' = "call_set"
      /\ kind' = "read" => hdrArmed' = TRUE /\ hdrRecv' = FALSE
      /\ UNCHANGED <<state, flags, rxN, served, stream>>
  BY DEF CallRead, CallWrite, netVars, srvVars
<1>3. "FIN" \notin flags  BY <1>1, Settled
<1>4. Mine' = {}  BY <1>2, NoneYet
<1>5. InvStream'  BY <1>2 DEF CallInv, InvStream
<1>6. InvPending' /\ InvHeld'  BY <1>2 DEF InvPending, InvHeld
<1>7. InvHeader' /\ InvEnd' /\ CallComplete'
  BY <1>2, <1>3, <1>4 DEF InvHeader, InvEnd, Finished, CallComplete
<1>   QED  BY <1>5, <1>6, <1>7 DEF CallInv

\* The buffer is empty when the request goes out, and so is what answers it.
LEMMA SetCall ==
  ASSUME IInv, CallInv, SetRxBuffer
  PROVE  CallInv'
<1>1. /\ pc = "call_set" /\ pc' = "send_start" /\ rxData' = <<>>
      /\ UNCHANGED <<state, flags, rxN, issued, served, stream, kind, chunks, ret, rxArmed, hdrArmed,
                     hdrRecv, hdrVal>>
  BY DEF SetRxBuffer, netVars, srvVars
<1>2. /\ rxN = Len(stream) /\ Len(served) = issued - 1 /\ kind # "none" /\ rxN \in Nat
      /\ issued \in Nat
  BY <1>1, Numbers DEF IInv, CoreInv, InvArming, InvControl, Sending
<1>3. Mine = {}
  <2>  SUFFICES ASSUME NEW i \in 0 .. Len(stream) - 1, stream[i + 1].for = issued - 1 PROVE FALSE
    BY DEF Mine, ReplyTo
  <2>1. i + 1 \in 1 .. Len(stream)  BY Numbers DEF IInv, CoreInv
  <2>2. issued - 1 < Len(served)  BY <2>1 DEF CallInv, InvStream
  <2>   QED  BY <1>2, <2>2
<1>4. Mine' = {}  BY <1>1, <1>3 DEF Mine, ReplyTo
<1>5. InvStream'  BY <1>1 DEF CallInv, InvStream
<1>6. InvPending'  BY <1>1, <1>2, <1>4 DEF InvPending
<1>7. InvHeld'  BY <1>1, <1>2, <1>4 DEF InvHeld
<1>8. InvHeader'  BY <1>1, <1>3, <1>4 DEF CallInv, InvHeader
<1>9. ret # "ok"  BY <1>2 DEF CallInv, InvEnd
<1>10. InvEnd' /\ CallComplete'
  <2>1. state # "DISCONNECTED" => "FIN" \notin flags
    BY <1>3 DEF CallInv, InvEnd
  <2>   QED  BY <1>1, <1>9, <2>1 DEF InvEnd, Finished, CallComplete
<1>   QED  BY <1>5, <1>6, <1>7, <1>8, <1>10 DEF CallInv

LEMMA SendOkCall ==
  ASSUME IInv, CallInv, SendOk
  PROVE  CallInv'
<1>1. pc = "send_check" /\ kind # "none"  BY DEF SendOk, IInv, CoreInv, InvControl, Sending
<1>2. /\ UNCHANGED <<state, flags, rxN, served, stream, rxData, rxSize, rxArmed, hdrArmed, hdrRecv,
                     hdrVal, kind, ret>>
      /\ pc' \notin {"recv_woken", "recv_done"}
  BY DEF SendOk, sockVars, srvVars
<1>3. CASE chunks > 1
  <2>1. chunks' = chunks - 1 /\ issued' = issued + 1  BY <1>3 DEF SendOk
  <2>2. Mine' = {}  BY <1>2, <2>1, NoneYet
  <2>3. ~(rxN < Len(stream)) /\ rxN <= Len(stream) /\ rxN \in Nat /\ Len(stream) \in Nat
    BY <1>3, Numbers DEF IInv, CoreInv, InvServed, InvWindow
  <2>4. rxN = Len(stream) /\ rxData = <<>>  BY <1>1, <1>3, <2>3 DEF IInv, CoreInv, InvReply
  <2>5. "FIN" \notin flags \/ state = "DISCONNECTED"  BY <1>3, Numbers DEF IInv, CoreInv, InvFin
  <2>6. InvStream'  BY <1>2 DEF CallInv, InvStream
  <2>7. InvPending'  BY <1>2, <2>2, <2>4, <2>3 DEF InvPending
  <2>8. InvHeld'  BY <1>2, <2>2, <2>4, <2>3 DEF InvHeld
  <2>9. InvHeader'
    <3>1. kind = "read" => chunks = 1  BY DEF IInv, CoreInv, InvControl
    <3>   QED  BY <1>2, <1>3, <3>1 DEF InvHeader
  <2>10. InvEnd' /\ CallComplete'
    BY <1>1, <1>2, <2>5 DEF CallInv, InvEnd, Finished, CallComplete
  <2>   QED  BY <2>6, <2>7, <2>8, <2>9, <2>10 DEF CallInv
<1>4. CASE chunks = 1
  <2>1. UNCHANGED callVars  BY <1>2, <1>4 DEF SendOk, callVars
  <2>   QED  BY <1>1, <1>2, <2>1, CallSame DEF FinSeen, Finished
<1>   QED  BY <1>3, <1>4 DEF SendOk

\* The end of a call: success only with the whole reply.
LEMMA EndCall ==
  ASSUME IInv, CallInv, RecvDone \/ RecvTimeout \/ SendFail
  PROVE  CallInv'
<1>1. /\ kind' = "none" /\ UNCHANGED <<flags, issued, served, stream, rxN, rxData, hdrVal>>
      /\ pc' = "idle" /\ ret' \in {"ok", "EIO", "ERR_TIMEOUT", "ERR_NACK"}
      /\ ret' = "ok" => RecvDone
      /\ state' = "DISCONNECTED" \/ (state' = state /\ RecvDone)
  BY DEF RecvDone, RecvTimeout, SendFail, sockVars, rxVars, netVars, srvVars
<1>2. Mine' = Mine  BY <1>1 DEF Mine, ReplyTo
<1>3. InvStream'  BY <1>1 DEF CallInv, InvStream
<1>4. InvPending' /\ InvHeld' /\ InvHeader'  BY <1>1 DEF InvPending, InvHeld, InvHeader
<1>5. InvEnd'
  <2>1. state' # "DISCONNECTED" /\ FinSeen' => Mine' # {}
    BY <1>1, <1>2 DEF CallInv, InvEnd, FinSeen, Finished
  <2>2. RecvDone => state' = "CONNECTED" /\ rxArmed' = FALSE
    BY DEF RecvDone, ReleaseBuffers, IInv, CoreInv, InvControl, Receiving
  <2>   QED  BY <1>1, <2>1, <2>2 DEF InvEnd, FinSeen
<1>6. CallComplete'
  <2>  SUFFICES ASSUME RecvDone PROVE CallComplete'  BY <1>1 DEF CallComplete
  <2>1. kind # "none" /\ state = "CONNECTED" /\ Finished /\ pc # "call_set"
    BY DEF RecvDone, IInv, CoreInv, InvControl, Receiving, Finished
  <2>2. Mine # {} /\ rxN = Len(stream) /\ Len(served) = issued
    BY <2>1 DEF CallInv, InvEnd, IInv, CoreInv, InvFin
  <2>3. \A i \in Mine : i < rxN  BY <2>2, Numbers DEF Mine, ReplyTo, IInv, CoreInv
  <2>4. \A i \in Mine : stream[i + 1].hdr => hdrVal = i
    <3>1. kind \in {"read", "write"}  BY <2>1 DEF IInv, CoreInv, TypeOK, ThreadTypes
    <3>   QED  BY <2>1, <2>3, <3>1 DEF CallInv, InvPending, InvHeader
  <2>5. {rxData[k] : k \in 1 .. Len(rxData)} = {i \in Mine : stream[i + 1].len > 0}
    BY <2>1, <2>3 DEF CallInv, InvHeld
  <2>6. \A k \in 1 .. Len(rxData) - 1 : rxData[k + 1] = rxData[k] + 1
    BY <2>1 DEF CallInv, InvHeld
  <2>7. (ReplyTo(issued - 1))' = Mine  BY <1>2 DEF Mine
  <2>   QED  BY <1>1, <2>2, <2>4, <2>5, <2>6, <2>7 DEF CallComplete
<1>   QED  BY <1>3, <1>4, <1>5, <1>6 DEF CallInv

\* A packet that was waited for goes where it belongs.
LEMMA RxInOrderCall ==
  ASSUME IInv, CallInv, NEW m \in s2c, RxInOrder(m)
  PROVE  CallInv'
<1>0. HasPayload(m) /\ Expected(m) /\ rxArmed  BY DEF RxInOrder
<1>1. m.n = rxN /\ rxN < Len(stream) /\ m.hdr = stream[rxN + 1].hdr /\ m.len = stream[rxN + 1].len
  <2>1. m.n = rxN /\ rxN < nxt /\ nxt <= Len(stream)  BY <1>0, ExpectedIs DEF IInv, CoreInv, InvWindow
  <2>   QED  BY <1>0, <2>1, Numbers DEF IInv, CoreInv, InvPeerPackets
<1>2. rxN \in Nat /\ Len(stream) \in Nat /\ rxSize \in Nat /\ Len(rxData) \in Nat /\ rxData \in Seq(Nat)
      /\ m.len \in {0, 1} /\ m.hdr \in BOOLEAN /\ rxN + 1 \in 1 .. Len(stream) /\ rxN \in rxN .. Len(stream) - 1
  BY <1>1, Numbers, PeerPacketNumbers DEF IInv, CoreInv
<1>3. chunks <= 1 /\ (state # "DISCONNECTED" => kind # "none")
  <2>1. state \notin {"INIT", "DISCOVERING"}  BY <1>1, <1>2 DEF IInv, CoreInv, InvControl
  <2>2. state = "CONNECTED" => kind # "none"  BY <1>1, <1>2 DEF IInv, CoreInv, InvServed
  <2>   QED  BY <1>1, <2>1, <2>2 DEF IInv, CoreInv, InvServed, TypeOK, SocketTypes
<1>4. /\ rxN' = rxN + 1 /\ hdrRecv' = (hdrRecv \/ m.hdr)
      /\ hdrVal' = IF m.hdr /\ hdrArmed /\ ~hdrRecv THEN m.n ELSE hdrVal
      /\ rxData' = IF m.len > 0 /\ Len(rxData) < rxSize THEN Append(rxData, m.n) ELSE rxData
      /\ UNCHANGED <<state, rxArmed, rxSize, hdrArmed, pc, bits, kind, chunks, issued, served, stream, ret>>
  BY DEF RxInOrder, thrVars, srvVars
<1>12. pc # "call_set"  BY NothingArrives
<1>5. Mine' = Mine  BY <1>4 DEF Mine, ReplyTo
<1>6. ret # "ok"  BY <1>0 DEF CallInv, InvEnd
<1>7. InvStream'  BY <1>4 DEF CallInv, InvStream
<1>8. kind # "none" => rxN \in Mine  BY <1>2, <1>12 DEF CallInv, InvPending
<1>9. InvEnd' /\ CallComplete'
  BY <1>3, <1>4, <1>5, <1>6, <1>8 DEF InvEnd, CallComplete
<1>10. CASE kind = "none"
  <2>1. InvPending' /\ InvHeld' /\ InvHeader'
    BY <1>4, <1>10 DEF InvPending, InvHeld, InvHeader
  <2>   QED  BY <1>7, <1>9, <2>1 DEF CallInv
<1>11. CASE kind # "none"
  <2>1. Len(rxData) + (Len(stream) - rxN) <= rxSize  BY <1>1, <1>11, <1>12 DEF CallInv, InvPending
  <2>2. Len(rxData) < rxSize  BY <1>1, <1>2, <2>1
  <2>3. rxData' = IF m.len > 0 THEN Append(rxData, rxN) ELSE rxData  BY <1>1, <1>4, <2>2
  <2>4. Len(rxData') <= Len(rxData) + 1 /\ Len(rxData') \in Nat  BY <1>2, <2>3
  <2>5. InvPending'
    <3>1. chunks > 1 => Mine = {}  BY <1>11, <1>12 DEF CallInv, InvPending
    <3>2. rxN' .. Len(stream) - 1 \subseteq Mine
      <4>1. rxN' .. Len(stream) - 1 \subseteq rxN .. Len(stream) - 1  BY <1>2, <1>4
      <4>   QED  BY <1>11, <1>12, <4>1 DEF CallInv, InvPending
    <3>3. rxN' < Len(stream) => Len(rxData') + (Len(stream) - rxN') <= rxSize
      BY <1>2, <1>4, <2>1, <2>4
    <3>4. kind = "write" => \A i \in Mine : ~stream[i + 1].hdr
      BY <1>11, <1>12 DEF CallInv, InvPending
    <3>   QED  BY <1>4, <1>5, <3>1, <3>2, <3>3, <3>4 DEF InvPending
  <2> DEFINE Has(d, n) == {d[k] : k \in 1 .. Len(d)} = {i \in Mine : i < n /\ stream[i + 1].len > 0}
             Row(d)    == \A k \in 1 .. Len(d) - 1 : d[k + 1] = d[k] + 1
             Ends(d, n) == d # <<>> /\ n < Len(stream) => d[Len(d)] = n - 1
  <2>6. Has(rxData, rxN) /\ Row(rxData) /\ Ends(rxData, rxN)
    BY <1>11, <1>12 DEF CallInv, InvHeld
  <2>7. {i \in Mine : i < rxN + 1 /\ stream[i + 1].len > 0}
           = {i \in Mine : i < rxN /\ stream[i + 1].len > 0} \cup (IF m.len > 0 THEN {rxN} ELSE {})
    <3>1. Mine \subseteq Int  BY DEF Mine, ReplyTo
    <3>2. \A i \in Mine : i < rxN + 1 <=> i < rxN \/ i = rxN  BY <1>2, <3>1
    <3>3. ~(rxN < rxN)  BY <1>2
    <3>   QED  BY <1>1, <1>2, <1>8, <1>11, <3>2, <3>3
  <2>8. Has(rxData', rxN + 1) /\ Row(rxData') /\ Ends(rxData', rxN + 1)
    <3>1. CASE m.len > 0
      <4> DEFINE d == Append(rxData, rxN)
      <4>1. Len(d) = Len(rxData) + 1 /\ d[Len(rxData) + 1] = rxN
            /\ \A k \in 1 .. Len(rxData) : d[k] = rxData[k]
        BY <1>2
      <4> HIDE DEF d
      <4>2. {d[k] : k \in 1 .. Len(d)} = {rxData[k] : k \in 1 .. Len(rxData)} \cup {rxN}
        <5>1. \A k \in 1 .. Len(d) : k \in 1 .. Len(rxData) \/ k = Len(rxData) + 1
          BY <1>2, <4>1
        <5>2. Len(rxData) + 1 \in 1 .. Len(d) /\ 1 .. Len(rxData) \subseteq 1 .. Len(d)
          BY <1>2, <4>1
        <5>3. ASSUME NEW x \in {d[k] : k \in 1 .. Len(d)}
              PROVE  x \in {rxData[k] : k \in 1 .. Len(rxData)} \cup {rxN}
          BY <4>1, <5>1
        <5>4. ASSUME NEW k \in 1 .. Len(rxData) PROVE rxData[k] \in {d[j] : j \in 1 .. Len(d)}
          BY <4>1, <5>2
        <5>5. rxN \in {d[k] : k \in 1 .. Len(d)}  BY <4>1, <5>2
        <5>   QED  BY <5>3, <5>4, <5>5
      <4>3. Has(d, rxN + 1)  BY <2>6, <2>7, <3>1, <4>2
      <4>4. Row(d)
        <5>  SUFFICES ASSUME NEW k \in 1 .. Len(d) - 1 PROVE d[k + 1] = d[k] + 1  OBVIOUS
        <5>1. CASE k = Len(rxData)
          <6>1. rxData # <<>> /\ k \in 1 .. Len(rxData)  BY <1>2, <4>1, <5>1
          <6>2. rxData[k] = rxN - 1  BY <1>1, <2>6, <5>1, <6>1
          <6>   QED  BY <1>2, <4>1, <5>1, <6>1, <6>2
        <5>2. CASE k # Len(rxData)
          <6>1. k \in 1 .. Len(rxData) - 1 /\ k \in 1 .. Len(rxData) /\ k + 1 \in 1 .. Len(rxData)
            BY <1>2, <4>1, <5>2
          <6>   QED  BY <2>6, <4>1, <6>1
        <5>   QED  BY <5>1, <5>2
      <4>5. Ends(d, rxN + 1)
        <5>1. d[Len(d)] = rxN /\ rxN = (rxN + 1) - 1  BY <1>2, <4>1
        <5>   QED  BY <5>1
      <4>   QED  BY <2>3, <3>1, <4>3, <4>4, <4>5 DEF d
    <3>2. CASE ~(m.len > 0)
      <4>1. stream[rxN + 1].fin
        <5>1. stream[rxN + 1].len = 0  BY <1>1, <1>2, <3>2
        <5>   QED  BY <1>2, <5>1 DEF CallInv, InvStream
      <4>2. rxN + 1 = Len(stream)
        <5>1. rxN + 1 \in rxN + 1 .. Len(stream)  BY <1>1, <1>2
        <5>   QED  BY <1>11, <1>12, <4>1, <5>1 DEF IInv, CoreInv, InvReply
      <4>3. ~(rxN + 1 < Len(stream))  BY <1>2, <4>2
      <4>   QED  BY <2>3, <2>6, <2>7, <3>2, <4>3
    <3>   QED  BY <3>1, <3>2
  <2>9. InvHeld'  BY <1>4, <1>5, <2>8 DEF InvHeld
  <2>10. InvHeader'
    <3>  SUFFICES ASSUME kind = "read" PROVE InvHeader'  BY <1>4 DEF InvHeader
    <3>1. /\ hdrArmed
          /\ \A i \in Mine : i < rxN /\ stream[i + 1].hdr => hdrVal = i
          /\ hdrRecv => \E i \in Mine : i < rxN /\ stream[i + 1].hdr
      BY DEF CallInv, InvHeader
    <3>2. \A i, j \in Mine : stream[i + 1].hdr /\ stream[j + 1].hdr => i = j
      <4>1. \A i \in Mine : i + 1 \in 1 .. Len(stream) /\ i \in Int /\ stream[i + 1].for = issued - 1
        BY <1>2 DEF Mine, ReplyTo
      <4>2. \A i, j \in Mine : stream[i + 1].hdr /\ stream[j + 1].hdr => i + 1 = j + 1
        BY <4>1 DEF CallInv, InvStream
      <4>   QED  BY <4>1, <4>2
    <3>3. rxN \in Mine /\ Mine \subseteq Int  BY <1>8, <1>11 DEF Mine, ReplyTo
    <3>4. m.hdr => ~hdrRecv
      <4>  SUFFICES ASSUME m.hdr, hdrRecv PROVE FALSE  OBVIOUS
      <4>1. PICK i \in Mine : i < rxN /\ stream[i + 1].hdr  BY <3>1
      <4>2. i = rxN  BY <1>1, <3>2, <3>3, <4>1
      <4>   QED  BY <1>2, <4>1, <4>2
    <3>5. ASSUME NEW i \in Mine, i < rxN', stream[i + 1].hdr PROVE hdrVal' = i
      <4>1. CASE i = rxN  BY <1>1, <1>4, <3>1, <3>4, <3>5, <4>1
      <4>2. CASE i # rxN
        <5>1. i < rxN  BY <1>2, <1>4, <3>3, <3>5, <4>2
        <5>2. ~m.hdr  BY <1>1, <3>2, <3>3, <3>5, <4>2
        <5>   QED  BY <1>4, <3>1, <3>5, <5>1, <5>2
      <4>   QED  BY <4>1, <4>2
    <3>6. ASSUME hdrRecv' PROVE \E i \in Mine : i < rxN' /\ stream[i + 1].hdr
      <4>1. CASE m.hdr
        <5>1. rxN < rxN'  BY <1>2, <1>4
        <5>   QED  BY <1>1, <3>3, <4>1, <5>1
      <4>2. CASE hdrRecv
        <5>1. PICK i \in Mine : i < rxN /\ stream[i + 1].hdr  BY <3>1, <4>2
        <5>2. i < rxN'  BY <1>2, <1>4, <3>3, <5>1
        <5>   QED  BY <5>1, <5>2
      <4>   QED  BY <1>4, <3>6, <4>1, <4>2
    <3>   QED  BY <1>4, <1>5, <3>1, <3>5, <3>6 DEF InvHeader
  <2>   QED  BY <1>7, <1>9, <2>5, <2>9, <2>10 DEF CallInv
<1>   QED  BY <1>10, <1>11

LEMMA Answered ==
  ASSUME TypeOK, NEW i \in 1 .. Len(stream)
  PROVE  stream[i].for \in Nat
<1>1. stream[i] \in ReplyPackets  BY DEF TypeOK, PeerTypes
<1>   QED  BY <1>1 DEF ReplyPackets

\* Where the packets of a reply are, and what they look like.
LEMMA ReplyPlaced ==
  ASSUME TypeOK, NEW n \in Nat, NEW isRead \in BOOLEAN, NEW size \in Nat,
         stream' = stream \o Reply(n, isRead, size)
  PROVE  /\ Len(stream') = Len(stream) + (IF size = 0 THEN 1 ELSE size)
         /\ \A i \in 1 .. Len(stream) : stream'[i] = stream[i]
         /\ \A i \in Len(stream) + 1 .. Len(stream') :
              /\ stream'[i].for = n
              /\ stream'[i].hdr => isRead /\ i = Len(stream) + 1
              /\ stream'[i].len = 0 => stream'[i].fin
<1>  DEFINE r == Reply(n, isRead, size)
<1>1. stream \in Seq(ReplyPackets) /\ Len(stream) \in Nat  BY Numbers
<1>2. r \in Seq(ReplyPackets) /\ Len(r) = IF size = 0 THEN 1 ELSE size  BY ReplyType
<1>3. \A i \in 1 .. Len(r) : /\ r[i].for = n /\ (r[i].hdr => isRead /\ i = 1)
                             /\ (r[i].len = 0 => r[i].fin)
  <2>1. \A i \in 1 .. Len(r) : r[i].for = n  BY <1>2 DEF Reply
  <2>2. \A i \in 1 .. Len(r) : r[i].hdr => isRead /\ i = 1  BY <1>2 DEF Reply
  <2>3. \A i \in 1 .. Len(r) : r[i].fin <=> i >= size  BY <1>2 DEF Reply
  <2>4. \A i \in 1 .. Len(r) : r[i].len = 0 => i >= size  BY <1>2 DEF Reply
  <2>   QED  BY <2>1, <2>2, <2>3, <2>4
<1>  HIDE DEF r
<1>4. /\ Len(stream \o r) = Len(stream) + Len(r)
      /\ \A i \in 1 .. Len(stream) + Len(r) :
           (stream \o r)[i] = IF i <= Len(stream) THEN stream[i] ELSE r[i - Len(stream)]
  BY <1>1, <1>2, ConcatProperties
<1>5. stream' = stream \o r /\ Len(r) \in Nat  BY <1>2 DEF r
<1>6. ASSUME NEW i \in 1 .. Len(stream) PROVE stream'[i] = stream[i]
  <2>1. i \in 1 .. Len(stream) + Len(r) /\ i <= Len(stream)  BY <1>1, <1>5
  <2>   QED  BY <1>4, <1>5, <2>1
<1>7. ASSUME NEW i \in Len(stream) + 1 .. Len(stream) + Len(r)
      PROVE  /\ stream'[i].for = n
             /\ stream'[i].hdr => isRead /\ i = Len(stream) + 1
             /\ stream'[i].len = 0 => stream'[i].fin
  <2>1. /\ i \in 1 .. Len(stream) + Len(r) /\ ~(i <= Len(stream)) /\ i - Len(stream) \in 1 .. Len(r)
        /\ i - Len(stream) = 1 => i = Len(stream) + 1
    BY <1>1, <1>5
  <2>2. stream'[i] = r[i - Len(stream)]  BY <1>4, <1>5, <2>1
  <2>   QED  BY <1>3, <2>1, <2>2
<1>   QED  BY <1>2, <1>4, <1>5, <1>6, <1>7

\* The reply to the last packet of a request finds the buffers empty.
LEMMA ReplyCall ==
  ASSUME IInv, TypeOK', CallInv, NEW m \in c2s, SrvAccept(m), m.req \in {"read", "write"},
         NEW isRead \in BOOLEAN, NEW size \in Nat, isRead => m.req = "read" /\ size <= MaxReply,
         ~isRead => size = 1, stream' = stream \o Reply(m.n, isRead, size)
  PROVE  InvStream' /\ InvPending' /\ InvHeld' /\ InvHeader'
<1>1. m.n = Len(served) /\ Len(served) < issued  BY NextIs DEF SrvAccept
<1>2. /\ m.n \in Nat /\ Len(served) \in Nat /\ Len(stream) \in Nat /\ Len(stream') \in Nat
      /\ issued \in Nat /\ chunks \in Nat /\ rxSize \in Nat /\ served \in Seq(Nat)
  BY Numbers, ClientPacketNumbers DEF IInv, CoreInv, TypeOK, PeerTypes
<1>3. /\ served' = Append(served, m.n)
      /\ UNCHANGED <<rxN, rxData, rxSize, hdrArmed, hdrRecv, hdrVal, kind, chunks, issued>>
  BY DEF SrvAccept, sockVars, thrVars
<1>18. pc # "call_set"  BY NothingArrives
<1>4. Len(served') = Len(served) + 1  BY <1>2, <1>3
<1>5. rxN = Len(stream)  BY <1>1, Numbers DEF IInv, CoreInv, InvServed, InvWindow
<1>6. m.n = issued - 1 /\ chunks <= 1 /\ (kind # "none" => m.req = kind)
  BY <1>1, <1>2 DEF IInv, CoreInv, InvClientPackets, FinalIsLast
<1>7. /\ Len(stream') = Len(stream) + (IF size = 0 THEN 1 ELSE size)
      /\ \A i \in 1 .. Len(stream) : stream'[i] = stream[i]
      /\ \A i \in Len(stream) + 1 .. Len(stream') :
           /\ stream'[i].for = m.n
           /\ stream'[i].hdr => isRead /\ i = Len(stream) + 1
           /\ stream'[i].len = 0 => stream'[i].fin
  <2>1. TypeOK  BY DEF IInv, CoreInv
  <2>   QED  BY <1>2, <2>1, ReplyPlaced, ZenonT(60)
<1>8. \A i \in 1 .. Len(stream') : i \in 1 .. Len(stream) \/ i \in Len(stream) + 1 .. Len(stream')
  BY <1>2
<1>9. \A i \in 1 .. Len(stream) : stream'[i].for < m.n /\ (stream'[i].len = 0 => stream'[i].fin)
  BY <1>1, <1>7 DEF CallInv, InvStream
<1>10. \A i \in 1 .. Len(stream) : stream'[i].for # m.n
  <2>  SUFFICES ASSUME NEW i \in 1 .. Len(stream), stream'[i].for = m.n PROVE FALSE  OBVIOUS
  <2>1. m.n < m.n  BY <1>9
  <2>   QED  BY <1>2, <2>1
<1>11. InvStream'
  <2>1. ASSUME NEW i \in 1 .. Len(stream')
        PROVE  stream'[i].for < Len(served') /\ (stream'[i].len = 0 => stream'[i].fin)
    <3>1. CASE i \in 1 .. Len(stream)
      <4>1. stream'[i].for \in Nat  BY <1>7, <3>1, Answered DEF IInv, CoreInv
      <4>   QED  BY <1>1, <1>2, <1>4, <1>9, <3>1, <4>1
    <3>2. CASE i \in Len(stream) + 1 .. Len(stream')
      BY <1>1, <1>2, <1>4, <1>7, <3>2
    <3>   QED  BY <1>8, <3>1, <3>2
  <2>2. ASSUME NEW i \in 1 .. Len(stream'), NEW j \in 1 .. Len(stream'),
               stream'[i].for = stream'[j].for, stream'[i].hdr, stream'[j].hdr
        PROVE  i = j
    <3>1. CASE i \in 1 .. Len(stream) /\ j \in 1 .. Len(stream)
      BY <1>7, <2>2, <3>1 DEF CallInv, InvStream
    <3>2. CASE i \in Len(stream) + 1 .. Len(stream') /\ j \in Len(stream) + 1 .. Len(stream')
      BY <1>7, <2>2, <3>2
    <3>3. i \in 1 .. Len(stream) => stream'[i].for # m.n  BY <1>10
    <3>4. j \in 1 .. Len(stream) => stream'[j].for # m.n  BY <1>10
    <3>   QED  BY <1>7, <1>8, <2>2, <3>1, <3>2, <3>3, <3>4
  <2>   QED  BY <2>1, <2>2 DEF InvStream
\* Its packets are the call's, and there were none before.
<1>12. Mine' = Len(stream) .. Len(stream') - 1
  <2>1. Mine' = {i \in 0 .. Len(stream') - 1 : stream'[i + 1].for = m.n}
    BY <1>3, <1>6 DEF Mine, ReplyTo
  <2>2. ASSUME NEW i \in 0 .. Len(stream') - 1
        PROVE  stream'[i + 1].for = m.n <=> i \in Len(stream) .. Len(stream') - 1
    <3>1. CASE i < Len(stream)
      <4>1. i + 1 \in 1 .. Len(stream) /\ i \notin Len(stream) .. Len(stream') - 1  BY <1>2, <3>1
      <4>   QED  BY <1>10, <4>1
    <3>2. CASE ~(i < Len(stream))
      <4>1. i + 1 \in Len(stream) + 1 .. Len(stream') /\ i \in Len(stream) .. Len(stream') - 1
        BY <1>2, <3>2
      <4>   QED  BY <1>7, <4>1
    <3>   QED  BY <3>1, <3>2
  <2>3. Len(stream) .. Len(stream') - 1 \subseteq 0 .. Len(stream') - 1  BY <1>2
  <2>   QED  BY <2>1, <2>2, <2>3
<1>13. Mine = {}
  <2>1. ASSUME NEW i \in 0 .. Len(stream) - 1 PROVE stream[i + 1].for # issued - 1
    <3>1. i + 1 \in 1 .. Len(stream)  BY <1>2
    <3>   QED  BY <1>6, <1>7, <1>10, <3>1
  <2>   QED  BY <2>1 DEF Mine, ReplyTo
<1>14. ASSUME NEW i \in Mine' PROVE ~(i < rxN) /\ i + 1 \in Len(stream) + 1 .. Len(stream')
  BY <1>2, <1>5, <1>12
<1>15. InvPending'
  <2>  SUFFICES ASSUME kind # "none" PROVE InvPending'  BY <1>3 DEF InvPending
  <2>1. rxData = <<>>  BY <1>1, <1>18 DEF IInv, CoreInv, InvReply
  <2>2. kind = "read" => rxSize = MaxReply  BY <1>18 DEF IInv, CoreInv, InvControl
  <2>3. rxSize > 0  BY <1>18 DEF IInv, CoreInv, InvControl
  <2>4. Len(rxData) + (Len(stream') - rxN) <= rxSize
    <3>1. Len(stream') - rxN <= rxSize
      BY <1>2, <1>5, <1>6, <1>7, <2>2, <2>3, ConstantTypes
    <3>2. Len(rxData) = 0  BY <2>1
    <3>   QED  BY <1>2, <1>5, <3>1, <3>2
  <2>5. kind = "write" => \A i \in Mine' : ~stream'[i + 1].hdr
    <3>1. kind = "write" => ~isRead  BY <1>6
    <3>   QED  BY <1>7, <1>14, <3>1
  <2>6. ~(chunks > 1)  BY <1>2, <1>6
  <2>   QED  BY <1>3, <1>5, <1>12, <2>4, <2>5, <2>6 DEF InvPending
<1>16. InvHeld'
  <2>  SUFFICES ASSUME kind # "none" PROVE InvHeld'  BY <1>3 DEF InvHeld
  <2>1. rxData = <<>>  BY <1>1, <1>18 DEF IInv, CoreInv, InvReply
  <2>2. {rxData[k] : k \in 1 .. Len(rxData)} = {}  BY <2>1
  <2>3. {i \in Mine' : i < rxN /\ stream'[i + 1].len > 0} = {}  BY <1>14
  <2>4. 1 .. Len(rxData) - 1 = {}  BY <2>1
  <2>   QED  BY <1>3, <2>1, <2>2, <2>3, <2>4 DEF InvHeld
<1>17. InvHeader'
  <2>  SUFFICES ASSUME kind = "read" PROVE InvHeader'  BY <1>3 DEF InvHeader
  <2>1. hdrArmed /\ ~hdrRecv  BY <1>13 DEF CallInv, InvHeader
  <2>   QED  BY <1>3, <1>14, <2>1 DEF InvHeader
<1>   QED  BY <1>11, <1>15, <1>16, <1>17

LEMMA SrvAcceptCall ==
  ASSUME IInv, TypeOK', CallInv, NEW m \in c2s, SrvAccept(m)
  PROVE  CallInv'
<1>1. m.n = Len(served) /\ Len(served) < issued  BY NextIs DEF SrvAccept
<1>2. Len(served) \in Nat /\ issued \in Nat /\ served \in Seq(Nat) /\ m.n \in Nat
  BY Numbers, ClientPacketNumbers DEF IInv, CoreInv
<1>3. /\ served' = Append(served, m.n)
      /\ UNCHANGED <<state, rxN, rxData, rxSize, rxArmed, hdrArmed, hdrRecv, hdrVal, kind, chunks,
                     issued, ret, pc, bits, flags>>
  BY DEF SrvAccept, sockVars, thrVars
<1>4. Len(served) # issued  BY <1>1, <1>2
<1>5. ret # "ok"  BY <1>4 DEF CallInv, InvEnd, IInv, CoreInv, InvServed
<1>6. ~(state # "DISCONNECTED" /\ FinSeen)  BY <1>4 DEF IInv, CoreInv, InvFin, FinSeen
<1>7. InvEnd' /\ CallComplete'
  BY <1>3, <1>5, <1>6 DEF InvEnd, CallComplete, FinSeen, Finished
<1>8. CASE m.req = "more" /\ stream' = stream
  <2>1. Mine' = Mine  BY <1>3, <1>8 DEF Mine, ReplyTo
  <2>2. InvStream'
    <3>1. Len(served') = Len(served) + 1  BY <1>2, <1>3
    <3>2. ASSUME NEW i \in 1 .. Len(stream) PROVE stream[i].for < Len(served')
      <4>1. stream[i].for < Len(served) /\ stream[i].for \in Nat
        BY Answered DEF CallInv, InvStream, IInv, CoreInv
      <4>   QED  BY <1>2, <3>1, <4>1
    <3>   QED  BY <1>8, <3>2 DEF CallInv, InvStream
  <2>3. InvPending' /\ InvHeld' /\ InvHeader'
    BY <1>3, <1>8, <2>1 DEF CallInv, InvPending, InvHeld, InvHeader
  <2>   QED  BY <1>7, <2>2, <2>3 DEF CallInv
<1>9. CASE m.req # "more"
  <2>1. InvStream' /\ InvPending' /\ InvHeld' /\ InvHeader'  BY <1>9, AcceptAdds, ReplyCall
  <2>   QED  BY <1>7, <2>1 DEF CallInv
<1>   QED  BY <1>8, <1>9, AcceptAdds

LEMMA CallStep ==
  ASSUME IInv, IInv', CallInv, Next
  PROVE  CallInv'
<1>1. CASE Caller  BY <1>1, CallSameThread, BeginCall DEF Caller
<1>2. CASE Thread \/ AlarmFires  BY <1>2, CallSameThread, SetCall, SendOkCall, EndCall DEF Thread
<1>3. CASE Receiver  BY <1>3, CallSameOthers, RxInOrderCall DEF Receiver, RxData
<1>4. CASE Peer
  <2>1. TypeOK'  BY DEF IInv, CoreInv
  <2>   QED  BY <1>4, <2>1, CallSameOthers, SrvAcceptCall DEF Peer
<1>   QED  BY <1>1, <1>2, <1>3, <1>4 DEF Next

\* A request of udpfs_core that returns success was applied by the peer with
\* all its packets, and the caller's buffers hold the reply to that request:
\* all its data, in order, each packet once, and its header, for every
\* interleaving of the thread, _ist, the alarm and the network.
THEOREM CallCompleteAlways == Spec => []CallComplete
<1>1. Init => CallInv
  BY DEF Init, CallInv, InvStream, InvPending, InvHeld, InvHeader, InvEnd, Finished, CallComplete
<1>2. IInv /\ IInv' /\ CallInv /\ [Next]_vars => CallInv'
  <2>  SUFFICES ASSUME IInv, IInv', CallInv, [Next]_vars PROVE CallInv'  OBVIOUS
  <2>1. CASE Next  BY <2>1, CallStep
  <2>2. CASE UNCHANGED vars
    <3>1. UNCHANGED <<callVars, state, flags, pc, bits>>
      BY <2>2 DEF vars, sockVars, thrVars, netVars, srvVars, callVars
    <3>   QED  BY <3>1, CallSame DEF FinSeen, Finished
  <2>   QED  BY <2>1, <2>2
<1>3. CallInv => CallComplete  BY DEF CallInv
<1>   QED  BY <1>1, <1>2, <1>3, Invariance, PTL DEF Spec
=============================================================================
