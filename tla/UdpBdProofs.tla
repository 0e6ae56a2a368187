---------------------------- MODULE UdpBdProofs ----------------------------
(***************************************************************************)
(* Machine-checked proofs about UdpBd, for every value of its constants:   *)
(* the buffer holds a prefix of the current command's data, a read that    *)
(* began with a clean event flag is complete, driver and bdm agree.        *)
(***************************************************************************)
EXTENDS UdpBdInv, ModArithmetic, SequenceTheorems, TLAPS

LEMMA ConstantTypes ==
  /\ CmdMod \in Nat /\ CmdMod > 0 /\ SizeMod \in Nat /\ SizeMod > 0
  /\ BlockPkts \in Nat /\ BlockPkts > 0 /\ MaxBlocks \in Nat /\ MaxBlocks > 0
  /\ MaxRetries \in Nat /\ MaxRetries > 0 /\ MaxLag \in Nat
  /\ MaxLag < CmdMod /\ BlockPkts + BlockPkts < SizeMod
  BY UdpBdAssumption

\* A packet that passes udpbd_isr's test belongs to the current command.
LEMMA CurrentRequest ==
  ASSUME TypeOK, InvCmd, NEW r \in requests, CurrentCmd(r.id)
  PROVE  r.cmd = cmd
<1>1. r.cmd \in Int /\ cmd \in Int  BY DEF TypeOK, Requests
<1>2. r.cmd % CmdMod = cmd % CmdMod  BY DEF InvCmd, CurrentCmd
<1>3. cmd - r.cmd < CmdMod /\ r.cmd - cmd < CmdMod  BY <1>1, ConstantTypes DEF InvCmd
<1>   QED  BY <1>1, <1>2, <1>3, ConstantTypes, ModUnique

\* A new command: no request in the network is its own.
LEMMA NextCmdIs ==
  ASSUME TypeOK, InvCmd, NextCmd
  PROVE  /\ InvCmd'
         /\ cmdid' \in 0 .. CmdMod - 1 /\ cmd' \in Nat /\ clean' \in BOOLEAN /\ ~misread'
         /\ misread' \in BOOLEAN /\ requests' \subseteq Requests
         /\ \A r \in requests' : r.cmd # cmd'
<1>1. cmd \in Nat /\ cmdid = cmd % CmdMod /\ cmdid \in 0 .. CmdMod - 1  BY DEF TypeOK, InvCmd
<1>2. cmd' = cmd + 1 /\ cmdid' = (cmdid + 1) % CmdMod  BY DEF NextCmd, NextCmdId
<1>3. cmdid' = cmd' % CmdMod  BY <1>1, <1>2, ConstantTypes, ModNext
<1>4. cmdid' \in 0 .. CmdMod - 1 /\ cmd' \in Nat  BY <1>1, <1>2, ConstantTypes
<1>5. requests' \subseteq requests /\ requests' \subseteq Requests  BY DEF NextCmd, TypeOK
<1>6. ASSUME NEW r \in requests'
      PROVE  r.id = r.cmd % CmdMod /\ r.cmd <= cmd' /\ cmd' <= r.cmd + MaxLag /\ r.cmd # cmd'
  <2>1. r \in requests /\ r.cmd \in Nat  BY <1>5 DEF Requests
  <2>2. r.id = r.cmd % CmdMod /\ r.cmd <= cmd  BY <2>1 DEF InvCmd
  <2>3. r.cmd + MaxLag >= cmd + 1  BY DEF NextCmd
  <2>   QED  BY <1>1, <1>2, <2>1, <2>2, <2>3, ConstantTypes
<1>7. clean' \in BOOLEAN /\ ~misread' /\ misread' \in BOOLEAN  BY DEF NextCmd
<1>   QED  BY <1>3, <1>4, <1>5, <1>6, <1>7 DEF InvCmd

LEMMA Initially == Init => IInv
<1>  SUFFICES ASSUME Init PROVE IInv  OBVIOUS
<1>0. /\ <<>> \in Seq(Nat \X Nat) /\ 0 \in 0 .. CmdMod - 1 /\ 0 \in 0 .. SizeMod - 1
      /\ 0 \in 0 .. BlockPkts + 1 /\ 0 \in 0 .. MaxBlocks /\ 0 \in 0 .. MaxRetries
  BY ConstantTypes
<1>1. TypeOK  BY <1>0 DEF Init, TypeOK
<1>2. 0 % CmdMod = 0  BY ConstantTypes, ModIs, 0 = CmdMod * 0 + 0
<1>3. InvCmd /\ InvRequest  BY <1>2 DEF Init, InvCmd, InvRequest, Armed
<1>4. InvBuffer /\ InvSize /\ InvIsr /\ InvDone
  BY DEF Init, InvBuffer, InvSize, InvIsr, InvDone, BufferInOrder, CleanReadComplete, Armed,
         ReadPCs
<1>5. InvBdm /\ InvLoop  BY DEF Init, InvBdm, InvLoop, BdmAgrees, ReadPCs, WritePCs, Armed
<1>   QED  BY <1>1, <1>3, <1>4, <1>5 DEF IInv

-----------------------------------------------------------------------------
(* Each step keeps the invariant *)

LEMMA CallReadKeeps ==
  ASSUME IInv, isr = "idle", NEW n \in 1 .. MaxBlocks, CallRead(n)
  PROVE  IInv'
<1>  USE DEF IInv, bdmVars, dataVars, isrVars
<1>1. TypeOK'  BY ConstantTypes DEF CallRead, TypeOK, Requests, InvLoop, Armed, ReadPCs, WritePCs
<1>2. InvCmd'  BY ConstantTypes DEF CallRead, TypeOK, InvCmd
<1>3. InvRequest'  BY ConstantTypes DEF CallRead, TypeOK, InvRequest, Armed
<1>4. InvBuffer'  BY ConstantTypes DEF CallRead, TypeOK, InvBuffer, BufferInOrder, Armed, ReadPCs
<1>5. InvSize'  BY ConstantTypes DEF CallRead, TypeOK, InvSize, Whole, Wrapped, Armed
<1>6. InvDone'  BY ConstantTypes DEF CallRead, TypeOK, InvDone, CleanReadComplete, AllThere, Armed
<1>7. InvBdm'  BY ConstantTypes DEF CallRead, TypeOK, InvBdm, BdmAgrees, ReadPCs, WritePCs
<1>8. InvLoop'  BY ConstantTypes DEF CallRead, TypeOK, InvLoop, Armed
<1>9. InvIsr'  BY ConstantTypes DEF CallRead, TypeOK, InvIsr
<1>   QED  BY <1>1, <1>2, <1>3, <1>4, <1>5, <1>6, <1>7, <1>8, <1>9

LEMMA CallWriteKeeps ==
  ASSUME IInv, isr = "idle", CallWrite
  PROVE  IInv'
<1>  USE DEF IInv, bdmVars, dataVars, isrVars
<1>1. TypeOK'  BY ConstantTypes DEF CallWrite, TypeOK, Requests, InvLoop, Armed, ReadPCs, WritePCs
<1>2. InvCmd'  BY ConstantTypes DEF CallWrite, TypeOK, InvCmd
<1>3. InvRequest'  BY ConstantTypes DEF CallWrite, TypeOK, InvRequest, Armed
<1>4. InvBuffer'  BY ConstantTypes DEF CallWrite, TypeOK, InvBuffer, BufferInOrder, Armed, ReadPCs
<1>5. InvSize'  BY ConstantTypes DEF CallWrite, TypeOK, InvSize, Whole, Wrapped, Armed
<1>6. InvDone'  BY ConstantTypes DEF CallWrite, TypeOK, InvDone, CleanReadComplete, AllThere, Armed
<1>7. InvBdm'  BY ConstantTypes DEF CallWrite, TypeOK, InvBdm, BdmAgrees, ReadPCs, WritePCs
<1>8. InvLoop'  BY ConstantTypes DEF CallWrite, TypeOK, InvLoop, Armed
<1>9. InvIsr'  BY ConstantTypes DEF CallWrite, TypeOK, InvIsr
<1>   QED  BY <1>1, <1>2, <1>3, <1>4, <1>5, <1>6, <1>7, <1>8, <1>9

LEMMA ReadArmKeeps ==
  ASSUME IInv, isr = "idle", ReadArm
  PROVE  IInv'
<1>  USE DEF IInv, bdmVars, dataVars, isrVars
<1>0. NextCmd /\ ~misread' /\ evDone' = evDone
  BY NextCmdIs DEF ReadArm
<1>1. TypeOK'
  <2>1. 1 \in 0 .. BlockPkts + 1 /\ BlockPkts \in 0 .. SizeMod - 1 /\ <<>> \in Seq(Nat \X Nat)
    BY ConstantTypes
  <2>   QED  BY <1>0, <2>1, NextCmdIs DEF ReadArm, TypeOK, ReadPCs
<1>2. InvCmd'  BY <1>0, NextCmdIs
<1>3. InvRequest'  BY <1>0, NextCmdIs DEF InvRequest
<1>4. InvBuffer'  BY ConstantTypes DEF ReadArm, NextCmd, NextCmdId, TypeOK, InvBuffer, BufferInOrder, Armed, ReadPCs
<1>5. InvSize'  BY ConstantTypes DEF ReadArm, NextCmd, NextCmdId, TypeOK, InvSize, Whole, Wrapped, Armed
<1>6. InvDone'
  <2>1. Len(got') = 0 /\ ~AllThere'  BY ConstantTypes DEF ReadArm, AllThere
  <2>2. pc' = "r_send" /\ (clean' => evDone' = {})  BY DEF ReadArm, NextCmd
  <2>   QED  BY <2>1, <2>2 DEF InvDone, CleanReadComplete
<1>7. InvBdm'  BY ConstantTypes DEF ReadArm, NextCmd, NextCmdId, TypeOK, InvBdm, BdmAgrees, ReadPCs, WritePCs
<1>8. InvLoop'  BY ConstantTypes DEF ReadArm, NextCmd, NextCmdId, TypeOK, InvLoop, Armed
<1>9. InvIsr'  BY ConstantTypes DEF ReadArm, NextCmd, NextCmdId, TypeOK, InvIsr
<1>   QED  BY <1>1, <1>2, <1>3, <1>4, <1>5, <1>6, <1>7, <1>8, <1>9

LEMMA ReadSendKeeps ==
  ASSUME IInv, isr = "idle", ReadSend
  PROVE  IInv'
<1>  USE DEF IInv, bdmVars, dataVars, isrVars
<1>1. TypeOK'  BY ConstantTypes DEF ReadSend, Request, SetAlarm, TypeOK, Requests, InvLoop, Armed, ReadPCs, WritePCs
<1>2. InvCmd'  BY ConstantTypes DEF ReadSend, Request, SetAlarm, TypeOK, InvCmd
<1>3. InvRequest'  BY ConstantTypes DEF ReadSend, Request, SetAlarm, TypeOK, InvRequest, Armed
<1>4. InvBuffer'  BY ConstantTypes DEF ReadSend, Request, SetAlarm, TypeOK, InvBuffer, BufferInOrder, Armed, ReadPCs
<1>5. InvSize'  BY ConstantTypes DEF ReadSend, Request, SetAlarm, TypeOK, InvSize, Whole, Wrapped, Armed
<1>6. InvDone'  BY ConstantTypes DEF ReadSend, Request, SetAlarm, TypeOK, InvDone, CleanReadComplete, AllThere, Armed
<1>7. InvBdm'  BY ConstantTypes DEF ReadSend, Request, SetAlarm, TypeOK, InvBdm, BdmAgrees, ReadPCs, WritePCs
<1>8. InvLoop'  BY ConstantTypes DEF ReadSend, Request, SetAlarm, TypeOK, InvLoop, Armed
<1>9. InvIsr'  BY ConstantTypes DEF ReadSend, Request, SetAlarm, TypeOK, InvIsr
<1>   QED  BY <1>1, <1>2, <1>3, <1>4, <1>5, <1>6, <1>7, <1>8, <1>9

LEMMA ReadSendFailedKeeps ==
  ASSUME IInv, isr = "idle", ReadSendFailed
  PROVE  IInv'
<1>  USE DEF IInv, bdmVars, dataVars, isrVars
<1>1. TypeOK'  BY ConstantTypes DEF ReadSendFailed, Retry, TypeOK, Requests, InvLoop, Armed, ReadPCs, WritePCs
<1>2. InvCmd'  BY ConstantTypes DEF ReadSendFailed, Retry, TypeOK, InvCmd
<1>3. InvRequest'  BY ConstantTypes DEF ReadSendFailed, Retry, TypeOK, InvRequest, Armed
<1>4. InvBuffer'  BY ConstantTypes DEF ReadSendFailed, Retry, TypeOK, InvBuffer, BufferInOrder, Armed, ReadPCs
<1>5. InvSize'  BY ConstantTypes DEF ReadSendFailed, Retry, TypeOK, InvSize, Whole, Wrapped, Armed
<1>6. InvDone'  BY ConstantTypes DEF ReadSendFailed, Retry, TypeOK, InvDone, CleanReadComplete, AllThere, Armed
<1>7. InvBdm'  BY ConstantTypes DEF ReadSendFailed, Retry, TypeOK, InvBdm, BdmAgrees, ReadPCs, WritePCs
<1>8. InvLoop'  BY ConstantTypes DEF ReadSendFailed, Retry, TypeOK, InvLoop, Armed
<1>9. InvIsr'  BY ConstantTypes DEF ReadSendFailed, Retry, TypeOK, InvIsr
<1>   QED  BY <1>1, <1>2, <1>3, <1>4, <1>5, <1>6, <1>7, <1>8, <1>9

LEMMA ReadWakeKeeps ==
  ASSUME IInv, isr = "idle", ReadWake
  PROVE  IInv'
<1>  USE DEF IInv, bdmVars, dataVars, isrVars
<1>1. TypeOK'  BY ConstantTypes DEF ReadWake, Wake, TypeOK, Requests, InvLoop, Armed, ReadPCs, WritePCs
<1>2. InvCmd'  BY ConstantTypes DEF ReadWake, Wake, TypeOK, InvCmd
<1>3. InvRequest'  BY ConstantTypes DEF ReadWake, Wake, TypeOK, InvRequest, Armed
<1>4. InvBuffer'  BY ConstantTypes DEF ReadWake, Wake, TypeOK, InvBuffer, BufferInOrder, Armed, ReadPCs
<1>5. InvSize'  BY ConstantTypes DEF ReadWake, Wake, TypeOK, InvSize, Whole, Wrapped, Armed
<1>6. InvDone'  BY ConstantTypes DEF ReadWake, Wake, TypeOK, InvDone, CleanReadComplete, AllThere, Armed
<1>7. InvBdm'  BY ConstantTypes DEF ReadWake, Wake, TypeOK, InvBdm, BdmAgrees, ReadPCs, WritePCs
<1>8. InvLoop'  BY ConstantTypes DEF ReadWake, Wake, TypeOK, InvLoop, Armed
<1>9. InvIsr'  BY ConstantTypes DEF ReadWake, Wake, TypeOK, InvIsr
<1>   QED  BY <1>1, <1>2, <1>3, <1>4, <1>5, <1>6, <1>7, <1>8, <1>9

LEMMA ReadOkKeeps ==
  ASSUME IInv, isr = "idle", ReadOk
  PROVE  IInv'
<1>  USE DEF IInv, bdmVars, dataVars, isrVars
<1>0. 0 \in 0 .. SizeMod - 1 /\ 0 \in 0 .. BlockPkts + 1 /\ 0 \in 0 .. MaxRetries  BY ConstantTypes
<1>1. TypeOK'
  <2>1. blocks - 1 \in 0 .. MaxBlocks /\ retries' \in 0 .. MaxRetries /\ blocks' = blocks - 1
    BY <1>0, ConstantTypes DEF ReadOk, TypeOK, InvLoop, Armed
  <2>2. pc' \in {"idle"} \cup ReadPCs \cup WritePCs /\ ret' \in {"none", "count", "EIO"}
    BY DEF ReadOk, TypeOK, ReadPCs, WritePCs
  <2>   QED  BY <1>0, <2>1, <2>2 DEF ReadOk, ReleaseBuffer, TypeOK
<1>2. InvCmd'  BY ConstantTypes DEF ReadOk, ReleaseBuffer, TypeOK, InvCmd
<1>3. InvRequest'  BY ConstantTypes DEF ReadOk, ReleaseBuffer, TypeOK, InvRequest, Armed
<1>4. InvBuffer'  BY ConstantTypes DEF ReadOk, ReleaseBuffer, TypeOK, InvBuffer, BufferInOrder, Armed, ReadPCs
<1>5. InvSize'  BY ConstantTypes DEF ReadOk, ReleaseBuffer, TypeOK, InvSize, Whole, Wrapped, Armed
<1>6. InvDone'  BY ConstantTypes DEF ReadOk, ReleaseBuffer, TypeOK, InvDone, CleanReadComplete, AllThere, Armed
<1>7. InvBdm'  BY ConstantTypes DEF ReadOk, ReleaseBuffer, TypeOK, InvBdm, BdmAgrees, ReadPCs, WritePCs
<1>8. InvLoop'  BY ConstantTypes DEF ReadOk, ReleaseBuffer, TypeOK, InvLoop, Armed
<1>9. InvIsr'  BY ConstantTypes DEF ReadOk, ReleaseBuffer, TypeOK, InvIsr
<1>   QED  BY <1>1, <1>2, <1>3, <1>4, <1>5, <1>6, <1>7, <1>8, <1>9

LEMMA ReadFailedKeeps ==
  ASSUME IInv, isr = "idle", ReadFailed
  PROVE  IInv'
<1>  USE DEF IInv, bdmVars, dataVars, isrVars
<1>0. 0 \in 0 .. SizeMod - 1 /\ 0 \in 0 .. BlockPkts + 1 /\ 0 \in 0 .. MaxRetries  BY ConstantTypes
<1>1. TypeOK'
  <2>1. retries + 1 \in 0 .. MaxRetries
    BY <1>0, ConstantTypes DEF ReadFailed, TypeOK, InvLoop, Armed
  <2>2. pc' \in {"idle"} \cup ReadPCs \cup WritePCs
    BY DEF ReadFailed, Retry, ReadPCs, WritePCs
  <2>   QED  BY <1>0, <2>1, <2>2 DEF ReadFailed, ReleaseBuffer, Retry, TypeOK
<1>2. InvCmd'  BY ConstantTypes DEF ReadFailed, ReleaseBuffer, Retry, TypeOK, InvCmd
<1>3. InvRequest'  BY ConstantTypes DEF ReadFailed, ReleaseBuffer, Retry, TypeOK, InvRequest, Armed
<1>4. InvBuffer'  BY ConstantTypes DEF ReadFailed, ReleaseBuffer, Retry, TypeOK, InvBuffer, BufferInOrder, Armed, ReadPCs
<1>5. InvSize'  BY ConstantTypes DEF ReadFailed, ReleaseBuffer, Retry, TypeOK, InvSize, Whole, Wrapped, Armed
<1>6. InvDone'  BY ConstantTypes DEF ReadFailed, ReleaseBuffer, Retry, TypeOK, InvDone, CleanReadComplete, AllThere, Armed
<1>7. InvBdm'  BY ConstantTypes DEF ReadFailed, ReleaseBuffer, Retry, TypeOK, InvBdm, BdmAgrees, ReadPCs, WritePCs
<1>8. InvLoop'  BY ConstantTypes DEF ReadFailed, ReleaseBuffer, Retry, TypeOK, InvLoop, Armed
<1>9. InvIsr'  BY ConstantTypes DEF ReadFailed, ReleaseBuffer, Retry, TypeOK, InvIsr
<1>   QED  BY <1>1, <1>2, <1>3, <1>4, <1>5, <1>6, <1>7, <1>8, <1>9

LEMMA ReadDisconnectKeeps ==
  ASSUME IInv, isr = "idle", ReadDisconnect
  PROVE  IInv'
<1>  USE DEF IInv, bdmVars, dataVars, isrVars
<1>1. TypeOK'  BY ConstantTypes DEF ReadDisconnect, Undo, TearDown, TypeOK, Requests, InvLoop, Armed, ReadPCs, WritePCs
<1>2. InvCmd'  BY ConstantTypes DEF ReadDisconnect, Undo, TearDown, TypeOK, InvCmd
<1>3. InvRequest'  BY ConstantTypes DEF ReadDisconnect, Undo, TearDown, TypeOK, InvRequest, Armed
<1>4. InvBuffer'  BY ConstantTypes DEF ReadDisconnect, Undo, TearDown, TypeOK, InvBuffer, BufferInOrder, Armed, ReadPCs
<1>5. InvSize'  BY ConstantTypes DEF ReadDisconnect, Undo, TearDown, TypeOK, InvSize, Whole, Wrapped, Armed
<1>6. InvDone'  BY ConstantTypes DEF ReadDisconnect, Undo, TearDown, TypeOK, InvDone, CleanReadComplete, AllThere, Armed
<1>7. InvBdm'  BY ConstantTypes DEF ReadDisconnect, Undo, TearDown, TypeOK, InvBdm, BdmAgrees, ReadPCs, WritePCs
<1>8. InvLoop'  BY ConstantTypes DEF ReadDisconnect, Undo, TearDown, TypeOK, InvLoop, Armed
<1>9. InvIsr'  BY ConstantTypes DEF ReadDisconnect, Undo, TearDown, TypeOK, InvIsr
<1>   QED  BY <1>1, <1>2, <1>3, <1>4, <1>5, <1>6, <1>7, <1>8, <1>9

LEMMA ReadDownKeeps ==
  ASSUME IInv, isr = "idle", ReadDown
  PROVE  IInv'
<1>  USE DEF IInv, bdmVars, dataVars, isrVars
<1>1. TypeOK'  BY ConstantTypes DEF ReadDown, Undo, TearDown, TypeOK, Requests, InvLoop, Armed, ReadPCs, WritePCs
<1>2. InvCmd'  BY ConstantTypes DEF ReadDown, Undo, TearDown, TypeOK, InvCmd
<1>3. InvRequest'  BY ConstantTypes DEF ReadDown, Undo, TearDown, TypeOK, InvRequest, Armed
<1>4. InvBuffer'  BY ConstantTypes DEF ReadDown, Undo, TearDown, TypeOK, InvBuffer, BufferInOrder, Armed, ReadPCs
<1>5. InvSize'  BY ConstantTypes DEF ReadDown, Undo, TearDown, TypeOK, InvSize, Whole, Wrapped, Armed
<1>6. InvDone'  BY ConstantTypes DEF ReadDown, Undo, TearDown, TypeOK, InvDone, CleanReadComplete, AllThere, Armed
<1>7. InvBdm'  BY ConstantTypes DEF ReadDown, Undo, TearDown, TypeOK, InvBdm, BdmAgrees, ReadPCs, WritePCs
<1>8. InvLoop'  BY ConstantTypes DEF ReadDown, Undo, TearDown, TypeOK, InvLoop, Armed
<1>9. InvIsr'  BY ConstantTypes DEF ReadDown, Undo, TearDown, TypeOK, InvIsr
<1>   QED  BY <1>1, <1>2, <1>3, <1>4, <1>5, <1>6, <1>7, <1>8, <1>9

LEMMA WriteArmKeeps ==
  ASSUME IInv, isr = "idle", WriteArm
  PROVE  IInv'
<1>  USE DEF IInv, bdmVars, dataVars, isrVars
<1>0. NextCmd  BY DEF WriteArm
<1>1. TypeOK'  BY <1>0, NextCmdIs DEF WriteArm, TypeOK, WritePCs
<1>2. InvCmd'  BY <1>0, NextCmdIs
<1>3. InvRequest'  BY <1>0, NextCmdIs DEF InvRequest
<1>4. InvBuffer'  BY ConstantTypes DEF WriteArm, NextCmd, NextCmdId, TypeOK, InvBuffer, BufferInOrder, Armed, ReadPCs
<1>5. InvSize'  BY ConstantTypes DEF WriteArm, NextCmd, NextCmdId, TypeOK, InvSize, Whole, Wrapped, Armed
<1>6. InvDone'  BY ConstantTypes DEF WriteArm, NextCmd, NextCmdId, TypeOK, InvDone, CleanReadComplete, AllThere, Armed
<1>7. InvBdm'  BY ConstantTypes DEF WriteArm, NextCmd, NextCmdId, TypeOK, InvBdm, BdmAgrees, ReadPCs, WritePCs
<1>8. InvLoop'  BY ConstantTypes DEF WriteArm, NextCmd, NextCmdId, TypeOK, InvLoop, Armed
<1>9. InvIsr'  BY ConstantTypes DEF WriteArm, NextCmd, NextCmdId, TypeOK, InvIsr
<1>   QED  BY <1>1, <1>2, <1>3, <1>4, <1>5, <1>6, <1>7, <1>8, <1>9

LEMMA WriteSendKeeps ==
  ASSUME IInv, isr = "idle", WriteSend
  PROVE  IInv'
<1>  USE DEF IInv, bdmVars, dataVars, isrVars
<1>1. TypeOK'  BY ConstantTypes DEF WriteSend, Request, SetAlarm, TypeOK, Requests, InvLoop, Armed, ReadPCs, WritePCs
<1>2. InvCmd'  BY ConstantTypes DEF WriteSend, Request, SetAlarm, TypeOK, InvCmd
<1>3. InvRequest'  BY ConstantTypes DEF WriteSend, Request, SetAlarm, TypeOK, InvRequest, Armed
<1>4. InvBuffer'  BY ConstantTypes DEF WriteSend, Request, SetAlarm, TypeOK, InvBuffer, BufferInOrder, Armed, ReadPCs
<1>5. InvSize'  BY ConstantTypes DEF WriteSend, Request, SetAlarm, TypeOK, InvSize, Whole, Wrapped, Armed
<1>6. InvDone'  BY ConstantTypes DEF WriteSend, Request, SetAlarm, TypeOK, InvDone, CleanReadComplete, AllThere, Armed
<1>7. InvBdm'  BY ConstantTypes DEF WriteSend, Request, SetAlarm, TypeOK, InvBdm, BdmAgrees, ReadPCs, WritePCs
<1>8. InvLoop'  BY ConstantTypes DEF WriteSend, Request, SetAlarm, TypeOK, InvLoop, Armed
<1>9. InvIsr'  BY ConstantTypes DEF WriteSend, Request, SetAlarm, TypeOK, InvIsr
<1>   QED  BY <1>1, <1>2, <1>3, <1>4, <1>5, <1>6, <1>7, <1>8, <1>9

LEMMA WriteSendFailedKeeps ==
  ASSUME IInv, isr = "idle", WriteSendFailed
  PROVE  IInv'
<1>  USE DEF IInv, bdmVars, dataVars, isrVars
<1>1. TypeOK'  BY ConstantTypes DEF WriteSendFailed, writeRest, TypeOK, Requests, InvLoop, Armed, ReadPCs, WritePCs
<1>2. InvCmd'  BY ConstantTypes DEF WriteSendFailed, writeRest, TypeOK, InvCmd
<1>3. InvRequest'  BY ConstantTypes DEF WriteSendFailed, writeRest, TypeOK, InvRequest, Armed
<1>4. InvBuffer'  BY ConstantTypes DEF WriteSendFailed, writeRest, TypeOK, InvBuffer, BufferInOrder, Armed, ReadPCs
<1>5. InvSize'  BY ConstantTypes DEF WriteSendFailed, writeRest, TypeOK, InvSize, Whole, Wrapped, Armed
<1>6. InvDone'  BY ConstantTypes DEF WriteSendFailed, writeRest, TypeOK, InvDone, CleanReadComplete, AllThere, Armed
<1>7. InvBdm'  BY ConstantTypes DEF WriteSendFailed, writeRest, TypeOK, InvBdm, BdmAgrees, ReadPCs, WritePCs
<1>8. InvLoop'  BY ConstantTypes DEF WriteSendFailed, writeRest, TypeOK, InvLoop, Armed
<1>9. InvIsr'  BY ConstantTypes DEF WriteSendFailed, writeRest, TypeOK, InvIsr
<1>   QED  BY <1>1, <1>2, <1>3, <1>4, <1>5, <1>6, <1>7, <1>8, <1>9

LEMMA WriteDataFailedKeeps ==
  ASSUME IInv, isr = "idle", WriteDataFailed
  PROVE  IInv'
<1>  USE DEF IInv, bdmVars, dataVars, isrVars
<1>1. TypeOK'  BY ConstantTypes DEF WriteDataFailed, Request, writeRest, TypeOK, Requests, InvLoop, Armed, ReadPCs, WritePCs
<1>2. InvCmd'  BY ConstantTypes DEF WriteDataFailed, Request, writeRest, TypeOK, InvCmd
<1>3. InvRequest'  BY ConstantTypes DEF WriteDataFailed, Request, writeRest, TypeOK, InvRequest, Armed
<1>4. InvBuffer'  BY ConstantTypes DEF WriteDataFailed, Request, writeRest, TypeOK, InvBuffer, BufferInOrder, Armed, ReadPCs
<1>5. InvSize'  BY ConstantTypes DEF WriteDataFailed, Request, writeRest, TypeOK, InvSize, Whole, Wrapped, Armed
<1>6. InvDone'  BY ConstantTypes DEF WriteDataFailed, Request, writeRest, TypeOK, InvDone, CleanReadComplete, AllThere, Armed
<1>7. InvBdm'  BY ConstantTypes DEF WriteDataFailed, Request, writeRest, TypeOK, InvBdm, BdmAgrees, ReadPCs, WritePCs
<1>8. InvLoop'  BY ConstantTypes DEF WriteDataFailed, Request, writeRest, TypeOK, InvLoop, Armed
<1>9. InvIsr'  BY ConstantTypes DEF WriteDataFailed, Request, writeRest, TypeOK, InvIsr
<1>   QED  BY <1>1, <1>2, <1>3, <1>4, <1>5, <1>6, <1>7, <1>8, <1>9

LEMMA WriteWakeKeeps ==
  ASSUME IInv, isr = "idle", WriteWake
  PROVE  IInv'
<1>  USE DEF IInv, bdmVars, dataVars, isrVars
<1>1. TypeOK'  BY ConstantTypes DEF WriteWake, Wake, TypeOK, Requests, InvLoop, Armed, ReadPCs, WritePCs
<1>2. InvCmd'  BY ConstantTypes DEF WriteWake, Wake, TypeOK, InvCmd
<1>3. InvRequest'  BY ConstantTypes DEF WriteWake, Wake, TypeOK, InvRequest, Armed
<1>4. InvBuffer'  BY ConstantTypes DEF WriteWake, Wake, TypeOK, InvBuffer, BufferInOrder, Armed, ReadPCs
<1>5. InvSize'  BY ConstantTypes DEF WriteWake, Wake, TypeOK, InvSize, Whole, Wrapped, Armed
<1>6. InvDone'  BY ConstantTypes DEF WriteWake, Wake, TypeOK, InvDone, CleanReadComplete, AllThere, Armed
<1>7. InvBdm'  BY ConstantTypes DEF WriteWake, Wake, TypeOK, InvBdm, BdmAgrees, ReadPCs, WritePCs
<1>8. InvLoop'  BY ConstantTypes DEF WriteWake, Wake, TypeOK, InvLoop, Armed
<1>9. InvIsr'  BY ConstantTypes DEF WriteWake, Wake, TypeOK, InvIsr
<1>   QED  BY <1>1, <1>2, <1>3, <1>4, <1>5, <1>6, <1>7, <1>8, <1>9

LEMMA WriteReturnKeeps ==
  ASSUME IInv, isr = "idle", WriteReturn
  PROVE  IInv'
<1>  USE DEF IInv, bdmVars, dataVars, isrVars
<1>1. TypeOK'  BY ConstantTypes DEF WriteReturn, TypeOK, Requests, InvLoop, Armed, ReadPCs, WritePCs
<1>2. InvCmd'  BY ConstantTypes DEF WriteReturn, TypeOK, InvCmd
<1>3. InvRequest'  BY ConstantTypes DEF WriteReturn, TypeOK, InvRequest, Armed
<1>4. InvBuffer'  BY ConstantTypes DEF WriteReturn, TypeOK, InvBuffer, BufferInOrder, Armed, ReadPCs
<1>5. InvSize'  BY ConstantTypes DEF WriteReturn, TypeOK, InvSize, Whole, Wrapped, Armed
<1>6. InvDone'  BY ConstantTypes DEF WriteReturn, TypeOK, InvDone, CleanReadComplete, AllThere, Armed
<1>7. InvBdm'  BY ConstantTypes DEF WriteReturn, TypeOK, InvBdm, BdmAgrees, ReadPCs, WritePCs
<1>8. InvLoop'  BY ConstantTypes DEF WriteReturn, TypeOK, InvLoop, Armed
<1>9. InvIsr'  BY ConstantTypes DEF WriteReturn, TypeOK, InvIsr
<1>   QED  BY <1>1, <1>2, <1>3, <1>4, <1>5, <1>6, <1>7, <1>8, <1>9

LEMMA AlarmFiresKeeps ==
  ASSUME IInv, AlarmFires
  PROVE  IInv'
<1>  USE DEF IInv, bdmVars, dataVars, isrVars
<1>0. 0 \in 0 .. SizeMod - 1 /\ 0 \in 0 .. BlockPkts + 1 /\ 0 \in 0 .. MaxRetries  BY ConstantTypes
<1>1. TypeOK'  BY <1>0, ConstantTypes DEF AlarmFires, TypeOK, Requests, InvLoop, Armed, ReadPCs, WritePCs
<1>2. InvCmd'  BY ConstantTypes DEF AlarmFires, TypeOK, InvCmd
<1>3. InvRequest'  BY ConstantTypes DEF AlarmFires, TypeOK, InvRequest, Armed
<1>4. InvBuffer'  BY ConstantTypes DEF AlarmFires, TypeOK, InvBuffer, BufferInOrder, Armed, ReadPCs
<1>5. InvSize'  BY ConstantTypes DEF AlarmFires, TypeOK, InvSize, Whole, Wrapped, Armed
<1>6. InvDone'  BY ConstantTypes DEF AlarmFires, TypeOK, InvDone, CleanReadComplete, AllThere, Armed, DONE, ERROR
<1>7. InvBdm'  BY ConstantTypes DEF AlarmFires, TypeOK, InvBdm, BdmAgrees, ReadPCs, WritePCs
<1>8. InvLoop'  BY ConstantTypes DEF AlarmFires, TypeOK, InvLoop, Armed
<1>9. InvIsr'  BY ConstantTypes DEF AlarmFires, TypeOK, InvIsr
<1>   QED  BY <1>1, <1>2, <1>3, <1>4, <1>5, <1>6, <1>7, <1>8, <1>9

LEMMA IsrInfoKeeps ==
  ASSUME IInv, isr = "idle", NEW id \in 0 .. CmdMod - 1, IsrInfo(id)
  PROVE  IInv'
<1>  USE DEF IInv, bdmVars, dataVars, isrVars
<1>1. TypeOK'  BY ConstantTypes DEF IsrInfo, CurrentCmd, isrRest, TypeOK, Requests, InvLoop, Armed, ReadPCs, WritePCs
<1>2. InvCmd'  BY ConstantTypes DEF IsrInfo, CurrentCmd, isrRest, TypeOK, InvCmd
<1>3. InvRequest'  BY ConstantTypes DEF IsrInfo, CurrentCmd, isrRest, TypeOK, InvRequest, Armed
<1>4. InvBuffer'  BY ConstantTypes DEF IsrInfo, CurrentCmd, isrRest, TypeOK, InvBuffer, BufferInOrder, Armed, ReadPCs
<1>5. InvSize'  BY ConstantTypes DEF IsrInfo, CurrentCmd, isrRest, TypeOK, InvSize, Whole, Wrapped, Armed
<1>6. InvDone'  BY ConstantTypes DEF IsrInfo, CurrentCmd, isrRest, TypeOK, InvDone, CleanReadComplete, AllThere, Armed
<1>7. InvBdm'  BY ConstantTypes DEF IsrInfo, CurrentCmd, isrRest, TypeOK, InvBdm, BdmAgrees, ReadPCs, WritePCs
<1>8. InvLoop'  BY ConstantTypes DEF IsrInfo, CurrentCmd, isrRest, TypeOK, InvLoop, Armed
<1>9. InvIsr'  BY ConstantTypes DEF IsrInfo, CurrentCmd, isrRest, TypeOK, InvIsr
<1>   QED  BY <1>1, <1>2, <1>3, <1>4, <1>5, <1>6, <1>7, <1>8, <1>9

LEMMA IsrWrongOrderKeeps ==
  ASSUME IInv, isr = "idle", NEW r \in requests, NEW p \in 1 .. BlockPkts, IsrWrongOrder(r, p)
  PROVE  IInv'
<1>  USE DEF IInv, bdmVars, dataVars, isrVars
<1>0. r.cmd = cmd  BY CurrentRequest DEF IsrWrongOrder, ReadPacket
<1>1. TypeOK'  BY <1>0, ConstantTypes DEF IsrWrongOrder, ReadPacket, ReadError, isrRest, TypeOK, Requests, InvLoop, Armed, ReadPCs, WritePCs
<1>2. InvCmd'  BY <1>0, ConstantTypes DEF IsrWrongOrder, ReadPacket, ReadError, isrRest, TypeOK, InvCmd
<1>3. InvRequest'  BY <1>0, ConstantTypes DEF IsrWrongOrder, ReadPacket, ReadError, isrRest, TypeOK, InvRequest, Armed
<1>4. InvBuffer'  BY <1>0, ConstantTypes DEF IsrWrongOrder, ReadPacket, ReadError, isrRest, TypeOK, InvBuffer, BufferInOrder, Armed, ReadPCs
<1>5. InvSize'  BY <1>0, ConstantTypes DEF IsrWrongOrder, ReadPacket, ReadError, isrRest, TypeOK, InvSize, Whole, Wrapped, Armed
<1>6. InvDone'  BY <1>0, ConstantTypes DEF IsrWrongOrder, ReadPacket, ReadError, isrRest, TypeOK, InvDone, CleanReadComplete, AllThere, Armed, DONE, ERROR
<1>7. InvBdm'  BY <1>0, ConstantTypes DEF IsrWrongOrder, ReadPacket, ReadError, isrRest, TypeOK, InvBdm, BdmAgrees, ReadPCs, WritePCs
<1>8. InvLoop'  BY <1>0, ConstantTypes DEF IsrWrongOrder, ReadPacket, ReadError, isrRest, TypeOK, InvLoop, Armed
<1>9. InvIsr'  BY <1>0, ConstantTypes DEF IsrWrongOrder, ReadPacket, ReadError, isrRest, TypeOK, InvIsr
<1>   QED  BY <1>1, <1>2, <1>3, <1>4, <1>5, <1>6, <1>7, <1>8, <1>9

LEMMA IsrOversizeKeeps ==
  ASSUME IInv, isr = "idle", NEW r \in requests, NEW p \in 1 .. BlockPkts, IsrOversize(r, p)
  PROVE  IInv'
<1>  USE DEF IInv, bdmVars, dataVars, isrVars
<1>0. r.cmd = cmd  BY CurrentRequest DEF IsrOversize, ReadPacket
<1>1. TypeOK'  BY <1>0, ConstantTypes DEF IsrOversize, ReadPacket, ReadError, InOrder, isrRest, TypeOK, Requests, InvLoop, Armed, ReadPCs, WritePCs
<1>2. InvCmd'  BY <1>0, ConstantTypes DEF IsrOversize, ReadPacket, ReadError, InOrder, isrRest, TypeOK, InvCmd
<1>3. InvRequest'  BY <1>0, ConstantTypes DEF IsrOversize, ReadPacket, ReadError, InOrder, isrRest, TypeOK, InvRequest, Armed
<1>4. InvBuffer'
  <2>1. UNCHANGED <<pc, got, cmd, buffer>> /\ readPkt' = readPkt + 1 /\ readPkt \in Nat
    BY DEF IsrOversize, isrRest, TypeOK
  <2>2. BufferInOrder'  BY <2>1 DEF InvBuffer, BufferInOrder
  <2>3. ASSUME pc \in Armed
        PROVE  Len(got) < readPkt' /\ \A k \in 1 .. Len(got) : got[k][2] < readPkt'
    <3>1. got \in Seq(Nat \X Nat)  BY DEF TypeOK
    <3>2. \A k \in 1 .. Len(got) : got[k][2] \in Nat /\ got[k][2] < readPkt
      BY <2>3, <3>1 DEF InvBuffer
    <3>   QED  BY <2>1, <2>3, <3>1, <3>2 DEF InvBuffer
  <2>   QED  BY <2>1, <2>2, <2>3 DEF InvBuffer
<1>5. InvSize'  BY <1>0, ConstantTypes DEF IsrOversize, ReadPacket, ReadError, InOrder, isrRest, TypeOK, InvSize, Whole, Wrapped, Armed
<1>6. InvDone'  BY <1>0, ConstantTypes DEF IsrOversize, ReadPacket, ReadError, InOrder, isrRest, TypeOK, InvDone, CleanReadComplete, AllThere, Armed, DONE, ERROR
<1>7. InvBdm'  BY <1>0, ConstantTypes DEF IsrOversize, ReadPacket, ReadError, InOrder, isrRest, TypeOK, InvBdm, BdmAgrees, ReadPCs, WritePCs
<1>8. InvLoop'  BY <1>0, ConstantTypes DEF IsrOversize, ReadPacket, ReadError, InOrder, isrRest, TypeOK, InvLoop, Armed
<1>9. InvIsr'  BY <1>0, ConstantTypes DEF IsrOversize, ReadPacket, ReadError, InOrder, isrRest, TypeOK, InvIsr
<1>   QED  BY <1>1, <1>2, <1>3, <1>4, <1>5, <1>6, <1>7, <1>8, <1>9

\* The byte counter goes down by one packet, or wraps at 0.
LEMMA LeftIs ==
  ASSUME NEW n \in 0 .. SizeMod - 1
  PROVE  /\ (n - 1) % SizeMod \in 0 .. SizeMod - 1
         /\ n > 0 => (n - 1) % SizeMod = n - 1
         /\ n = 0 => (n - 1) % SizeMod = SizeMod - 1
<1>1. CASE n > 0
  <2>1. n - 1 = SizeMod * 0 + (n - 1) /\ n - 1 \in 0 .. SizeMod - 1
    BY <1>1, ConstantTypes
  <2>   QED  BY <1>1, <2>1, ConstantTypes, ModIs
<1>2. CASE n = 0
  <2>1. n - 1 = SizeMod * (-1) + (SizeMod - 1) /\ SizeMod - 1 \in 0 .. SizeMod - 1
    BY <1>2, ConstantTypes
  <2>   QED  BY <1>2, <2>1, ConstantTypes, ModIs
<1>   QED  BY <1>1, <1>2

LEMMA IsrDataKeeps ==
  ASSUME IInv, isr = "idle", NEW r \in requests, NEW p \in 1 .. BlockPkts, IsrData(r, p)
  PROVE  IInv'
<1>  USE DEF IInv, bdmVars, dataVars, isrVars
<1>0. r.cmd = cmd  BY CurrentRequest DEF IsrData, ReadPacket
<1>a. pc \in {"r_wait", "r_woken"} /\ pc \in Armed
  BY <1>0 DEF IsrData, ReadPacket, InvRequest, Armed
<1>b. /\ p = readPkt /\ Len(got) \in Nat /\ got \in Seq(Nat \X Nat) /\ readPkt \in Nat
      /\ Len(got) < readPkt /\ readPkt <= BlockPkts /\ readPkt' = readPkt + 1
  BY <1>a, ConstantTypes DEF IsrData, InOrder, InvBuffer, TypeOK
<1>c. /\ got' = Append(got, <<cmd, p>>) /\ Len(got') = Len(got) + 1
      /\ \A k \in 1 .. Len(got) : got'[k] = got[k]
      /\ got'[Len(got) + 1] = <<cmd, p>> /\ got' \in Seq(Nat \X Nat)
  <2>1. cmd \in Nat /\ p \in Nat  BY ConstantTypes DEF TypeOK
  <2>   QED  BY <1>0, <1>b, <2>1 DEF IsrData
<1>d. /\ left' \in 0 .. SizeMod - 1
      /\ \/ readSize > 0 /\ left' = readSize - 1
         \/ readSize = 0 /\ left' = SizeMod - 1
  <2>1. readSize \in 0 .. SizeMod - 1 /\ left' = (readSize - 1) % SizeMod  BY DEF IsrData, TypeOK
  <2>2. readSize > 0 \/ readSize = 0  BY <2>1, ConstantTypes
  <2>   QED  BY <2>1, <2>2, LeftIs
<1>e. /\ readSize \in Nat /\ isr' = "store"
      /\ UNCHANGED <<pc, bits, clean, misread, cmd, buffer, evDone, readSize>>
  BY DEF IsrData, TypeOK, isrRest
<1>1. TypeOK'
  <2>1. readPkt' \in 0 .. BlockPkts + 1  BY <1>b, ConstantTypes
  <2>   QED  BY <2>1, <1>c, <1>d, <1>e DEF IsrData, isrRest, TypeOK
<1>2. InvCmd'  BY <1>0, ConstantTypes DEF IsrData, InOrder, isrRest, TypeOK, InvCmd
<1>3. InvRequest'  BY <1>0, ConstantTypes DEF IsrData, InOrder, isrRest, TypeOK, InvRequest, Armed
<1>4. InvBuffer'
  <2>1. ASSUME NEW k \in 1 .. Len(got') PROVE got'[k][1] = cmd /\ got'[k][2] < readPkt'
    <3>1. CASE k = Len(got) + 1  BY <3>1, <1>b, <1>c
    <3>2. CASE k # Len(got) + 1
      <4>1. k \in 1 .. Len(got) /\ got[k][2] \in Nat  BY <3>2, <1>b, <1>c
      <4>2. got[k][1] = cmd /\ got[k][2] < readPkt
        BY <4>1, <1>a DEF InvBuffer, BufferInOrder, Armed, ReadPCs
      <4>   QED  BY <4>1, <4>2, <1>b, <1>c
    <3>   QED  BY <3>1, <3>2
  <2>2. ASSUME NEW j \in 1 .. Len(got'), NEW k \in 1 .. Len(got'), j < k
        PROVE  got'[j][2] < got'[k][2]
    <3>1. CASE k = Len(got) + 1
      BY <2>2, <3>1, <1>a, <1>b, <1>c DEF InvBuffer, Armed
    <3>2. CASE k # Len(got) + 1
      <4>1. j \in 1 .. Len(got) /\ k \in 1 .. Len(got)  BY <2>2, <3>2, <1>b, <1>c
      <4>   QED  BY <2>2, <4>1, <1>a, <1>c DEF InvBuffer, BufferInOrder, Armed, ReadPCs
    <3>   QED  BY <3>1, <3>2
  <2>3. BufferInOrder'  BY <2>1, <2>2, <1>e DEF BufferInOrder
  <2>4. Len(got') < readPkt' /\ buffer  BY <1>b, <1>c DEF IsrData, ReadPacket
  <2>   QED  BY <2>1, <2>3, <2>4, <1>e DEF InvBuffer
<1>5. InvSize'
  <2>1. readSize = 0 \/ Whole(readSize) \/ Wrapped(readSize)  BY <1>a DEF InvSize
  <2>2. ASSUME readSize > 0, Whole(readSize) PROVE Whole(left)'
    <3>0. readSize + Len(got) = BlockPkts /\ readPkt = Len(got) + 1 /\ left' = readSize - 1
      BY <2>2, <1>d, <1>e DEF Whole
    <3>1. left' + Len(got') = BlockPkts /\ readPkt' = Len(got') + 1
      BY <3>0, <1>b, <1>c, <1>e, ConstantTypes
    <3>2. \A k \in 1 .. Len(got') : got'[k] = <<cmd, k>>
      BY <2>2, <3>0, <1>b, <1>c DEF Whole
    <3>   QED  BY <3>1, <3>2, <1>e DEF Whole
  <2>3. ASSUME readSize > 0, Wrapped(readSize) PROVE Wrapped(left)'
    BY <2>3, <1>b, <1>c, <1>d, <1>e, ConstantTypes DEF Wrapped
  <2>4. ASSUME readSize = 0 PROVE Wrapped(left)'
    BY <2>4, <1>b, <1>c, <1>d, ConstantTypes DEF Wrapped
  <2>5. Whole(left)' \/ Wrapped(left)'  BY <2>1, <2>2, <2>3, <2>4, <1>e
  <2>   QED  BY <2>5, <1>e DEF InvSize
<1>6. InvDone'
  <2>1. ~AllThere  BY <1>a, <1>b, ConstantTypes DEF InvDone
  <2>2. ~(clean /\ ~misread /\ DONE \in evDone /\ pc = "r_wait")
        /\ ~(pc = "r_woken" /\ DONE \in bits /\ clean /\ ~misread)
    BY <2>1 DEF InvDone, CleanReadComplete
  <2>3. ASSUME AllThere' PROVE readPkt' = BlockPkts + 1
    <3>1. Len(got') = BlockPkts /\ got'[BlockPkts] = <<cmd, BlockPkts>>
      BY <2>3, <1>c, <1>e, ConstantTypes DEF AllThere
    <3>2. p = BlockPkts  BY <3>1, <1>b, <1>c
    <3>   QED  BY <3>2, <1>b
  <2>   QED  BY <1>a, <1>e, <2>2, <2>3 DEF InvDone, CleanReadComplete
<1>7. InvBdm'  BY <1>0, ConstantTypes DEF IsrData, InOrder, isrRest, TypeOK, InvBdm, BdmAgrees, ReadPCs, WritePCs
<1>8. InvLoop'  BY <1>0, ConstantTypes DEF IsrData, InOrder, isrRest, TypeOK, InvLoop, Armed
<1>9. InvIsr'  BY <1>a, <1>b, <1>c, <1>e DEF InvIsr
<1>   QED  BY <1>1, <1>2, <1>3, <1>4, <1>5, <1>6, <1>7, <1>8, <1>9

LEMMA IsrStoreKeeps ==
  ASSUME IInv, IsrStore
  PROVE  IInv'
<1>  USE DEF IInv, bdmVars, dataVars, isrVars
<1>0. pc \in {"r_wait", "r_woken"} /\ pc \in Armed  BY DEF IsrStore, InvIsr, Armed
<1>1. TypeOK'  BY <1>0, ConstantTypes DEF IsrStore, isrRest, TypeOK, Requests, Armed, ReadPCs, WritePCs
<1>2. InvCmd'  BY <1>0, ConstantTypes DEF IsrStore, isrRest, TypeOK, InvCmd
<1>3. InvRequest'  BY <1>0, ConstantTypes DEF IsrStore, isrRest, TypeOK, InvRequest, Armed
<1>4. InvBuffer'  BY <1>0, ConstantTypes DEF IsrStore, isrRest, TypeOK, InvBuffer, BufferInOrder, Armed, ReadPCs
<1>5. InvSize'  BY <1>0, ConstantTypes DEF IsrStore, isrRest, TypeOK, InvSize, Whole, Wrapped, InvIsr, Armed
<1>6. InvDone'  BY <1>0, ConstantTypes DEF IsrStore, isrRest, TypeOK, InvDone, CleanReadComplete, AllThere, Armed
<1>7. InvBdm'  BY <1>0, ConstantTypes DEF IsrStore, isrRest, TypeOK, InvBdm, BdmAgrees, ReadPCs, WritePCs
<1>8. InvLoop'  BY <1>0, ConstantTypes DEF IsrStore, isrRest, TypeOK, InvLoop, Armed
<1>9. InvIsr'  BY <1>0, ConstantTypes DEF IsrStore, isrRest, TypeOK, InvIsr
<1>   QED  BY <1>1, <1>2, <1>3, <1>4, <1>5, <1>6, <1>7, <1>8, <1>9

LEMMA IsrTestKeeps ==
  ASSUME IInv, IsrTest
  PROVE  IInv'
<1>  USE DEF IInv, bdmVars, dataVars, isrVars
<1>0. pc \in {"r_wait", "r_woken"} /\ pc \in Armed /\ 0 \in 0 .. SizeMod - 1
  BY ConstantTypes DEF IsrTest, InvIsr, Armed
<1>e. PICK seen \in {left, readSize} :
        /\ evDone' = IF seen = 0 THEN evDone \cup {DONE} ELSE evDone
        /\ misread' = (misread \/ (seen = 0 /\ left # 0))
  BY DEF IsrTest
<1>1. TypeOK'
  <2>1. evDone' \subseteq {DONE, ERROR} /\ misread' \in BOOLEAN  BY <1>e DEF TypeOK
  <2>   QED  BY <1>0, <2>1 DEF IsrTest, isrRest, TypeOK
<1>2. InvCmd'  BY <1>0, ConstantTypes DEF IsrTest, isrRest, TypeOK, InvCmd
<1>3. InvRequest'  BY <1>0, ConstantTypes DEF IsrTest, isrRest, TypeOK, InvRequest, Armed
<1>4. InvBuffer'  BY <1>0, ConstantTypes DEF IsrTest, isrRest, TypeOK, InvBuffer, BufferInOrder, Armed, ReadPCs
<1>5. InvSize'  BY <1>0, ConstantTypes DEF IsrTest, isrRest, TypeOK, InvSize, Whole, Wrapped, InvIsr, Armed
<1>6. InvDone'
  <2>1. ASSUME left = 0 PROVE AllThere
    <3>1. Whole(0)  BY <2>1, <1>0, ConstantTypes DEF IsrTest, InvSize, Wrapped, InvDone, TypeOK, InvBuffer, InvIsr, Whole
    <3>0. got \in Seq(Nat \X Nat) /\ Len(got) = BlockPkts  BY <3>1, ConstantTypes DEF Whole, TypeOK
    <3>2. \A k \in 1 .. BlockPkts : got[k] = <<cmd, k>>  BY <3>0, <3>1 DEF Whole
    <3>3. got = [k \in 1 .. Len(got) |-> got[k]]  BY <3>0
    <3>   QED  BY <3>0, <3>2, <3>3 DEF AllThere
  <2>2. UNCHANGED <<pc, bits, clean, cmd, got, readPkt>>  BY DEF IsrTest, isrRest
  <2>3. AllThere' <=> AllThere  BY <2>2 DEF AllThere
  <2>4. DONE \in evDone' /\ ~misread' => ~misread /\ (DONE \in evDone \/ left = 0)  BY <1>e
  <2>   QED  BY <2>1, <2>2, <2>3, <2>4, <1>e DEF InvDone, CleanReadComplete
<1>7. InvBdm'  BY <1>0, ConstantTypes DEF IsrTest, isrRest, TypeOK, InvBdm, BdmAgrees, ReadPCs, WritePCs
<1>8. InvLoop'  BY <1>0, ConstantTypes DEF IsrTest, isrRest, TypeOK, InvLoop, Armed
<1>9. InvIsr'  BY <1>0, ConstantTypes DEF IsrTest, isrRest, TypeOK, InvIsr
<1>   QED  BY <1>1, <1>2, <1>3, <1>4, <1>5, <1>6, <1>7, <1>8, <1>9

LEMMA IsrWriteDoneKeeps ==
  ASSUME IInv, isr = "idle", NEW r \in requests, NEW bit \in {DONE, ERROR}, IsrWriteDone(r, bit)
  PROVE  IInv'
<1>  USE DEF IInv, bdmVars, dataVars, isrVars
<1>0. r.cmd = cmd  BY CurrentRequest DEF IsrWriteDone
<1>1. TypeOK'  BY <1>0, ConstantTypes DEF IsrWriteDone, isrRest, TypeOK, Requests, InvLoop, Armed, ReadPCs, WritePCs
<1>2. InvCmd'  BY <1>0, ConstantTypes DEF IsrWriteDone, isrRest, TypeOK, InvCmd
<1>3. InvRequest'  BY <1>0, ConstantTypes DEF IsrWriteDone, isrRest, TypeOK, InvRequest, Armed
<1>4. InvBuffer'  BY <1>0, ConstantTypes DEF IsrWriteDone, isrRest, TypeOK, InvBuffer, BufferInOrder, Armed, ReadPCs
<1>5. InvSize'  BY <1>0, ConstantTypes DEF IsrWriteDone, isrRest, TypeOK, InvSize, Whole, Wrapped, Armed
<1>6. InvDone'  BY <1>0, ConstantTypes DEF IsrWriteDone, isrRest, TypeOK, InvDone, CleanReadComplete, AllThere, Armed, InvRequest
<1>7. InvBdm'  BY <1>0, ConstantTypes DEF IsrWriteDone, isrRest, TypeOK, InvBdm, BdmAgrees, ReadPCs, WritePCs
<1>8. InvLoop'  BY <1>0, ConstantTypes DEF IsrWriteDone, isrRest, TypeOK, InvLoop, Armed
<1>9. InvIsr'  BY <1>0, ConstantTypes DEF IsrWriteDone, isrRest, TypeOK, InvIsr
<1>   QED  BY <1>1, <1>2, <1>3, <1>4, <1>5, <1>6, <1>7, <1>8, <1>9

-----------------------------------------------------------------------------

LEMMA Inductive == IInv /\ [Next]_vars => IInv'
<1>  SUFFICES ASSUME IInv, [Next]_vars PROVE IInv'  OBVIOUS
<1>1. CASE UNCHANGED vars
  <2>0. TypeOK' /\ InvCmd' /\ InvRequest'
    BY <1>1 DEF IInv, vars, dataVars, bdmVars, isrVars, TypeOK, InvCmd, InvRequest
  <2>1. InvSize' /\ InvIsr' /\ InvLoop'
    BY <1>1 DEF IInv, vars, dataVars, bdmVars, isrVars, InvSize, Whole, Wrapped, InvIsr, InvLoop
  <2>2. InvBuffer' /\ InvDone' /\ InvBdm'
    BY <1>1 DEF IInv, vars, dataVars, bdmVars, isrVars, InvBuffer, InvDone, InvBdm,
                BufferInOrder, CleanReadComplete, AllThere, BdmAgrees
  <2>   QED  BY <2>0, <2>1, <2>2 DEF IInv
<1>2. CASE isr = "idle" /\ Calls
  BY <1>2, CallReadKeeps, CallWriteKeeps DEF Calls
<1>3. CASE isr = "idle" /\ Thread
  BY <1>3, ReadArmKeeps, ReadSendKeeps, ReadSendFailedKeeps, ReadWakeKeeps, ReadOkKeeps,
     ReadFailedKeeps, ReadDisconnectKeeps, ReadDownKeeps, WriteArmKeeps, WriteSendKeeps,
     WriteSendFailedKeeps, WriteDataFailedKeeps, WriteWakeKeeps, WriteReturnKeeps DEF Thread
<1>4. CASE AlarmFires  BY <1>4, AlarmFiresKeeps
<1>5. CASE isr = "idle" /\ Isr
  BY <1>5, IsrInfoKeeps, IsrWrongOrderKeeps, IsrOversizeKeeps, IsrDataKeeps, IsrWriteDoneKeeps
     DEF Isr
<1>6. CASE IsrGoesOn  BY <1>6, IsrStoreKeeps, IsrTestKeeps DEF IsrGoesOn
<1>   QED  BY <1>1, <1>2, <1>3, <1>4, <1>5, <1>6 DEF Next

THEOREM Invariance == Spec => []IInv
  BY Initially, Inductive, PTL DEF Spec

\* Every variable of the driver keeps its width and its range.
THEOREM TypeCorrect == Spec => []TypeOK
  BY Invariance, PTL DEF IInv

\* For every size of the command number space larger than the lag of the
\* network, the caller's buffer holds packets of the current command and of no
\* other, in the order of their numbers (udpbd_isr, _cmd_read_rdma).
THEOREM BufferCorrect == Spec => []BufferInOrder
<1>1. IInv => BufferInOrder  BY DEF IInv, InvBuffer
<1>   QED  BY <1>1, Invariance, PTL

\* A read reported as done has every packet of its block in place, with the
\* alarm between any two statements of _cmd_read_rdma, unless an outcome of an
\* earlier command was left in the event flag or the build read an alarm's 0
\* for the end of the data.
THEOREM ReadsComplete == Spec => []CleanReadComplete
<1>1. IInv => CleanReadComplete  BY DEF IInv, InvDone
<1>   QED  BY <1>1, Invariance, PTL

\* Outside the tear-down itself bdm has the device exactly when the driver
\* believes to be connected.
THEOREM Agreement == Spec => []BdmAgrees
<1>1. IInv => BdmAgrees  BY DEF IInv, InvBdm
<1>   QED  BY <1>1, Invariance, PTL

\* The receive thread leaves the caller's memory alone outside udpbd_read.
THEOREM Ownership == Spec => BufferOwned
<1>1. IInv /\ [Next]_vars => [got' # got => pc \in ReadPCs]_vars
  <2>  SUFFICES ASSUME IInv, Next, got' # got PROVE pc \in ReadPCs  BY DEF vars
  <2>1. CASE Calls
    BY <2>1 DEF Calls, CallRead, CallWrite, dataVars
  <2>2. CASE Thread
    BY <2>2 DEF Thread, ReadArm, ReadSend, ReadSendFailed, ReadWake, ReadOk, ReadFailed, Retry,
       ReadDisconnect, ReadDown, WriteArm, WriteSend, WriteSendFailed, WriteDataFailed,
       writeRest, WriteWake, WriteReturn, Wake, ReleaseBuffer, dataVars, ReadPCs
  <2>3. CASE AlarmFires  BY <2>3 DEF AlarmFires
  <2>4. ASSUME NEW r \in requests, NEW p \in 1 .. BlockPkts, IsrData(r, p)
        PROVE  pc \in ReadPCs
    <3>1. r.cmd = cmd  BY <2>4, CurrentRequest DEF IInv, IsrData, ReadPacket
    <3>   QED  BY <2>4, <3>1 DEF IInv, InvRequest, IsrData, ReadPacket, Armed, ReadPCs
  <2>5. CASE Isr
    BY <2>4, <2>5 DEF Isr, IsrInfo, IsrWrongOrder, IsrOversize, IsrWriteDone, dataVars
  <2>6. CASE IsrGoesOn  BY <2>6 DEF IsrGoesOn, IsrStore, IsrTest, dataVars
  <2>   QED  BY <2>1, <2>2, <2>3, <2>5, <2>6 DEF Next
<1>   QED  BY <1>1, Invariance, PTL DEF Spec, BufferOwned

=============================================================================
