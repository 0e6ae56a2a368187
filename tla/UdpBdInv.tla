------------------------------ MODULE UdpBdInv ------------------------------
(***************************************************************************)
(* The inductive invariant of UdpBd: how command numbers, the caller's     *)
(* buffer and the byte counter hang together.                              *)
(***************************************************************************)
EXTENDS UdpBd

Armed == {"r_send", "r_wait", "r_woken"}

\* No request is a whole turn of the command number old.
InvCmd ==
  /\ cmdid = cmd % CmdMod
  /\ \A r \in requests :
       r.id = r.cmd % CmdMod /\ r.cmd <= cmd /\ cmd <= r.cmd + MaxLag

\* What the server may be answering is what the thread waits for.  Where the
\* buffer is set though no read runs, no read was requested either.
InvRequest ==
  \A r \in requests :
    r.cmd = cmd =>
      /\ pc \notin {"r_send", "w_send"}
      /\ pc \in {"r_wait", "r_woken"} => r.op = "read"
      /\ pc \notin Armed /\ buffer => r.op # "read"

\* packet numbers stay below the next one expected
InvBuffer ==
  /\ BufferInOrder
  /\ pc \in Armed =>
       /\ buffer /\ Len(got) < readPkt
       /\ \A k \in 1 .. Len(got) : got[k][2] < readPkt

\* n packets to come: none of the ones before was refused
Whole(n) ==
  /\ n + Len(got) = BlockPkts /\ readPkt = Len(got) + 1
  /\ \A k \in 1 .. Len(got) : got[k] = <<cmd, k>>

\* what is left of a g_read_size that an error had emptied
Wrapped(n) == n + Len(got) >= SizeMod

\* After an error has emptied g_read_size it can wrap, but a difference that
\* comes to 0 means that every packet was stored.
InvSize ==
  pc \in Armed =>
    /\ isr # "store" => readSize = 0 \/ Whole(readSize) \/ Wrapped(readSize)
    /\ isr # "idle" => Whole(left) \/ Wrapped(left)

InvIsr ==
  /\ isr # "idle" => pc \in {"r_wait", "r_woken"} /\ Len(got) > 0
  /\ isr = "test" => readSize \in {left, 0}

InvDone ==
  /\ pc \in {"r_send", "r_wait"} /\ clean /\ ~misread /\ DONE \in evDone => AllThere
  /\ CleanReadComplete
  /\ pc \in Armed /\ AllThere => readPkt = BlockPkts + 1

InvBdm ==
  /\ pc = "r_down" => connected /\ ~registered
  /\ pc \in ReadPCs \cup WritePCs => connected
  /\ BdmAgrees

InvLoop ==
  /\ pc \in Armed \cup {"r_arm"} => blocks > 0 /\ retries < MaxRetries

IInv ==
  /\ TypeOK
  /\ InvCmd /\ InvRequest /\ InvBuffer /\ InvSize /\ InvIsr /\ InvDone /\ InvBdm /\ InvLoop
=============================================================================
