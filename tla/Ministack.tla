----------------------------- MODULE Ministack -----------------------------
(***************************************************************************)
(* The network stack above the SMAP driver (ministack).  Received frames   *)
(* are handled in the driver's interrupt thread: ARP packets fill the      *)
(* table and are answered, a UDP packet goes to the handler of its port.   *)
(* An application thread that has found its server resolves the server's   *)
(* address before it sends to it (udprdma_discover, udp_packet_init).      *)
(*                                                                         *)
(* The interrupt thread has priority 8, above every caller: what it does   *)
(* between two waits is one step of the callers.  A host's MAC address is  *)
(* written as the host.                                                    *)
(***************************************************************************)
EXTENDS Naturals, FiniteSets

CONSTANTS
  Hosts,         \* other machines on the wire
  NoHost,        \* IP address 0, MAC address 0
  ArpEntries,    \* MS_ARP_ENTRIES (8)
  ArpAttempts    \* requests of one arp_resolve (5)

ASSUME MinistackAssumption ==
  NoHost \notin Hosts /\ {ArpEntries, ArpAttempts} \subseteq Nat \ {0}

VARIABLES
  arp_table,
  mpc,      \* the application: where it is in udprdma_discover and arp_resolve
  peer,     \* peer_ip of the socket that handles the UDP port
  informed, \* EF_RX_INFO in its event flag
  ip_dest,  \* the address its packets carry: the argument of udp_packet_init
  attempt,  \* retry of arp_resolve
  dst       \* where its packets go: addr_dst of the packet it sends

stackVars == <<arp_table, mpc, peer, informed, ip_dest, attempt, dst>>

Broadcast == "ff:ff:ff:ff:ff:ff"

StackInit ==
  /\ arp_table = [i \in 1 .. ArpEntries |-> [ip |-> NoHost, mac |-> NoHost]]
  /\ mpc = "discover" /\ peer = NoHost /\ informed = FALSE /\ attempt = 0
  /\ ip_dest = NoHost /\ dst = Broadcast   \* udprdma_create

-----------------------------------------------------------------------------
(* The ARP table *)

EntryOf(ip) == {i \in DOMAIN arp_table : arp_table[i].ip = ip}
FirstOf(S)  == CHOOSE i \in S : \A j \in S : i <= j

\* the entry of the address, or the first free one, or none: nothing is dropped
SlotFor(ip) ==
  IF EntryOf(ip) # {} THEN FirstOf(EntryOf(ip))
  ELSE IF EntryOf(NoHost) # {} THEN FirstOf(EntryOf(NoHost)) ELSE 0

arp_add_entry(ip, mac) ==
  arp_table' = [i \in DOMAIN arp_table |->
                  IF i = SlotFor(ip) THEN [ip |-> ip, mac |-> mac] ELSE arp_table[i]]

-----------------------------------------------------------------------------
(* handle_rx_eth, in the interrupt thread *)

\* the frames that matter: ARP packets with their sender (NoHost for a probe),
\* INFORM packets of servers and DISCOVERY packets of other consoles for the
\* bound port and service, and what the stack does not know
Frames == [kind : {"request", "announce"}, from : Hosts]
            \cup {[kind |-> "probe", from |-> NoHost]}
            \cup [kind : {"inform", "discovery"}, from : Hosts]
            \cup {[kind |-> "other", from |-> NoHost]}

\* a request for our own address
Asks(frame) == frame.kind \in {"request", "probe"}

\* any ARP packet teaches its sender's address
Learn(frame) ==
  IF frame.kind \in {"request", "announce"} THEN arp_add_entry(frame.from, frame.from)
                                            ELSE UNCHANGED arp_table

\* The socket's handler: each INFORM until the socket is connected, and each
\* DISCOVERY at any time, sets the peer.
Taken(frame) ==
  frame.kind = "discovery" \/ (frame.kind = "inform" /\ mpc = "discover")

Inform(frame) ==
  /\ peer' = IF Taken(frame) THEN frame.from ELSE peer
  /\ informed' = (informed \/ (Taken(frame) /\ frame.kind = "inform"))

handle_rx_eth(frame) ==
  /\ Learn(frame) /\ Inform(frame)
  /\ UNCHANGED <<mpc, ip_dest, attempt, dst>>

-----------------------------------------------------------------------------
(* udprdma_discover and udp_packet_init in the application's thread *)

\* the address is known: addr_dst is set
Known(ip) == EntryOf(ip) # {}

\* udprdma_discover wakes up with an INFORM: STATE_CONNECTED
Connect ==
  /\ mpc = "discover" /\ informed
  /\ informed' = FALSE /\ mpc' = "told"
  /\ UNCHANGED <<arp_table, peer, ip_dest, attempt, dst>>

\* the packet is made anew for whoever is the peer by now
PacketInit ==
  /\ mpc = "told"
  /\ ip_dest' = peer /\ attempt' = 0 /\ mpc' = "lookup"
  /\ UNCHANGED <<arp_table, peer, informed, dst>>

resolveRest == <<arp_table, peer, informed, ip_dest>>

\* the address an entry holds; a search that takes the first entry
AddressOfFirst(ip) == arp_table[1].mac
AddressOf(ip) == arp_table[FirstOf(EntryOf(ip))].mac

\* arp_lookup: after the first, and after each delay of 100 ms
Found ==
  /\ mpc = "lookup" /\ Known(ip_dest)
  /\ dst' = AddressOf(ip_dest)
  /\ mpc' = "connected" /\ UNCHANGED <<attempt, resolveRest>>

\* arp_send_request; its transmission is the driver's
Request ==
  /\ mpc = "lookup" /\ ~Known(ip_dest) /\ attempt < ArpAttempts
  /\ mpc' = "asking" /\ UNCHANGED <<attempt, dst, resolveRest>>

Asked ==
  /\ mpc = "asking"
  /\ attempt' = attempt + 1 /\ mpc' = "lookup"
  /\ UNCHANGED <<dst, resolveRest>>

\* an answer is looked for after the last delay, too; a loop that does not
UnansweredUnlooked == TRUE
Unanswered == ~Known(ip_dest)

\* -1, which ip_packet_init does not look at: addr_dst stays what it was
Unresolved ==
  /\ mpc = "lookup" /\ Unanswered /\ attempt = ArpAttempts
  /\ mpc' = "connected" /\ UNCHANGED <<attempt, dst, resolveRest>>

-----------------------------------------------------------------------------

StackTypeOK ==
  /\ arp_table \in [1 .. ArpEntries -> [ip : Hosts \cup {NoHost}, mac : Hosts \cup {NoHost}]]
  /\ mpc \in {"discover", "told", "lookup", "asking", "connected"}
  /\ {peer, ip_dest} \subseteq Hosts \cup {NoHost} /\ informed \in BOOLEAN
  /\ attempt \in 0 .. ArpAttempts

\* The application's packets reach the host whose IP address they carry: they
\* have its MAC address, or go to everyone, also when it never answers, when
\* the table has no place for it (ministack_arp.c:17), and when the peer
\* changes while it is looked for.  That the address is the server's is not
\* claimed here: a DISCOVERY before udprdma.c:433 makes it another console's.
DestReaches == mpc = "connected" => dst \in {Broadcast, ip_dest}

\* An answer that comes while the address is being resolved is used, when it
\* races the end of the last delay, too (ministack_arp.c:107).
LateAnswerUsed ==
  (mpc \in {"lookup", "asking"} /\ Known(ip_dest)) ~> (mpc = "connected" /\ dst = ip_dest)

=============================================================================
