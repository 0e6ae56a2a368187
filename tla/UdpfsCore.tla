----------------------------- MODULE UdpfsCore -----------------------------
(***************************************************************************)
(* The part of udpfs_core.c the three front ends share: the connection.    *)
(* A request and its reply are one exchange of RequestChannel.  When it    *)
(* fails the socket is disconnected for good (nothing calls udprdma_       *)
(* discover again) and the server may or may not have served the request.  *)
(***************************************************************************)
EXTENDS Integers, Sequences

VARIABLE conn    \* g_socket: "new" before udpfs_core_init, "up" connected,
                 \* "down" disconnected, "none" after a failed udpfs_core_init
                 \* or udpfs_core_exit

Connected == conn = "up"
Loaded    == conn \in {"up", "down"}

\* udpfs_core_init: udprdma_create and udprdma_discover, or neither remains
CoreInit(found) == conn = "new" /\ conn' = IF found THEN "up" ELSE "none"
CoreExit == conn' = "none"

\* a reply came, or none did
Answered == Connected /\ UNCHANGED conn
Lost     == Connected /\ conn' = "down"

EIO == -5

=============================================================================
