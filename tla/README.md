# OSDMenu: TLA+ models, model checking and proofs

This directory models the parts of OSDMenu in which several activities, a lossy
network, hardware that answers late, failing files, a chain of programs that inherit
each other's state, or wrapping counters make the code hard to get right and hard to
test. Each module names the source it is translated from; `PROJECT.json` maps every
definition to its lines. Paths below are relative to the repository root unless they
start with `udpfs/`, which stands for `src/launcher/iop/udpfs/`.

Contents: [the system](#the-system), [modules](#modules), one section for each group of
modules ([udprdma](#udprdma), [udpfs](#udpfs), [udpbd](#udpbd), [net](#net),
[atad](#atad), [history](#history), [boot](#boot)), [checks](#checks),
[proofs](#proofs), [disagreements](#disagreements-between-code-and-documents),
[observations](#observations-without-a-run), [not modelled](#not-modelled),
[what is left](#what-is-left).

## The system

OSDMenu is the software a PlayStation 2 runs between power-on and a title: an MBR on
the internal disk, a patcher for the console's own menu (OSDMenu from a memory card,
HOSDMenu from the disk), a launcher that resolves a menu entry to an ELF on one of many
devices, a loader that takes the place of all of them in memory, and the device drivers
they bring along. Two processors are involved. The EE runs one single-threaded program
at a time, each replacing the last (`mbr` to `patcher` to `launcher` to the title, with
the loader in between); what stays is what they leave on the IOP. The IOP runs drivers
under a preemptive kernel with priorities, interrupts and alarms, and this is where
concurrency lives.

| Component | Code | State | Operations | Interacts with |
|---|---|---|---|---|
| UDPRDMA socket | `udpfs/udpfs/src/udprdma.c` | connection state, addresses, sequence numbers of both directions, receive buffers, event flag, alarm | create, discover, send, send_ll, set_rx_buffer, recv, `_ist` (receive handler), `_timeout_cb` | ministack calls `_ist` on its thread; the caller's thread and the alarm interrupt share the socket with it |
| UDPFS request layer | `udpfs/udpfs/src/udpfs_core.c` | the socket, message buffers | one or more requests and replies for each file and block operation | front ends above, socket below |
| UDPFS front ends | `udpfs_ioman.c`, `udpfs_fhi.c`, `udpfs_bd.c` | table of 8 handles; a semaphore; the block device record | file, image and sector operations | iomanX, `bdm`, a running game; the request layer |
| UDPBD driver | `udpfs/udpbd/src/udpbd.c` | command number, read progress, event flag, alarm, connected flag | read, write, flush, stop, `udpbd_isr`, `_udpbd_timeout` | `bdm` above, ministack below |
| ministack | `udpfs/ministack/src` | ARP table, four UDP sockets, IP settings | send, receive, resolve | SMAP below, sockets above |
| SMAP driver | `udpfs/smap/src` | transmit ring and memory, receive ring, link state, event flag | transmit, interrupt thread, link check, negotiation | interrupts, timer alarm, ministack |
| PS2 ATA driver | `src/patcher/iop/atad/src/ps2atad.c` | current command, event flag, device information | io_start, io_finish, PIO and DMA transfers, identification, security | interrupt, alarm, the disk driver above |
| Play history | `src/common/src/history.c` | a history file and history.old on each card | updateHistoryFile | file system; launcher and MBR call it |
| Configuration and paths | `src/common/src/cnf.c`, `patinfo.c`, `game_id.c`, `src/mbr/src/config.c` | parsed settings | parse | files |
| ELF loading | `src/common/src/loader.c`, `src/utils/loader` | arguments, mount, power of the expansion bay | loadELF, the loader's main | MBR, launcher, patcher |
| MBR | `src/mbr/src` | drivers, the mount `pfs0:`, settings and boot entries | choice of the boot target, fallbacks, disc boot, fsck, decryption | disk, pad, drive |
| Launcher | `src/launcher/src` | loaded drivers (`currentDevice`), mount, device hint, list of targets | one handler per kind of path, discs, lists | drivers, loader |
| OSD patcher | `src/patcher/src` | settings, where the configuration came from, the patched ROM image | read the configuration, load the OSD, find and patch code, start the launcher | the console's menu, launcher |
| eGSM | `src/utils/loader/src/egsm` | forced and wanted video mode, last written registers | hook of SetGsCrt, breakpoint handler | the running title, the GS |
| PS1VN, installer, scripts | `src/utils` | none that outlives a run | copy, patch, convert | |

What is hard here:

* **Interleaving.** A UDPRDMA socket is written by three activities without a lock. The
  receive handler runs on a thread of higher priority than any caller, so it interrupts
  the caller between any two statements and is not interrupted by it; the alarm is an
  interrupt and comes between any two statements of both. The SMAP transmit ring is
  retired by whoever sends next, its receive ring is filled while the interrupt thread
  clears interrupts, and an ATA command races its own alarm.
* **Unreliable delivery.** Both network drivers carry retransmission protocols with
  sequence numbers of 12 bits (UDPRDMA) and 3 bits (UDPBD); ARP has its retries.
* **Stale outcomes and stale state.** Event flags collect outcomes of everything that
  happened since they were last cleared, the previous command included; a connection is
  checked before a semaphore and used after it; the cached security status decides which
  ATA commands are sent; and every program of the boot chain looks for a file that
  another program opens again, behind a mount and drivers that may have changed.
* **Partial failure.** Buffers handed to a receive handler must be taken back on every
  exit; a request of several chunks can lose its connection after some of them; a card
  can fail, or power can go, between truncating the history and writing it; a handler
  that fails with the partition mounted makes every later mount fail.
* **Counters and boundaries.** Sequence numbers, ring indices, UDPBD's unsigned byte
  count, counts of sectors that are cut to a register's width, the history's 6 bit
  launch counter with its random choice of a missing mask bit.

`PROJECT.json` lists the hazards one by one, at the line where each bites, with the
property that watches it.

### What makes each component correct

* *UDPRDMA*: the server applies each payload once and in order; a call that succeeds
  holds exactly the reply to its own request; nothing is acknowledged that was not
  taken; no memory is written outside the call; every call returns.
* *UDPFS*: a read reports what it delivered, also when it was cut off; driver, iomanX
  and server agree on the open files; requests of two threads do not share a buffer; no
  request is sent on a connection that is known to be lost; every call returns.
* *UDPBD*: a buffer never mixes commands; a read that succeeds is complete; the driver
  and the block device manager agree on the device; every call returns.
* *ministack, SMAP*: an accepted frame leaves whole, once and in order; a frame that
  arrived is handed up, once and in order; a packet of a connection goes to its server;
  nobody waits for ever for room.
* *ATA*: a command is reported done only if the drive has done it; it is timed out by its
  own alarm; the sectors moved are those asked for; every call returns.
* *history*: one record per title, no record lost, the least used one makes room, the
  launch count and its mask stay consistent.
* *MBR, patcher, launcher, loader*: a target is given up only when it is not there; what
  was found is found again by the program that opens it; an item comes from the file the
  menu was made from; options arrive as they were meant.
* *eGSM*: what the title shows fills the forced mode as it filled its own, and FIELD
  flips once for each vertical sync.

## Modules

| Module | Contents |
|---|---|
| `RequestChannel` | abstract specification: what the request layer relies on |
| `UdpRdma` | the socket, its caller, the receive handler and the alarm, with peer and network; implements `RequestChannel` |
| `UdpfsCore` | the connection, as the three front ends share it: one request is one exchange of `RequestChannel` |
| `UdpfsIoman` | the file device: handle table, file operations, chunked reads |
| `UdpfsBlock` | block requests, the semaphore of the file handle interface, the block device |
| `Udpfs` | the three builds of the driver over one connection |
| `UdpBd` | the UDPBD driver, with server and network |
| `TxQueue` | abstract specification: what `smap_transmit` promises |
| `SmapTx` | transmit ring and transmit memory; implements `TxQueue` |
| `SmapIntr` | interrupt, event flag, interrupt thread, receive ring, link check and negotiation |
| `Ministack` | ARP table, resolution, UDP callback |
| `Net` | the three together: the interrupt thread itself transmits |
| `Atad` | the ATA driver with drive, interrupt and alarm |
| `History` | the play history on two cards |
| `Console` | the machine the boot programs share: mount point, drivers, files |
| `Loader` | building and reading the loader's arguments; what the loader does with mount and power |
| `Mbr` | the MBR |
| `OsdMenu` | OSDMenu and HOSDMenu up to the launcher |
| `Launcher` | the launcher |
| `Egsm` | the video override under a running title |
| `Boot` | the five programs one after the other |
| `ModArithmetic` | lemmas on `%`, proved |
| `UdpRdmaInv`, `UdpBdInv` | inductive invariants of the two protocols |
| `UdpRdmaProofs`, `UdpBdProofs`, `HistoryProofs`, `UdpfsProofs`, `NetProofs`, `AtadProofs`, `BootProofs` | theorems |
| `MCUdpRdma`, `MCUdpBd`, `MCHistory`, `MCUdpfs`, `MCNet`, `MCAtad`, `MCBoot` | what TLC needs in addition: symmetry sets, inputs, starting states |

Composition: `UdpfsIoman` and `UdpfsBlock` extend `UdpfsCore`, `Udpfs` extends both;
`Net` extends `SmapTx`, `SmapIntr` and `Ministack`; `Boot` extends `Mbr`, `OsdMenu`
(which extends `Launcher`) and `Egsm`, over `Loader` and `Console`. `UdpRdma` and
`Udpfs` are joined by `RequestChannel`: the first is shown to implement it, the second
assumes of an exchange what it says.

## udprdma

**Source.** `udprdma.c` whole, and the shape of a request in `udpfs_core.c`
(`_send_recv`, `_recv_with_result`, `_write_with_combined_header`). The peer
implements the server of `udpfs/udpfs/UDPRDMA.md`, which is not part of the repository's code:
it is external, and so is the network.

**State.** The variables `state` to `hdrVal` are fields of `struct udprdma_socket`;
`flags` is its event flag and `alarm` says whether `_timeout_cb` is pending. `pc`,
`bits`, `sent`, `retries`, `kind`, `chunks`, `ret` are the thread and its locals. The
history variables `issued` and `rxN` count payloads handed over and stream packets
taken, without the wrap of the real sequence numbers; only properties and the network's
lifetime rule read them.

**Steps.** A thread step ends where another activity can observe or change what it
shares. Statements are merged only where nothing can come between them that matters:

* `_ist` is one step. The thread cannot run during it, and the alarm only adds the
  timeout bit, which `_ist` does not read.
* `udprdma_set_rx_buffer` writes `rx_buffer`, which is what `_ist` tests, *before* the
  size, the count and the window counter. So there are two steps: `CallRead` and
  `CallWrite` set the buffer, `SetRxBuffer` sets the rest, and in between `_ist` finds a
  buffer with the size and the count of the call before. The three assignments of the
  second step (and those of `udprdma_set_rx_app_header`, which come before the first) are
  not split further: `_ist` uses what they set only for a packet it expects, and none can
  arrive here (`InvArming`, `NothingArrives` in `UdpRdmaProofs`: the previous reply is
  complete and this request is not out). That argument rests on a peer that keeps to the
  protocol, and there is no other in the model.
* `udp_packet_send` and `SetAlarm` are one step: an alarm that has not been set cannot
  fire, and a reply that arrives before it is set only sets a bit.
* `CancelAlarm` is merged with what the thread does next where the two commute with
  every step of `_ist`. In `udprdma_send`, where the order of `CancelAlarm` and the
  clearing of the timeout bit is what keeps the alarm of a send from being seen by the
  receive, the moment between `WaitEventFlag` and `CancelAlarm` is kept (`send_cancel`).
* The wait in `udprdma_recv` and in `udprdma_discover` clears the whole flag on return;
  that is one kernel call.

**Data.** The n-th payload is the number n; a packet of the server's replies is its
index in `stream`. `rxSize` counts packets. Packets larger than the Ethernet limit do
not occur, the code never builds them.

**Network and peer.** `c2s` and `s2c` are sets of packets in flight. Receiving a packet
does not remove it, so packets are lost, repeated and reordered at will. A packet
disappears for good when the sender has moved more than `MaxLag` packets past it
(`Fresh`); without a bound of this kind no protocol with wrapping sequence numbers is
correct. `SeqSpaceAssumption` states how large the sequence space must be against it.
With 4096 numbers, a window of 8 and IP lifetimes far below the time 2000 packets take,
the real system meets it. The peer keeps at most `SendWindow` packets unacknowledged,
answers a request once it has all of it, resends at will, and acknowledges or refuses
what is out of order. A restart of the server, which forgets its sequence numbers, is
not modelled.

**Properties.** `ServedInOrder`, `CallComplete`, `AckHonest`, `FreshRecv`,
`DestOffersService`, `BufferReleased`, `CallReturns`, and `ImplementsChannel`: under
the mapping *phase* from `state`, *busy* from `kind`, *applied* from the length of
`served`, every behaviour of socket, peer and network is one of `RequestChannel`.
`BufferReleased` allows one exception the code has: after a failed send the buffer stays
set, and a late reply can be written into it. `CallComplete` is checked on one call
whose reply takes several packets (run `stream`); late packets of an *earlier* call's
reply do not occur there, for them it is the theorem `CallCompleteAlways`, for any number
of calls, that says they do not reach a later buffer.

**Fairness.** Weak fairness of the thread (the kernel runs a ready thread) and of the
alarm (it is a hardware timer). Nothing is assumed of network and peer. `CallReturns`
holds once no more packets are delivered (`QuietNetwork`): `udprdma_recv` sets its alarm
anew for each out-of-order packet, so an endless stream of those keeps the call alive.

## udpfs

**Source.** `udpfs_core.c`, `udpfs_ioman.c`, `udpfs_fhi.c`, `udpfs_bd.c` whole; iomanX,
`bdm` and the server are external, as far as this code relies on them.

**The connection.** `UdpfsCore` keeps only what the front ends see of the socket:
`conn`. A request with its reply is one exchange of `RequestChannel`, so it is answered,
or it is lost. After a loss the connection is down for good, because nothing calls
`udprdma_discover` again, and the server may or may not have served the request: both
are choices of the model.

**`UdpfsIoman`.** `fds` is `g_fds`, `privdata` what the code stores in the file structure
of iomanX, `op` the call in progress with its locals, `srvPos` the server's handles with
their positions. All calls come from the one thread that serves fileXio, so one call
runs at a time and the table needs no lock. A call is its local part (slot and handle
checks, the early returns) and one step for each exchange; `udpfs_core_read` makes
several. Results are the code's, with 64 bit values cut to an `int` (`IntMod`).

**`UdpfsBlock`.** Each thread has a program counter and a call; `sema` is `g_sema` with its
waiters in order, `rxOwner` says whose memory the socket holds. The file handle
interface looks at the connection, then waits for the semaphore, then looks again in the
core: two steps, between which the connection can go. The block device asks for the
size in bytes, keeps sectors in an `int` (`WordMod`), and clips a request at the end. A
failed read takes the device away from `bdm`; a failed write does not.

**`Udpfs`.** The Makefile links exactly one front end to the core; `build` says which.

**Properties.** `HandlesAgree`: driver, iomanX and server agree on what is open, over
refusals, failed opens, closes that cannot be told to the server and removal of the
driver. `ReadAccounted`: a read returns what it delivered, from where it began, also
when a later chunk of it failed. `OwnBuffer`, `NoRequestAfterLoss`: what the semaphore is
for. `ReadComplete`: a block read that returns its count has filled the buffer, although
the core counts a short reply as a full chunk; it holds because the block device clips a
request to its sectors first (`udpfs_bd.c`). The file handle interface (`udpfs_fhi.c:45-73`)
does not clip: there a full buffer rests on the caller asking inside the device, and no
property is claimed. `FhiReturns`: every call of a game returns.

**Fairness.** Weak fairness for each thread that can run: requests end, by a reply, by
the retries of `udprdma_send` or by the time limit of `udprdma_recv`.

## udpbd

**Source.** `udpbd.c` whole. `bdm_connect_bd`, `bdm_disconnect_bd` (the block device
manager) and the server are external. Flush and stop change no state.

**State.** `cmdid`, `connected`, `evDone`, `readPkt`, `readSize`, `buffer`, `got`,
`alarm` are the driver's globals (`g_cmdid`, `bdm_connected`, `g_ev_done`,
`g_read_cmdpkt`, `g_read_size`, `g_buffer`, what lies below `g_buffer_act`, the alarm);
`registered` is the manager's side. `cmd` counts commands without the 3 bit mask.
`g_errno` is only logged.

**Steps.** The receive thread runs at priority 8 (`smap.c:58`), above every caller, and
`udpbd_isr` does not block, so no caller moves while it handles a packet (`isr`). The
alarm is an interrupt and does run there, and unlike udprdma's it does more than add a
bit: it writes the `g_read_size` that `_cmd_read_rdma` counts down (358) and tests (359).
So a packet of a read takes three steps. `IsrData` checks it, stores its data and has the
difference in a register (`left`); `IsrStore` writes it, over the 0 of an alarm that fired
in between; `IsrTest` tests it. The variable is not `volatile`: the test may use the
register or read the memory again, and may then take an alarm's 0 for the end of the data.
Which one is the compiler's choice, so it is a nondeterministic choice here, and `misread`
records that it went wrong. The other branches of `udpbd_isr` write the same 0 as the
alarm or nothing it writes; they are one step each. The DMA transfer inside
`smap_fifo_read` belongs to another module (external) and is part of `IsrData`.

Arming a read is one step: until the request is sent no packet carries the new command
number, so nothing can pass `udpbd_isr`'s test in between. Sending and `SetAlarm` are
merged, as no alarm can fire before it is set and a reply in between only sets its bit;
and so is cancelling the alarm with clearing the receive state, except that the moment
between `WaitEventFlag` and `CancelAlarm` is kept (`r_woken`, `w_woken`): the alarm can
fire there and leave its bit for the next command. A write can fail before its request is
out or after: in the second case the server may still refuse it. Tear-down takes two steps,
because an announcement of the server can come between `bdm_disconnect_bd` and
`bdm_connected = 0`.

**Server and network.** A request goes to `requests`; a server that has it may send any
packet of the answer at any time, any number of times. Requests more than `MaxLag`
commands old no longer produce packets; `MaxLag < CmdMod` (8) is the assumption. Servers
announce themselves with any command number. Packets per block stay below the 8 bit
packet number of the protocol, because a block is at most `UDPBD_MAX_SECTOR_READ`.

**Properties.** `BufferInOrder`, `CleanReadComplete`, `BdmAgrees`, `BufferOwned`,
`CallReturns`. `BufferInOrder` is not "a prefix of the data": a packet whose size is over
`RDMA_MAX_PAYLOAD` uses up its number without being stored, and the packets after it are
stored though the attempt has failed. `CleanReadComplete` has two exceptions, both real:
reads that begin with an outcome left in the event flag (`clean`; see the finding below),
and `misread`, the race of the alarm with lines 358 and 359 in a build that reads
`g_read_size` twice. Without the second exception the run violates it: the alarm fires
between the store and the test of the first of two packets, and both bits end up set.

**Fairness.** As for udprdma, and here every call returns whatever the network does: a
packet out of order ends the attempt.

## net

**Source.** `smap/src/xfer.c`, `smap/src/smap.c` and `ministack/src`. The MAC, the PHY and
the other machines on the wire are external.

**`SmapTx`** is `smap_transmit` and the two functions it calls: take `tx_sema`, retire what
the hardware has sent, look for room in the ring and in the memory, copy, post, or give
the semaphore back and try again. The transmit memory is a ring of words, a word of a
frame is *(frame, position)*, so the model sees a frame that was overwritten before it
left. Ring indices wrap at `IndexMod` as the `u8` of the code do. It implements `TxQueue`:
*accepted* is the number of frames posted, *queue* the numbers of the frames that stand
whole in memory behind the BDs the hardware has yet to send.

**`SmapIntr`** is the event flag, the interrupt, the alarm and the thread. An interrupt is
delivered at any time it is enabled; the thread goes through the bits it has seen in the
order of the code: link check, EMAC3 and RXDNV, the loop over RXEND. A frame is counted by
the MAC before its BD is complete, which is why the thread must look at both.
`InitPHY`, its negotiation and the set-up of the 10 Mbps link are steps of their own,
because interrupts come between them.

**`Ministack`** is the ARP table with its fixed number of entries, `arp_resolve` in the
application's thread, and what the receive callback does. The interrupt thread has
priority 8, above every caller, so what it does between two waits is one step of the
others; the reverse is not so. Every INFORM until `STATE_CONNECTED`, and every DISCOVERY at
any time, sets `peer_ip` (`udprdma.c:112-147`). The application wakes up with the INFORM
(`Connect`), and only then reads `peer_ip` (`PacketInit`, 433), by then perhaps another
host's; `ip_dest` is that value, the argument by which `ip_packet_init` looks for the MAC
address and fills in the IP address, however `peer_ip` changes while it waits.

**`Net`** joins them: the callback answers an ARP request by calling `smap_transmit` on the
interrupt thread itself, which may have to wait there for room that only other callers
make, under the semaphore they hold.

**Properties.** `ImplementsTxQueue`; `NoFrameForgotten`: the thread never sleeps on a
complete frame; `RxInOrder`; `DestReaches`: packets of the connection carry
the MAC address of the host whose IP address they carry, or go to everyone, also when that
host never answers, the ARP table is full or the peer changes meanwhile (that the host is
the server is another matter: `doc_dest` shows that it need not be); `LateAnswerUsed`: an answer that
comes while it is waited for is used, the end of the last delay included; `NobodyStuck`:
callers return, the callback returns, frames in the ring are handled.

**Fairness** (`NetFairSpec`). Weak fairness of the interrupt thread, of interrupts, of the
application, of reception and of each caller that can run; of the wire, which sends what is
posted while the link is up. Strong fairness in two places: `tx_sema` comes free again and
again and each waiter gets it (waiters are served in order), and the chip that counts
errors at 100 Mbps does not do so at every look for ever; with weak fairness a link that
alternates would keep the thread in `InitPHY`, and the code has no limit there.

## atad

**Source.** `ps2atad.c`; the drive, the interrupt controller, the DMA channel and the FIFO of
the expansion bay are external.

**State.** `apc` is the place of the thread within one command, `script` the commands the
exported call has yet to run, `ev` the event flag, `armed` the alarm; `lba`, `nsectors`,
`blkcount` are what is left of the transfer; `exists`, `security`, `lba_48bit`, `inited` the
device information, `dir` the direction last set. `drv` and `fifo` are the drive and its FIFO,
`mem` says which block of the caller's buffer went to or came from which sector.

**Steps.** `ata_io_start` (select, arm, issue) and `ata_io_finish` in its four ways (no data,
DMA through the FIFO, PIO, status) are steps between which the interrupt, the alarm and
the drive can come. Every exported call is a script: a transfer is cut into commands
of at most 256 sectors with the addresses of the register format, in either direction;
`ata_get_devinfo` resets, probes, identifies and sets the mode, and has an action for each
way it ends: known already, a bus that stays busy (`NULL`, nothing changed), no drive, device 1
that cannot be selected (`NULL`, the drive found but not identified), a drive; unlock and
erase look at what is known of the security status first. The address registers are the bytes of the sector number, cut
by division; the constants of the shifts are parameters, so that TLC can have registers of
two values. The caller asks for sectors the drive has (`Addressable`): `total_sectors` is
never more than the address format reaches.

**The drive** takes a command or not, moves data at its pace, ends with or without an
error, sends an interrupt late, or never answers. An unlock may be accepted and leave
the drive locked.

**Properties.** `DoneMeansDone`: a command is reported done only if the drive has done it;
an interrupt left over from a command that was given up does not stand for it.
`TransferExact`: a transfer that returns 0 moved every sector to its place, and of a write the
last block has left the FIFO for the drive: the driver sees only that it handed it over, and
waits for the command's interrupt. The exception
is `abandoned`: after a time-out in the middle of a DMA the drive may go on filling the
FIFO, and those sectors are then taken for the next command's. `SecurityKnown`,
`TimeoutsOwned`, `CallsReturn`.

**Fairness.** The thread runs, interrupts that are pending and enabled arrive, the alarm
goes off. Nothing is assumed of the drive.

## history

**Source.** `history.c`: `processHistoryList`, `evictEntry`, `updateHistoryFile`. The
memory card and its file system are external as far as failures go.

**State.** For each card the history file (missing, short or full), its records, and the
titles in `history.old`; the program's position and locals. `written` and `failed`
remember what the properties need: titles a complete file ever had, cards where an
operation failed.

**Steps.** One per file operation that can fail: reading and processing, truncating,
writing; a loss of power can follow any. Masks are sets of bit numbers, `rand()` any
choice, and the scan for the record to replace is translated step by step, with the
timestamp that is not reset when a smaller count is found. Files have been written by
this program. The region letter, the icon and the directory are left out.

A complete file that cannot be opened or read whole is replaced by a new list
(`ProcessUnread`), as one that is cut short.

**Properties.** `OneRecord`, `NothingLost`, `VictimLeastUsed`, `BitsFollowCount`.
`NothingLost` excepts a card on which an operation failed or was cut short: the code
writes over the only copy and goes on after every failure, so on that card titles *are*
lost (`history.c:114`, `:140`, `:265`). What it says is that the loss stays there, and
that none comes without a failure.

**Starting states.** Besides empty cards, `MCHistory` starts from cards on which one title
was launched 13, 53 or 62 times: a mask bit is due, the last one is, the counter is about
to end. Dozens of launches lead there, and `HistoryProofs` covers all of them.

## boot

**Source.** `src/mbr/src`, `src/patcher/src` (start, configuration and launching),
`src/launcher/src`, `src/common/src/loader.c`, `src/utils/loader/src` with `egsm`. The ROM, its
OSD and the titles are external.

**`Console`** is what the programs share, and what survives from one to the next: the mount
on `pfs0:`, the drivers on the IOP, and the files of the console. Whether a file is there is
decided when it is looked at first and stays so; that keeps the state space small and
makes "the same file again" a question that can be asked. A new program may meet changed
files (`Forgotten`), except for the configuration between the menu and the launcher it
starts, where a card is not changed within the second that passes.

**`Loader`** is both ends of the hand-over: `BuildArgs` is what `loadELF` puts into the
argument list, `ReadArgs` what the loader takes out of it, letter by letter; then what the
loader does with mount, drivers and the power of the expansion bay until it starts the
file or dies.

**`Mbr`**, **`OsdMenu`**, **`Launcher`** have one action for each handler or call that changes
something: for the MBR start-up, fsck, the reading of the configuration line by line,
arguments of the ROM, choice by button, each kind of path, discs, and the ladder of
fallbacks in `execOSD`; for OSDMenu and HOSDMenu the search for the configuration, the
loading of the OSD and every way out of the menu; for the launcher the list of targets,
`initModules` with its bit test of `currentDevice`, each device handler, the quick boot
and the disc. An item of the menu is handed on as its number and the slot of the
configuration; menu and launcher search that configuration separately.

**`Egsm`** is the state of the breakpoint handler (`gsm`), the GS behind it (`gs`) and a
title that calls SetGsCrt, writes DISPLAY and SMODE2 and reads and acknowledges CSR in any
order. Positions and sizes are computed as in the code and cut to the fields of the register
(`Field`). A trapped `sd` with a negative offset is discarded (`DisplayDiscarded`,
`Smode2Discarded`): the handler does not extend the sign, takes the address for an unknown
one and goes on behind the instruction. The history `title` keeps what the title set as far
as it was not discarded.

**`Boot`** runs the programs one after the other.

**Properties.** `HandOver`: the loader reads the options that were given, and a file that
was opened before the loader started is found by it again. `ItemFromMenu`: an item
is looked up in the file the menu was made from (one exception, see
[observations](#observations-without-a-run)). `FallbackHonest`: the MBR falls back to
OSDSYS, and HOSDMenu to the recovery program, only for lack of what they should start.
`MissHonest`: the launcher gives a target up only if its file is not there, or for one of
the reasons it names. `ShownAsMeant`: pictures fill the forced mode as they filled the
title's. It speaks of pictures that suit the title's own mode (`Suits`: whole pixels of at
least four dots, an even number of lines, inside the visible area, each line repeated no
more often than two bits can say in the forced mode); what becomes of others is under
[observations](#observations-without-a-run). `FieldPerVsync`: FIELD flips once for each vertical sync.

**Fairness.** None; every property is about states.

## Checks

Deadlock is not checked in any run: each system may stop with no more calls to make, or
with a program that never returns.

| Run | Question | Bounds |
|---|---|---|
| `stream` | does a read deliver exactly its reply, and does it return? | one call with up to 2 packets of reply, send window 2, ACK window 1, 2 attempts, 5 sequence numbers |
| `calls` | can two calls be confused; is a request applied once and in order; does the system implement `RequestChannel`? | two calls, read or write, 3 sequence numbers, windows of 1, late packets of the first call during the second |
| `bd_safe` | UDPBD, safety and return of calls | 5 commands of 3 numbers, 2 packets in a block, 2 blocks, 3 attempts, lag 2, byte counter of 8 values |
| `udpfs` | the three front ends | 2 files on 2 slots with 3 handles, file of 2, chunks of 1; 2 threads, chunks of 1 sector, up to 2 sectors; devices of 2, 9 and 17 sectors in an `int` of 4 bits |
| `net` | both directions of the driver with ARP | 2 callers, rings of 2 BDs with indices of 4, memory of 5 words with frames of 1, 2 and 3; 3 hosts for 2 ARP entries, 2 attempts; eight loads that stress one side each and then both, each frame of a load once |
| `ata` | commands against an unreliable drive | 3 calls, registers of 2 values, FIFO of 2, transfers of 3 sectors either way, in two commands, across the carry into the last register of the short address format |
| `history` | eviction, counter, failures and power loss | 3 titles on 2 slots and 2 cards, 4 launches from empty cards, 3 from cards with titles of many launches (their past counts as one) |
| `boot` | the boot chain and the title under eGSM | ten kinds of path in the MBR's entries and up to 3 lines, nine kinds of target and lists of 2 in the launcher, all drivers, files and partitions there or not, six PATINFO files, eight eGSM arguments, NTSC and PAL titles, 720p as a mode eGSM does not support (not in a compatibility mode), a picture of 448 lines that only suits an interlaced mode and one of 224 that suits each |
| `doc_acked`, `doc_dest`, `bd_doc_read`, `boot_doc_paths` | each shows one statement of a document or comment violated | see below |

Why these bounds are enough to be of interest: the sequence spaces are the smallest
`SeqSpaceAssumption` allows, so numbers wrap; two attempts are the first and one repeat,
the least at which a repeat meets late answers of the first; a window of two is the least
at which packets of a reply overtake each other. Rings and tables hold two, so that they
are full, wrap and run over with three. Register widths are cut until a transfer of three
needs several commands and the upper address bits. In `boot` an entry has
up to three lines, enough for two paths and an argument, and a list two targets, enough
for one handler to leave something behind for the next. The retry counts differ from the
code's only where the number does not matter to the property. The inductive invariants of
the proofs have also been checked with TLC under the same bounds. Every property
has a mutant in `PROJECT.json`: a change of one definition, as a plausible slip in the
code would make it, under which TLC finds the property violated.

## Proofs

All theorems hold for every value of the constants that meets the named assumptions of the
modules (`BoundsAssumption` and `SeqSpaceAssumption` of `UdpRdma`, `UdpBdAssumption`,
`HistoryAssumption`, `UdpfsIomanAssumption`, `UdpfsBlockAssumption`, the assumptions of
`Net`'s parts, `AtadAssumption`, and for the boot chain `MbrAssumption`,
`LauncherAssumption`, `EgsmAssumption`). Where an argument is by induction over data (the arguments that
the loader reads, the records that the history scans, the first entry of a table), the
proof takes the least counterexample instead (`Smallest` in `ModArithmetic`).

* `ModArithmetic` proves what the SMT solver does not find by itself for a modulus that
  is a parameter: division with remainder, `ModUnique` (two numbers less than m apart
  that agree modulo m are equal), `ModNext` and `ModPrev`, division by a product
  (`DivDiv`), and that the digits of a number make up the number (`Places`).
* `UdpRdmaProofs!TypeCorrect`: `Spec => []TypeOK`, one lemma per group of actions. The
  state includes the wrapping sequence numbers, the window counter below its limit and
  the retry counter within its bound; `pc \in Sending => issued > 0` is the part that
  makes it inductive.
* `UdpRdmaProofs!Invariance`: `Spec => []IInv`, the invariant of `UdpRdmaInv`. None of the
  properties is inductive alone: a packet that is already on its way can break it. The
  parts that make it so: `InvControl` (what holds at each program counter), `InvTx` (`tx`
  is the number of the next payload, or of the current one while it is to be sent again),
  `InvClientPackets` and `InvPeerPackets` (every packet that can still arrive carries the
  wrapped form of its absolute position and acknowledges no more than its sender had
  taken), `InvWindow` (`base <= rxN`, and both ends within a window of each other),
  `InvServed` (the peer is behind by no more than the packets of one request, and not at
  all between calls), `InvReply` and `InvFin` (a FIN seen by the thread belongs to the
  current request, so all of the request has been applied). The heart of the argument is
  `ModUnique`: late packets are less than a turn of the sequence space away, so
  `seq_nr == rx_seq_nr_expected` and the peer's test accept only the packet they mean
  (lemmas `ExpectedIs` and `NextIs`), and an acknowledgement moves the peer's window only
  to where it was meant to (`AckedExactly`). Actions that leave the parts of the thread or
  of the network alone share the lemmas `QuietKeeps`, `QuietThread` and `QuietReceiver`.
* From it `AppliedInOrder` (`ServedInOrder`), `Acknowledgements` (`AckHonest`) and
  `Refinement` (`ImplementsChannel`): `ChannelStep` maps every step to one of
  `RequestChannel` or to a stutter; `RecvDone` needs `InvFin` to be `Succeed`, and
  `SrvAccept` needs `NextIs` to be `Apply`.
* `NoStaleTimeout` (`FreshRecv`) and `BuffersReturned` (`BufferReleased`) rest on a small
  invariant of their own, `Settling` and `Lent`: no alarm and no timeout bit from the
  clearing in `udprdma_send` to the first wait of `udprdma_recv`, and a buffer that is set
  belongs to a running call or to a failed send.
* `CallCompleteAlways` (`CallComplete`): a call that returns 0 has its own reply, whole and in
  order. `CallInv` follows the reply through the socket: what the peer has sent answers
  payloads it applied, with one header to a reply (`InvStream`), every packet that is still
  to come belongs to the call that runs, fits its buffer and does not exist before the
  request is whole (`InvPending`), the buffer holds exactly the payloads of this reply that
  were taken, in order (`InvHeld`), the header word is that of this reply (`InvHeader`), and
  EF_RX_FIN means that there is a reply (`InvEnd`). `IInv` supplies which packet is accepted.
* `UdpBdProofs`: `Invariance` (`Spec => []IInv`), and from it `TypeCorrect`,
  `BufferCorrect`, `ReadsComplete`, `Agreement`, `Ownership`. The parts of the invariant:
  `InvCmd`, with `ModUnique`, makes the 3 bit comparison in `udpbd_isr` as good as one of
  the full command numbers; `InvRequest` says what is being answered is what is waited
  for, and that a buffer left set by a failed send has no request that could fill it;
  `InvBuffer` keeps packet numbers below the next one expected; `InvSize` is the argument
  about the unsigned counter and its copy in the register: either every packet so far was
  stored and the rest is still to come, or an error has emptied it, and then it wraps on the
  next packet and cannot come down to zero again within the packets of a block; `InvIsr`
  says that between the store and the test only an alarm can have changed it;
  `InvDone` and `InvBdm` carry
  the properties; `InvLoop` bounds the retries.
* `UdpfsProofs`: `OwnBufferAlways` and `NoRequestAfterLossAlways` for any number of threads
  and any sizes, from `Guarded`: at most one thread is inside the core, while it waits
  the socket holds its buffer, it sends only on a live connection, and a free semaphore
  means nobody is inside. `HandlesAgreeAlways` for any number of files, slots and handles,
  from `Tables` (slot, iomanX's private data and the handle an open returned tie together
  one to one; while the connection lives so does the server's table) and `Ops` (the slot
  that an open in progress has chosen is free until its reply comes, and the file a call
  works on stays open). `ReadCompleteAlways`, for any size, chunk and device, from `Filling`:
  the sectors a call has done hold what was asked for, and a positive result stands for
  all of them. `ReadAccountedAlways` from `Reads`: what a read has delivered is consecutive
  from where it began, and the server stands behind it.
* `NetProofs`: `RxInOrderAlways` and `NoFrameForgottenAlways` for rings of any size whose
  index wraps at a multiple of it. `Ring` writes the occupied part of the ring as a
  distance modulo its size between the thread's index and the hardware's
  (`ModShift`, `ModTurn`), `Flow` says that the thread sleeps only where an interrupt
  can wake it, `Heard` that a complete frame has its RXEND asserted or the thread is
  emptying the ring. `ImplementsTxQueueAlways` is the refinement of `TxQueue`, from `TxInv`:
  one caller at a time is in the driver (`TxTurns`), the ring is a run of frames that are
  gone followed by one of frames that are READY (`TxRing`), the frames lie behind one another
  in the used part of the memory, which wraps in the middle of a frame, and those still to
  be sent are undamaged (`TxMemory`, `TxCopied`). Each step then maps to one of the queue
  or to a stutter. `DestReachesAlways` from `Resolving`: every ARP entry keeps an address
  with its own host, and the packet goes to everyone until the address it is to carry has
  been looked for; `peer_ip` does not occur in it.
* `AtadProofs`: `TimeoutsOwnedAlways` from `Alarms` (the alarm is set only within a
  command; a timeout bit seen during the wait is that command's own and its alarm is
  gone) and `DoneMeansDoneAlways` from `Drive` (what the drive is doing at each place of
  the thread, for any register widths, FIFO and transfers). `SecurityKnownAlways` from
  `Scripts` (which commands can follow which within a call) and `Security` (a drive that is
  locked, or may be unlocking, is known to be locked). `TypeCorrect`, and from it
  `TransferExactAlways`: buffer and rest make up the request (`Placed`), of a read the FIFO
  holds the sectors that follow those in the buffer and the drive goes on after them
  (`Reading`), of a write it holds the last blocks handed over, which the drive is still to get
  (`Writing`), a
  command that ends well has moved all of its own (`Phases`), and no drive moves sectors for
  a command of the past unless a transfer was abandoned (`Quiet`). That the registers name
  the sector that was meant is `RegistersRead`: `Places` for either address format.
* `HistoryProofs`: `OneRecordAlways`, `BitsFollowCountAlways`, `NothingLostAlways` for any
  number of titles, slots, cards and launches. The invariant `Lists` says that every list,
  on a card or in memory, is good: one record per title, and the number of mask bits is
  one plus the number of the counts 14, 24, 34, 44, 54 that have been reached; `Kept` that
  a title that was ever written whole is in the list or in `history.old`, or the card has
  failed. These three use of the scan for a victim only that it picks a slot.
  `VictimLeastUsedAlways` is about what it computes: the slot kept so far has the smallest
  count among those passed (`AtLeast`), although the timestamp it compares may be stale.
* `BootProofs`: `FieldPerVsyncAlways`, for any options, picture sizes and modes, from
  `FieldInv`: with the flip of mode 1 a sync that is pending is one the title has not been
  told of; with that of mode 2 it is so as long as the handler saw the bit clear at its
  last look; without a flip none of these bits moves, and with one a title is running.
  `ItemFromMenuAlways`, for any files, partitions, drivers and arguments, from `MenuInv`:
  the slot leads back to the file that was found (`Chosen`), the launcher starts with the
  item of that slot and, at the configuration on the disk, with pfs0: free and the
  drivers loaded (`Handed`), and only a program that has not started the launcher can be
  followed by another (`Programs`). One lemma, `Kept`, carries the argument across
  every action that looks at files: what was found stays found.
  `HandOverAlways`, `FallbackHonestAlways` and `MissHonestAlways` from `BootInv`, for any
  configuration, files, partitions and SYSTEM.CNF: what is mounted at each place of each
  program (`MbrMounts`, `MenuMounts`, `LauncherMounts`), and that a program handed to the
  loader after it was found lies on a partition that is there and free, or on a device
  whose drivers are loaded (`Handing`, `Findable`). That `ReadArgs` takes out of the arguments
  what `BuildArgs` put in (`Agreement`, `HeardIsMeant`) is a lemma about the recursive
  function that reads them. The exceptions in the properties come back as cases of the
  invariant (`LeftByXOSD`, `HeldByDisc`).
  `ShownAsMeantAlways`, for any titles, modes, pictures and options, from `PictureInv`: while
  the handler is in charge of a mode it supports, the forced mode fits the title's (`Fits`),
  the factors are those of the two modes (`Scaled`), what the title wanted is kept and shown
  scaled (`Shown`), and the title's mode is the one the handler works with, unless a write to
  SMODE2 was discarded (`OwnMode`). `ScalingIs` is what `update_scaling` computes on modes
  that fit, and that it does not divide by zero there; `ComputedIs` that the integer divisions
  of `mod_DISPLAY` lose nothing; `InRange` and `ModDisplayIs` that no size or position leaves
  its field of the register, so that cutting it to the field changes nothing. The last three
  hold for a picture that `Suits`.

The proofs of a step have one lemma for each action or group of actions and one step for
each part of the invariant.

Only model-checked: all liveness (`CallReturns` twice, `FhiReturns`, `NobodyStuck`,
`LateAnswerUsed`, `CallsReturn`), which needs fairness and ENABLED, and the four statements
of documents that the code does not keep. Every other property of a run is a theorem.

## Disagreements between code and documents

* `doc_acked`: `udprdma.h:69` says `udprdma_send` blocks until acknowledged. The check
  for stale acknowledgements (`udprdma.c:487`) computes a 12 bit difference in an
  `int16_t`, which is never negative: any ACK, one of an earlier packet too, ends the
  wait. The layers above survive it, because a call succeeds only with its reply.
* `doc_dest`: `udpfs/udpfs/UDPRDMA.md:125` says the client takes the address from INFORM. `_ist`
  also stores the sender of any DISCOVERY for the service (`udprdma.c:118`); between
  INFORM and `udp_packet_init` another console can become the destination.
* `bd_doc_read`: `udpbd.c:105` waits for data, but the event flag is not cleared before a
  command: an outcome that came too late for the previous command completes the next.
* `boot_doc_paths`: `src/mbr/src/main.c:116` says that all paths of an entry are tried, and
  `src/mbr/README.md:25` that several are supported. The loop passes `args[0]`, which holds
  the first path and is never set again.

## Observations without a run

Met while modelling; the models do what the code does. None has a run of its own, because
no line of a document says otherwise, or because it lies in an abstraction.

Network and drivers:

* `udp.c:25` marks a socket used before its handler is set; a packet in between calls NULL.
* `udprdma.c:365`: when `CreateEventFlag` fails, the UDP port stays bound.
* A failed `udpfs_bd_write` does not tell `bdm` (`udpfs_bd.c:69`), a failed read does.
* Nothing sets `NetDevStopFlag`; `HandleRxIntr` always returns 0, so the counter of the link
  check is never reset by traffic; the result of `arp_resolve` is not looked at, and packets
  then go to the broadcast address, which works.
* ATA: `ata_devinfo_init` is not reset for a new card; the time-out of a command without data
  leaves the LED on (its alarm has gone off by then); an erase whose preparation failed
  passes no buffer to identify; the longer time limit for command 0xf4 never applies.

History: the scan for the record to replace does not reset its timestamp when it finds a
smaller launch count (`history.c:208`), so among equals it can pick a younger one than the
comment in `history.c:212` says.

MBR and launcher:

* `main.c:106` reads the first path of an entry, which is missing when the entry has only
  arguments; `handler_cdrom.c:223` may copy from NULL.
* A PATINFO `BOOT2 = pfs` needs a "/" after it; an "Opt" argument needs another behind it.
* `handler_bdm.c:61-70`: with a wildcard the second unit is never tried after a first one
  without the file.
* `init.c:195`: `currentDevice` is compared by any common bit, so after an `ata` path the
  drivers for a partition are taken to be there; `init.c:199` tests one bit twice.
* `startXOSD` leaves the partition mounted when it fails, and `execOSD` then cannot mount it
  (`common.c:245`), which is the exception in `FallbackHonest`.
* `-noflags` clears the flags for good, also for the fallbacks; `-xosd` of the launcher does
  not count the argument it took away (`common.c:369`); `-gsm` is dropped when PATINFO names
  the program to start; a file that does not open in the quick boot leaves its partition
  mounted, without effect.

Patcher and eGSM:

* `settings.c:111`: the comment says `mcSlot` names the device of the configuration; after a
  start from the XFROM with the configuration on the first card it still names the XFROM,
  and the launcher does not find the item. The same happens when OSDMenu could not read the
  XFROM because its drivers had failed: the launcher loads them again and, if that succeeds,
  looks the item up in the file of the XFROM. This is the exception in `ItemFromMenu`.
* `unpackOSDR` does not advance over a record of an unknown type; `patchAddresses` may follow
  NULL without an OSDSYS record; `path` is matched before `path_DKWDRV_ELF`; the final `memset`
  of `loadConfig` starts from an advanced pointer; `getCNFString` stops at the first syntax
  error where the launcher's reader goes on; `args[10]` in `patchExecuteOSDSYS` is shorter than
  the list it may get; the DVD handler is not hooked, against the comment `patches_gs.c:72`.
* eGSM: a SetGsCrt with a mode it does not support does nothing at all; with `1080ix1` each
  write to SMODE2 after that halves the height again, down to a division by zero; with
  `fp1` a title that goes from frame to field by SMODE2 gets a magnification of 0,
  which the register takes for 4 (the exception in `ShownAsMeant`); a picture with more lines
  than the visible area of its own mode, 448 without interlace for one, gets a negative
  position that the field wraps, and a line shown twice in a mode of 240 lines would need a
  magnification of 8 under 1080i, for which the register has no bits; an instruction other than `sd` and `ld` takes the breakpoints
  away until the next SetGsCrt; an
  access with a negative offset is silently discarded; JALR always writes r31, J
  ignores the upper bits of the PC, and a branch it does not know continues at 0. The
  README lists compatibility mode 3, whose code is commented out.

## Not modelled

* **Patches of the OSD** (`patches_*.c`, `gs.c`, drawing): they search a loaded ROM image for
  instruction patterns and write instructions into it. What could go wrong is whether a
  pattern matches, which a model cannot know. `splash_bmp.h`, 16 717 lines and nearly half
  of what counts as implementation, is one picture.
* **MBR encryption** (`crypto.c`): a computation over bytes.
* **Text formats**, except where a decision depends on more than one line: a path or option
  is a member of a small set. Left out are the settings that only change what is shown,
  the grouping of configuration entries, argument lists in PATINFO, `initializeOSDConfig`.
* **Devices** that behave as another: MMCE, MX4SIO, iLink as USB. In the ATA driver: device 1,
  packet devices, the security commands of Sony drives, and how long polling loops look.
* **Builds** that are switched off: embedded configuration, IOPRP images, DHCP in ministack
  (compiled in, never started), the console on UDP.
* **Restart of a UDPRDMA server**, which forgets its sequence numbers: the client has no
  code for it, a connection that is lost stays lost.
* **PS1VN, installer, scripts**: straight-line programs without state that outlives them.

## What is left

* The type invariants of `Boot`, `Net`, `Udpfs` and `History` in full as theorems: of these
  modules only the parts of the types are proved that the theorems above need.
* A model of UDPBD and UDPFS under the launcher's driver reset, if the launcher ever
  reconnects.
