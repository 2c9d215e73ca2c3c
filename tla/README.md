# utooth in TLA+

utooth is a Bluetooth host stack for an MSP430F5438 with a CC256x controller on
a UART. It has no operating system: one program (`btdev.c`) and two interrupt
handlers share a few global structures, and everything above the UART (the HCI
parser, L2CAP, RFCOMM) runs *inside* the receive interrupt. Most of what can go
wrong follows from that, and is what these modules are about.

Paths below are relative to `utooth/` in the repository.

## Inventory

| Component | State | Operations | Shared with |
|---|---|---|---|
| Byte queue (`src/cq.c`) | `start`, `end`, `curfreesize`, `buff` | add, delete, discard, peek, reset | program and both interrupts |
| Transmit path (`src/hal_uart_dma.c`, macros in `include/hci.h`) | `tx_q`, GIE, UCTXIE, UCTXIFG | `hal_uart_dma_send_data`, `hci_send_data_chk`, TX half of `USCI_A2_ISR` | program, receive interrupt |
| Receive path and parser (`src/hal_uart_dma.c`, `src/hci.c`) | `rx_q`, `readblksize`, `evt_state`, RTS, UCRXIE | RX half of `USCI_A2_ISR`, `set_read_blk_size`, `hci_rx_pkt_handler` | nested receive interrupts |
| HCI commands and events (`src/hci.c`) | `conn_info[2]`, `sys_stat`, inquiry list, `hci_cmd_buff` | commands from the program, event handlers from the interrupt | program, interrupt |
| ACL reassembly (`src/hci.c:890-941`) | `l2cap_pkt_buff`, `l2cap_buff_index`, `l2cap_len` | first and continuing fragments | all connections, replies |
| L2CAP (`src/l2cap.c`, `src/list.c`) | channel pool, per-channel state, identifiers | signalling handlers, requests | program, interrupt |
| RFCOMM (`src/l2cap.c:709-1308`, `src/rfcomm.c`) | session and parameter state, `credit_cnt` | SABM/UA/DM/DISC/UIH handlers, messages | one counter for all sessions |
| Main program (`src/btdev.c`) | `sys_stat` | bring-up, buttons, `wait_until_idle` | interrupt |
| Service patch, debug port, board support | none the stack reads | | |

**Hard behaviour.** Interrupts nest, because sending re-enables them even inside
a handler; counters of the queues are changed by several contexts; a busy wait
on a full queue can run inside the interrupt that would have to empty it; the
receiver is opened and closed by hand and a single forgotten call stalls the
stack; shared packet buffers are read and overwritten by replies; tables are
searched and claimed in two steps.

**What makes each part correct.** Queue: the three counters agree and bytes keep
their order. Transmit: every byte accepted reaches the wire once, in order, and
sends terminate. Receive: the parser stays aligned, the receiver never stalls,
a handler is never re-entered. Connection table: a slot has one owner, the
program's wait ends exactly when its own request did. Reassembly: a packet is
processed exactly when it is complete, from its own fragments. L2CAP: a channel
entry belongs to one connection, negotiation reaches the open state on both
sides. RFCOMM: the peer is never starved of credits and never granted more than
it may use; every request is answered once.

## Modules

| Module | What it is |
|---|---|
| `CircularQueue` | `cq.c` as operators on a queue record, with 16-bit counters |
| `CircularQueueProof` | what every operation of `cq.c` keeps, for every buffer size |
| `ByteStream` | abstract: a bounded first-in first-out stream |
| `UartTx`, `MCUartTx` | the transmit path; implements `ByteStream` |
| `UartTxProof` | its inductive invariant and theorems |
| `PacketFeed` | abstract: every packet handled once, in order |
| `HciRx`, `MCHciRx` | the receive path and the parser; implements `PacketFeed` |
| `HciRxProof` | its inductive invariant and theorems, the steps of `PacketFeed` |
| `ConnTable`, `MCConnTable` | the connection table, inquiry list and `sys_stat`, shared by the program and the event handlers |
| `ConnTableProof` | its inductive invariant and theorems |
| `AclReassembly`, `MCAclReassembly` | fragments of L2CAP packets in the one shared buffer |
| `AclReassemblyProof` | its inductive invariant and theorems |
| `RfcommCredit`, `MCRfcommCredit` | the credits of RFCOMM data, against a peer that spends them |
| `RfcommCreditProof` | its inductive invariant and theorems |
| `ListPool` | the linked lists of `list.c` as operators on a heap |
| `ChannelPool` | abstract: every channel entry is free or in the list of one slot |
| `L2capSignal`, `MCL2capSignal` | L2CAP signalling of the device and its peers; implements `ChannelPool` |
| `L2capSignalProof` | its inductive invariants: channel numbers and answers, the lists of the pool (`PoolSpec`), the channels peers were promised |
| `Fcs` | the frame check sequence by table, compared with the polynomial |
| `RfcommFrame` | reading and writing RFCOMM frames in the shared buffer |
| `RfcommSession`, `MCRfcommSession` | the RFCOMM multiplexer against a peer |
| `RfcommSessionProof` | what the sum is for every sequence of octets, what every frame is, its inductive invariant and theorems |

### CircularQueue

A queue is a record of the four fields that change. `cq_add` exists whole and as
its two halves, `AddStore` (byte and `end`) and `AddCount` (the write-back of
`curfreesize--` from the value loaded), because an interrupt can come between
them. Bytes are numbers: their position in the stream, not their value. Counters
are computed modulo `UINT16_MOD`, which every configuration sets to 65536; it is
a constant only because provers choke on the numeral.

### UartTx

State: `tx_q`, the interrupt enable bits, the UART (`ucTxIfg`, `txBusy`), and
for each producer (`main`, and `rx`, the receive handler sending replies) its
place in the code, the chunks of its packet that are not queued yet, and the
locals of `hal_uart_dma_send_data`. One action per atomic piece of code:

| Action | Code |
|---|---|
| `MainSend`, `RxIsrEnter`, `RxSendMore` | a packet begins: one of the senders of `hci.c`/`l2cap.c` is called |
| `WaitNotFull` | `while(cq_is_full(&tx_q));`, `hci.c:170` |
| `Snapshot` | disable interrupts, take the free size, cut the length |
| `AddByte`, `CountByte` | one turn of the loop: the two halves of `cq_add`, interrupts off before, on after |
| `EnableInterrupts`, `EnableTx` | lines 181 and 182, and the retry loop of `hci_send_data_chk` |
| `TxIsr` | case 0x04 of `USCI_A2_ISR` |
| `RxIsrReturn`, `UartReady` | RETI; a character has left the shift register |

Assumptions, each visible in the module:

* `ReplyIsSafe` - a reply starts only when `main` is not sending, and a reply
  that is a command (`send_hci_cmd`) does not start on a full queue. *Nothing in
  the code establishes this.* `Unrestricted = TRUE` drops it; run
  `uart_tx_check` shows that the program's own assertion then fails.
  `TransmitterArmed` fails with it: an interrupt empties the queue before UCTXIE is
  set, and its handler consumes UCTXIFG for nothing.
* `CharTimePasses` - no character ends in the dozen cycles between the last
  `cq_add` and the enabling of UCTXIE (a character takes about 1400 cycles at
  115200 baud and 16 MHz). Without it the transmitter can starve even alone.
* `BUFFSIZE >= 3`: with a queue of one byte the interrupt can empty it in that
  same window.

Fairness: the processor runs (weak, for each producer and for RETI); a pending
enabled interrupt is taken before the interrupted code goes on (strong, for
`TxIsr`, because the code keeps toggling GIE); the UART finishes its character
(strong, because `CharTimePasses` closes and opens with each retry). Nothing
makes `main` send or the peer provoke replies.

### HciRx

State: `rx_q`, `readblksize`, `evt_state`, the length the parser keeps, RTS
(`stop`), UCRXIE, GIE, and a stack of unfinished payload handlers (`frames`).
The controller offers events and ACL packets and sends their bytes while RTS
lets it; one character may be on the line and one in the receive buffer when RTS
rises. Header steps of the parser finish within their interrupt; a payload
handler is split where a nested interrupt can come: its work, `set_rx_state`,
`set_read_blk_size`, the return. A byte that is taken for a packet type without
being one reads as any type. Payload handlers are taken to consume exactly their
payload (or reset the queue); the event handlers that do not are under
"hazards". Two kinds of ACL packet are not offered:

* one whose packet boundary flag is neither "first, flushable" nor
  "continuing". `hci.c:894-930` has no branch for it and would leave its payload
  in `rx_q`, to be read as the next header. A controller sends the two others;
* one of length 0 (`AclLengths` in the configuration, `Fits` in the proof). After
  `set_read_blk_size(0)` the payload step would run on the first byte of the next
  packet. An L2CAP packet has four octets of header at least, and a fragment is not
  empty.

Fairness is weak throughout: a running processor and a controller that goes on
with a packet it began. It need not offer packets, handlers need not reply.

### ConnTable

State: `conn` (address, status, handle and error of each slot of `conn_info`),
the inquiry list (the array `inq` of addresses and its counter
`inquiry_results`, an octet), `sys_stat`, where the program is, and a controller
that remembers what it was asked: an inquiry, name requests, pages, live links.
`torn` and `wild` record two mistakes the code could make: sending a packet type
with no packet behind it, and accessing `conn_info` or the inquiry list outside
its bounds.

| Action | Code |
|---|---|
| `send_inquiry_request`, `wait_until_idle`, `PressS2` | `btdev.c:243-263`, `hci.c:1035-1050` |
| `FindSlot`, `ClaimSlot`, `SendCreate`, `SetBusy` | `create_connection`, `hci.c:960-1033`, cut where an interrupt can come between search, claim, command and `sys_stat` |
| `InquiryResult`, `InquiryComplete`, `RemoteNameComplete`, `ConnectionRequest`, `ConnectionComplete`, `DisconnectionComplete`, `DroppedEvent` | the event handlers of `hci.c`, each whole, because main does not run before they return |

An inquiry result event carries up to `MaxResponses` responses. A full list drops
the event. One that would overflow the list has its responses cut off for the
store (`StoreResponses`, `hci.c:398-402`), but not for the counter
(`CountResponses`, `hci.c:472`), which adds the number the event came with. At the
end of the inquiry the names of `inquiry_results` entries are asked for, those
behind the array included (`AskNames`, `Beyond`, `hci.c:764`).

The code relies on seven things it does not establish. Each is a member of
`Assumed`, and leaving out any one of them breaks a checked property, so that
none is idle:

| Assumed | Without it |
|---|---|
| `replies`: no handler that sends runs inside a packet of main | two owners find the same slot free: `PendingFound` |
| `buttons`: S1 is pressed for a device not in the table, with a slot free | index -1 is used: `TypeOK` |
| `handles`: a new handle is not the stale one of another slot | `HandleNamesLink` (run `conn_handle`, a finding) |
| `results`: no event has more responses than a list that is not full has free entries | `ListCounted` (run `conn_inquiry`, a finding), then `TypeOK`: the names of entries behind the list are asked for |
| `known`: who asks for a connection was found by the inquiry | a torn packet, after which nothing is specified: deadlock |
| `page`: a page takes longer than main needs to set `sys_stat` | main spins for ever: `WaitEnds` |
| `retry`: a device whose connection failed does not ask again | a second slot for it: `OneSlotPerPeer` |

`replies` shuts out every handler that claims a slot, because each of them also
sends, while main is between its search and its claim. What happens if one does
come in between is therefore covered by no property: the packets of main are
torn on the wire, and neither the code nor its documents say what follows (the
hazard at `hci.c:979`). Nor does a property cover the slot a failed connection
leaves behind; `SlotsNotLeaked` names it as its exception.

Fairness: the processor runs (weak, every step of main but the button); the
controller answers an inquiry, a name request and a page (weak). Nobody has to
press a button, request a connection or close one.

### AclReassembly

State: `l2cap_pkt_buff`, `l2cap_buff_index`, `l2cap_len`, what of its packet each
peer has sent, and whether `main` is building a request. An octet is a record of
its sender, its packet and its place, so a buffer with a foreign or stale octet
differs from the packet that was sent. `due` is the packet an ACL packet
completed, `processed` what `process_l2cap_pkt` was called on; the property is
that they are equal after every step.

| Action | Code |
|---|---|
| `FirstPacket` | `hci.c:894-916`: whole packet (appended, processed, cleared) or first fragment |
| `ContinuingFragment` | `hci.c:917-930` |
| `ConnectRequest` | `l2cap_connect_request`, called by the connection complete handler |
| `BuildSabm`, `BuildHeader` | `rfcomm_connect_request` in `main`, which an interrupt can split |

Assumed, because nothing in the code sees to it; without any one of them
`Reassembled` fails: `turns` (a packet is whole before another begins, on
whatever connection), `quiet` (no connection completes between fragments),
`still` (no ACL data comes in while `main` builds its request, nor the other way
round). First fragments contain at least the L2CAP header, as Bluetooth demands.
That what `main` *sends* from the buffer is what it built is not stated: an
interrupt may clear the buffer meanwhile (see the hazard at `l2cap.c:1681`).

### RfcommCredit

State: `credit_cnt`, which is one for all sessions, and per session its state,
the credits the peer has, and how many data frames, P/F frames and grants are
under way. `Count` is the UIH branch: a full counter sends a grant of
`MAX_CREDIT_CNT` and is set to 0, then the frame is counted. `Open` stands for
the PN exchange that gives the peer its first credits. Frames of one session
keep their order except that P/F frames, which change nothing, are counted
apart. The peer is external: it sends while it has credits, may send credits of
its own in P/F frames, and need not send at all.

Assumed in the passing run: one session at a time since start-up, and
`PfCost = 0`, that is, the peer puts no data into a frame that carries credits
(the branch at `l2cap.c:928` would not count it). Run `rfcomm_credit_two` drops
the first.

Fairness is weak: a frame that arrived is handled, a grant sent arrives.

### ListPool, ChannelPool and L2capSignal

`ListPool` has the three operations of `list.c` that the program calls, on
`head`, `next` and `prev` of a static array, `prev` of the heads left out because
nothing reads it. Entry 0 is NULL. `Chain` is a list as a traversal sees it, cut
off where a cycle would not end.

State of `L2capSignal`: the heap, the fields of the entries (`chan`), the
counters `l2cap_cur_cid` and `l2cap_sig_id`, `tmp_chid`, and per link whether it
is up, the messages under way in each direction, the channels the peer knows, and
the peer's requests that have no answer. A message is a record; handlers are
whole, because they run one after the other (`HciRx`). `l2cap_state` and
`l2cap_substate` are written and never read and are left out.

| Action | Code |
|---|---|
| `LinkUp` | connection complete (`hci.c:630`) and `l2cap_connect_request`: entry first, nothing sent without one |
| `ConnectionRequest` | `l2cap.c:251-307`: number drawn, "success" and a configuration request sent, with or without an entry |
| `ConnectionResponse` | `l2cap.c:308-378`: `tmp_chid` set whatever the result, configuration begun after success |
| `ConfigurationRequest` | `l2cap.c:379-492`: `get_options` keeps the bits of earlier packets, so an option refused once is looked at again |
| `ConfigurationResponse` | `l2cap.c:493-556`: `conn` is uninitialised, so any entry or none may take the options |
| `DisconnectionRequest`, `EchoRequest`, `InfoRequest`, `CommandReject` | `l2cap.c:235-250`, `557-704` |
| `rfcomm_connect_request` | button S2, which looks the channel up under an octet of `tmp_chid` |
| `LinkDown` | the controller; the program frees no channel |

Where the pool is empty the code writes to and reads from addresses near 0. The
model lets such a request have any answer, for the channel asked for or none; it
does not let those writes damage anything else. The peer keeps the protocol: it
answers each request once, does not use a number again before the link goes
down, and takes the value it is refused with. It has no code of the device.

Fairness is weak: what was sent is delivered and handled (`Receive`,
`PeerReceive`), and a peer that has a channel configures it. Nobody has to open
a channel, press the button or lose the link. A link that goes down ends what
was open on it, so `ChannelsConfigure` does not need links to last.

### Fcs, RfcommFrame and RfcommSession

`create_fcs` walks a table of 256 octets. `Fcs` has the table as the source has
it and the reversed polynomial bit by bit (`ReferenceFcs`). The bit operators of
C are arithmetic on the bits of an octet (`Bit`, `Xor`, and `Or` in
`RfcommFrame`), so that the provers can reason about them. One assumption is about the 256
numbers of the table, and TLC evaluates it: each is an octet and what eight
steps of the polynomial make of its index, and the value `verify_fcs` looks for,
0xCF, stands at the last index only (`TableAssumption`). What the sum is for
sequences of any length is proved from it.

`RfcommFrame` keeps the octets, because the code builds an answer *in the buffer
that holds the question*: an operator takes a buffer and returns what the C
function leaves, and what no macro writes stays. That is the level at which
lengths, offsets and sums can be wrong, and where a SABM gets an address nobody
wrote.

State of `RfcommSession`: the buffer, `connect_initiate`, `pn_config`,
`rfcomm_state` and its transition, `credit_cnt`, the frames under way, what the
peer knows, and its commands without an answer. One action per branch of
`process_l2cap_pkt` for the RFCOMM channel (`l2cap.c:709-1308`), named after the
frame or message it receives; each ends with the `memset` of `hci.c:914`, which
is `processed`. The peer is written from the protocol, and builds and reads frames
without the device's operators (`PeerFrame`, `Info`, the reference sum).

What the model shows of the code, beyond its properties:

* Two cases of the switch over message types are nested in an `if`: the brace
  opened at `l2cap.c:1014` closes at 1238. A PN request with
  credit support 15, the usual one, is therefore handled by the code of RPN
  commands: its last two octets become 0x7F and 0x3F, and it comes back as a
  *request*, which the peer has to answer before it is confirmed. In a session
  the peer has opened the confirmation does come (`PnConfirmed`). In one the
  device has opened it never does: `l2cap.c:1018` takes the peer's answer for the
  one to the device's own request, sends an MSC and returns before the response
  of line 1073. `PnConfirmed` is restricted to the former and fails without the
  restriction. The peer may ask in
  either, before it has the data channel (`PeerAsksPn`); its record keeps the
  request it made (`peer.pn`) apart from its answer to the device's
  (`peer.ours`), and while it waits for a confirmation it does not close the
  session. RPN requests are not answered at all.
* `is_valid_pn` never changes a parameter.
* The octets of a SABM's address and of a PN's timer are never written. They are
  right because the buffer is cleared after each packet, by a `memset` under the
  comment "TODO:Remove below" (`NothingStale`, whose mutant removes it).
* The reserved bits of an RPN's data format come from the sum of the frame that
  was answered, which stands at that place.
* An MSC command is answered with a response *and* a command. Against a peer
  that answers commands once this settles (`Settles`); two of these devices
  would go on for ever.
* Where the device did not open the channel it sends its own MSC command with
  the C/R bit of an initiator, contrary to the table of `rfcomm.h:385-396`. The
  peer of the model, like the device, does not look at that bit.

Assumed: no frame is lost (L2CAP's reliable link), frames keep their order, and
the request of button S2 is one step although an interrupt may split it (the
hazard at `l2cap.c:1681`). Of the peer (`SessionAssumption`): a message besides PN
has a type of one octet with its two low bits for EA and C/R and at most 125
octets of parameters (its length octet is not extended), and an MSC has the DLCI,
the signals and possibly the break octet. The buffer of the model holds 14
octets: of a longer message the device reads nothing further back.

Fairness: a frame that is under way is taken, in each direction. It is stated
as weak fairness of taking the head of a queue instead of the action, because
the only actions that take one are `Handler` and `PeerReceives`, and for every
type of frame one of their branches is enabled (`TypeOK` has that the types are
the five the branches are for). Evaluating the actions' own ENABLED would
build every answer once more.

## Runs

| Run | Shows | Bounds |
|---|---|---|
| `uart_tx` | `TypeOK`, `Check` (the program's own assertion), `SnapshotHolds`, `TransmitterArmed`, `StreamSpec` (refinement, with liveness), `SendCompletes` | queue of 3 bytes, ACL packets of 6 or 7 bytes and commands of 2 or 3; one packet from `main` and two replies, in one handler or in two. An ACL packet never fits the queue, so wrap, full queue, partial sends and retries all occur, in the interrupt too |
| `uart_tx_check` | **violated**: `Check`, when a reply may start inside a send of `main` | as above, one packet each |
| `hci_rx` | `TypeOK`, `ParserInSync`, `ReceiverOpen`, `OneHandler`, `FeedSpec` (refinement, with liveness) | queue of 6 bytes, 3 packets, events of 0, 1 and 6 bytes (6 is the capacity), ACL of 1 and 5; loop counter up to 5 |
| `hci_rx_mtu` | **violated**: `EveryPacketHandled`, constants of the code, one ACL packet of 345 bytes | `BUFFSIZE` 260, `LoopCounterMax` 255 |
| `conn_table` | `TypeOK`, `ListCounted`, `OneSlotPerPeer`, `PendingFound`, `HandleNamesLink`, `SlotsNotLeaked`, `WaitEnds` | 2 slots as in the code, 3 devices (one is main's target, so the table fills up), 3 handles, an inquiry list of 3 and events of one or two responses, so that the list is filled in two or three events; one name request at a time; everything is repeated without limit |
| `conn_inquiry` | **violated**: `ListCounted`, when an event has more responses than the list has room for | as above; two events of two responses |
| `conn_handle` | **violated**: `HandleNamesLink`, when the controller reuses a handle | as above |
| `acl_reassembly` | `TypeOK`, `Reassembled` | 2 connections, packets of 5 and 9 octets, ACL packets up to 6: whole packets, two and more fragments of all lengths, a header alone; packets without limit (a bit tells one from the next) |
| `rfcomm_credit` | `TypeOK`, `NeverStarved`, `GrantsBounded`, `StreamFlows` | constants of the code (33 and 7), one session, 4 frames under way at most, frames without limit |
| `rfcomm_credit_two` | **violated**: `NeverStarved`, with two sessions | as above |
| `l2cap` | `TypeOK`, `ChannelIdsDistinct`, `TmpChidNamesChannel`, `AnswersMatch`, `PromisedChannelExists`, `SabmAddressed`, `PoolSpec` (refinement), `ChannelsConfigure` (liveness) | 2 links, a pool of 2 entries, two links that come up (one may be lost and come back), one request of a peer or press of S2: with two own channels and one of the peer the pool runs out. Identifiers are modulo 4 and octets modulo 7, so the identifier wraps. The first peer first says "pending" or refuses and proposes options the device refuses; the second accepts |
| `rfcomm_session` | `TypeOK`, `FramesReadable`, `MessagesWhole`, `UaInOrder`, `NothingStale`, `Settles`, `PnConfirmed`, `PortConfigured` (three of liveness) | one session, of either side; two presses of S2, six SABM, DISC and PN of the peer (open, close and open again), two other messages (signals of two lengths, port parameters), three data frames with a counter of 2, so that a grant is sent; frames of 14 octets, the longest that occur |

`rfcomm_credit`, `l2cap` and `rfcomm_session` do not check for deadlock: when the
sessions are over and the requests are spent, nothing is left to happen.

The five violations are recorded as findings in `PROJECT.json` with the
sentence of the repository each contradicts.

## Proofs

`UartTxProof` proves, for every `BUFFSIZE >= 3`, every number and size of
packets, and under `ReplyIsSafe` (`Unrestricted = FALSE`): `TypeCorrect`,
`CheckHolds`, `SnapshotIsSafe`, `NoByteStranded`, and `StreamSafety` (initial
condition and steps of `ByteStream`).

None of these is inductive. `IInv` strengthens them with what each step relies
on:

* `OneProducer`: one sender at a time, so a free size that was read stays true
  or grows;
* `Adding`, `Counting`: what is left of the loop fits; a half-done `cq_add` has
  interrupts off and a current copy of `curfreesize`;
* `Ring`, `Order`: `start`, `end` and the *effective* free size (the one after a
  half-done `cq_add`) agree, and the queue holds exactly the accepted bytes the
  wire has not carried, in order;
* `Armed`: UCTXIE is never set over an empty queue; between the last `cq_add`
  and UCTXIE at least one byte stays queued, two if an interrupt is pending.

One lemma per action shows `IInv` preserved, on top of the queue lemmas of
`CircularQueueProof`. TLC checked `IInv` on the instance of `uart_tx` before it
was proved.

`CircularQueueProof` has one lemma per operation: the counters agree after
`cq_init`, `cq_reset`, `cq_add` (whole, and in its halves), `cq_del` and
`cq_discard`, the bytes taken are the oldest, those left keep their order, and
the used size never wraps.

`HciRxProof` proves `ReceiveTypes`, `ParserStaysInSync`, `ReceiverStaysOpen`,
`HandlersDoNotNest` and `PacketsInOrder` (initial condition and steps of
`PacketFeed`) for any queue size, any number of packets and all lengths, under
one hypothesis, `Fits`: an ACL header, an event's parameters and an ACL packet
each fit the queue. (For events the code's own 260 slots see to it; for ACL
packets nothing does, which is the finding of `hci_rx_mtu`.) `ParserInSync` speaks
of moments when the receiver is open and is not inductive. `IInv` adds where every
byte is: the bytes between the first unread one and the controller's next one are
in the queue, in UCA2RXBUF and on the line, in this order (`LineInStep`); the
unread one is where `evt_state` and `readblksize` say, in the packet after the last
one handled (`Position`); at most one payload handler is unfinished, it has
closed the receiver, and opens it in its last step but one with `evt_state` set
before (`FramesOK`). A handler whose 8-bit loop counter never ends keeps
interrupts off for good: the properties hold because nothing happens any more,
and that it may happen is left to `FeedSpec` of the runs.

`ConnTableProof` proves `TableTypes`, `PeerHasOneSlot`, `PendingIsFound`,
`HandleFindsLink`, `NoSlotLeaks` and `ListIsCounted` for any number of devices,
handles and responses per event, and up to 127 slots and entries (an index is an
`int8_t`). The hypothesis `Disciplined` is that all seven assumptions of
`ConnTable` hold; the table above says what fails without each. The lookups take the *first* slot that matches, so
`IInv` has to speak of slots that are not in use as well: one that remembers an
address stands behind the slot in use for it (`Pending`, `Linked`). And main's
search and its claim are two steps, so what it found must still be free, and the
first slot with that address, when it claims it (`Searched`, `Claimed`): a link
that goes down in between frees a slot and keeps its address. `Inquired` is
`ListCounted` and that no inquiry runs before main has begun.

`AclReassemblyProof` proves `AclTypes` (no fragment lands outside the buffer) and
`EveryPacketReassembled` for any number of connections, all sizes and the three
assumptions. `Reassembled` speaks of the last fragment only; its `IInv` says how
the packet gets there: the octets sent so far are in front of the index, in
order, `l2cap_len` is where the index has to arrive, and the index is 0 when no
packet is under way.

`RfcommCreditProof` proves, for one stream (`OneStream`: at most one session and
`PfCost = 0`) and all sizes of the first and later grants: `CreditTypes`,
`StreamNeverStarves`, `GrantsStayBounded`. That a peer without credits has data
or a grant under way is not inductive, because it does not say how far the
counter is. `CreditInv` adds the conservation law behind it: credits at the
peer, data frames under way, `MAX_CREDIT_CNT` times the grants under way and
`credit_cnt` add up to `INITIAL_CREDITS + MAX_CREDIT_CNT` from the opening on.
With nothing under way the counter would have to exceed its maximum.

`L2capSignalProof` proves `TypeCorrect`, `IdsDistinct` and `TmpChidSafe` for any
number of links and entries, any range of channel numbers with more numbers than
entries (and below the octet of `btdev.c`), and all peers of the module. That a
number drawn is a new one does not follow from `ChannelIdsDistinct`: the counter
also advances when the pool is empty. It follows from the order in which entries
leave the pool. `PoolInOrder` says that the pool is the end of the array, that
the e-th entry has the e-th number, and that the counter is at the last one given
out while an entry is left. `RequestsOurs` is the other half: `tmp_chid` comes
from a response of the peer, so every connection request and response under way
must name a channel the device asked for. The assumption that `MaxRequests` and
the pool together stay below 100 is about the numbering of peers only
(`PeerNumbers`). TLC checked `IInv` on the instance of `l2cap` before it was
proved. The proof also says what its assumption costs: with a pool of 192
entries `TmpChidNamesChannel` would fail (numbers begin at 64 and `btdev.c` has an
octet for them); that the pool has five is what prevents it.

`RequestsAreAnswered`, in the same module, needs only the types besides, but it
is about what a recursive function, `Exchanges`, makes of queues of any length.
Lemmas say what it makes of two queues in a row, of one without its head, and of
one with a message more; then each step either leaves the exchanges alone, or
moves one from the requests under way to the answers, or takes the oldest.

The last part of `L2capSignalProof` goes on from there, without further
assumptions:

* `PoolRefined`: `Spec => PoolSpec`. `Chain` is a recursive function of the heap
  too; the lemma `ChainOfLinked` says that it returns a list that is linked.
  `ListsLinked` is the invariant: what `Chain` returns is linked and ends, the
  lists of two slots have no entry in common, and an entry is put in front of
  older ones only, which bounds their length by the pool. With it, taking the
  head of the pool maps to the one step of `ChannelPool` and all else to none.
* `SabmReachesTestDevice` and `PromisesAreKept`, from `ChannelInv`. That an entry
  knows only numbers of the peer whose list it is in (`NumbersKnown`) gives the
  first. For the second the invariant has to follow a channel number on its way:
  one offered to a peer names an entry and no channel of the peer yet
  (`OffersGood`), is offered once (`OfferedOnce`, or two channels of the peer
  would have the same entry), an acceptance on the way back is of the channel with
  the device's number (`AcceptancesGood`), and a channel has its entry, which has
  the peer's number or will get it (`ChannelsGood`, `PairsUnique`). All of that
  holds while the pool has entries (`PoolLeft`): the request that takes the last
  one ends what the property promises, and none is ever given back.
  TLC checked `ChannelInv` with pools of 2 and 3 entries before it was proved.

`RfcommSessionProof` is about octets, for any data channel, any maximum of the
credit counter, all messages of `SessionAssumption` and any number of everything:

* `SumIsPolynomial` and `OnlyTheSumPasses`, from `TableAssumption`: for every
  sequence of octets `create_fcs` is the sum of the polynomial, and `verify_fcs`
  accepts the sequence with that sum behind it and with no other octet. The first
  is an induction over the octets; for the second, the last step finds 0xCF only
  at 255, where the octet complements what came before.
* `SessionTypes`, `FramesAreReadable`, `MessagesAreWhole`, `EveryCommandGetsItsUa`
  and `NothingGoesStale`: the five invariants of `rfcomm_session`.

The five speak of the frames under way, which are made from the frames before
them in the buffer that still holds those. So `IInv` says of *every* frame of
either side what the code that reads it relies on (`FramesGood`). Those of the
peer (`Incoming`) have one octet of length, a message fills its frame, a PN has
eight parameters with the timer 0 in a command, an MSC has two or three, and a UA
is for DLCI 0. Those of the device (`Outgoing`) have their sum, a SABM is for
DLCI 0, and messages have the length their type needs. `FrameBuilt`, `UaSent`,
`MessageSent` and the lemmas between them compute, octet by octet, what each
function of `rfcomm.c` leaves in the buffer. `NothingStale` also needs to know
what is in the buffer *before* the packet: `BufferQuiet`, that between two
packets the first octet is of channel 0 (what button S2 left) and the
octets from the fifth on are 0. This is where the `memset` of `hci.c:914` enters
the proof; without it `BufferQuiet` is not kept. `UaInOrder` is inductive once
every frame is one of the five types. It is about a recursive function of the
queues, `Dlcis`: lemmas say what it makes of two queues in a row, of one without
its head and of one frame. There is one lemma per handler of the device and per
action of the peer. TLC checked `IInv` on the instance of `rfcomm_session` before
it was proved.

Where a recursive function had to be reasoned about for all lengths (`Chain`,
`Exchanges`, `Crc` and `ReferenceFcs`, `Dlcis`), the induction is the lemma
`SetInduction`, over the set of numbers for which the claim holds: a set needs no
operator as a parameter. It rests on `LeastExists`, a well-founded minimum.

Only model-checked: liveness (`SendCompletes`, `WaitEnds`, `StreamFlows`,
`ChannelsConfigure`, `Settles`, `PnConfirmed`, `PortConfigured` and the liveness
halves of `StreamSpec` and `FeedSpec`), because the prover does not do liveness
under fairness. All other properties of the passing runs are theorems.

## Plan

What is left is one module, `EventParams`: how the event handlers take parameters
from `rx_q`, the bytes read against the length of the event. Abstract: a handler
consumes its payload. Then its inductive invariant, on the lemmas of
`CircularQueueProof`. The hazards of `PROJECT.json` that have a note and no
property are mostly about it.

## Not modelled

The UART and board set-up, the debug port, LCD and buttons (register writes with
no state the stack reads), the vendor's service patch; see `PROJECT.json` for
each component. Functions nobody calls: `mv_entry_*` and `get_entry` of `list.c`,
`l2cap_ping`, `l2cap_send_disconnection_request`, the create functions of
the RFCOMM messages TEST, CLD, PSC, FCon, FCoff, NSC and RLS. What event handlers
take out of `rx_q` (planned). `PORT1_CTS_ISR` is an endless loop whose remainder never runs.
