# Verification of the 8266 gas sensor firmware

TLA+ models of a gas detector's firmware on an ESP8266: the application in
`src/app/user`, which is provisioned over SmartConfig, keeps a websocket to a
server, answers phones through it and raises an alarm; and of the code below
and beside it whose logic is in the repository: lwIP and espconn
(`src/examples/lwip_open_src_template_proj`) and the cloud demo
(`src/examples/IoT_Demo`). The application runs on the NONOS SDK: no threads,
but timer callbacks, network callbacks, one GPIO interrupt and the SmartConfig
library's callbacks, in any order, over a few dozen global variables. That is
where its difficulty is, and what the models are about.

TLC checks 8 runs that hold and 4 that show the code in disagreement with what
one of its comments says (sections 4 and 5). TLAPS proves 34 theorems a reader should
know of, for every value of the constants (section 6).

## 1. Inventory

The application (`src/app/user`):

| Component | Code | State | Operations |
|---|---|---|---|
| Control core | `user_main.c`, `gassmartconfig.c`, parts of `tcp_udp.c`, `networking.c`, `key.c` | `Mode`, `SubMode`, `SensorMode`, the two software timers, `ProgramPara` counters and `Status`, `WebSocketOK`, `gassmartconfig` | `pwmad_cb` (50 ms), `gas_main_cb` (100 ms) and what they dispatch to, `smartconfig_done`, the DNS, websocket and HTTP callbacks, the key handlers |
| Command mailbox | `networking.c`, receive callback in `tcp_udp.c` | `DataFormat` (one frame, both directions), `Receive`, `primaryKey`, `Alarm_H` | `WebRecvData_Proc`, `ESP8266_Monitor`, `Reflash`, periodic commands in `networking` |
| Configuration in flash | `user_main.c`, `networking.c` | `config`, `configcmp`, sectors 0x7C and 0x7D, `Dev_ID` | boot, registration, calibration, self-test |
| Receive buffer | `tcp_udp.c`, `networking.c` | `ubWebRxBuf`, `rxcount` | `websocket_tcp_recv_cb`, `WebRecvData_Proc`, `Reflash` |
| Key driver | `key.c` | `key_level`, interrupt mode, two timers | `key_intr_handler`, `key_5s_cb`, `key_50ms_cb` |
| Gas detection | `user_main.c` | votes, last readings, `PPM_Updata`, `flag_Alarm`, `adoffset` | `Detect`, `led_test`, `led_test1` |
| Panel | `user_main.c`, `key.c`, callbacks of the others | `SensorMode`, `Led_Cnt_second`, `Key_Type`, statics of `led_test` | `pwmad_cb` tick by tick, the presses, every callback that changes the mode |
| Watchdog, heartbeat, LAN discovery | `networking.c`, `gassmartconfig.c`, `user_main.c` | `Cnt_ERROR`, `Cnt_Minite`, `Cnt_Hour`, `flag_Time`, the slot of the heartbeat | passes of `networking()` in a session, hang-up, AirKiss discovery |
| UART driver | `uart.c` | FIFOs, two ring buffers, interrupt masks | receive interrupt, `uart_recvTask`, `uart_test_rx`, transmit |
| JSON helpers, `hw_timer` | `user_json.c`, `hw_timer.c` | | not called; not modelled |

lwIP and espconn, and the demo:

| Component | Code | What is hard about it |
|---|---|---|
| TCP | `core/tcp*.c` | loss, reordering and duplication; refused data, windows of zero, closing from both sides |
| UDP, raw IP, espconn's UDP | `core/udp.c`, `raw.c`, `app/espconn_udp.c` | a list reordered while it is walked; ports given twice; messages in pieces |
| IP, ICMP, netifs | `ipv4/ip.c`, `icmp.c`, `ip_addr.c`, `netif.c` | two netifs that come, go and change address |
| Internet checksum | `ipv4/inet_chksum.c` | odd addresses, pieces of odd length, carries, updates in place |
| DHCP client and server | `core/dhcp.c`, `app/dhcpserver.c` | losses, late answers, restarts of either side; nodes that move in the list of leases |
| DNS | `core/dns.c` | a full table, late and wrapped identifiers, callbacks that look up names |
| ARP | `netif/etharp.c` | packets that wait with an entry that is recycled |
| IGMP | `ipv4/igmp.c` | a group joined several times, on two netifs, with queries at any time |
| Multicast DNS | `core/mdns.c`, `app/espconn_mdns.c` | starts that fail half way, closes while announcing |
| SNTP | `core/sntp.c` | late answers, retries and lookups that race; the calendar |
| Timeouts | `core/timers.c` | a delta list with a clock that wraps, handlers that arm |
| Packet buffers, heap | `core/pbuf.c`, `mem.c` | references, chains that share a tail; blocks joined and split |
| Netconns, sockets | `api/*.c` | threads, full mailboxes, `select` against callbacks |
| espconn TCP | `app/espconn.c`, `espconn_tcp.c` | an end that is posted and told later, memory errors in the middle of a packet |
| Cloud client | `IoT_Demo/user_esp_platform.c` | one timer for everything that waits |
| Web server | `IoT_Demo/user_webserver.c` | variables shared by connections, freed by a 10 ms timer |

`lwipopts.h` builds lwIP with `NO_SYS` 1, `LWIP_NETCONN` and `LWIP_SOCKET` 0,
`MEM_LIBC_MALLOC` and `MEMP_MEM_MALLOC` 1, and without reassembly, fragments,
AUTOIP and statistics. `api/` and `mem.c` are therefore in the repository and
not in this build; they are modelled for their logic, as lwIP's default options
compile them.

How they interact. `pwmad_cb` never stops: it keeps the time, runs the
provisioning timeout and, by `SensorMode`, the detection. `gas_main_cb` runs
the connection by `Mode`; `gas_smartconfig` *disarms its own timer* and relies
on a callback or on the timeout to arm it again. Network callbacks write
`Mode`, `SubMode`, `WebSocketOK` and the mailbox behind its back. The receive
callback parses a frame into the one global `DataFormat`; the main loop acts
on it up to 100 ms later and builds its answers in the same struct. The flash
is written inside a main-loop pass (registration) or a `pwmad_cb` pass
(calibration). The key calls into the control core from its timers. Below,
espconn's callbacks come from TCP's and UDP's, whose timers come from lwIP's
list; resolver and DHCP send by UDP, UDP by IP, IP by ARP and the netif.

Hard behaviours, and the properties they call for (`PROJECT.json`, `hazards`,
has each at its line):

* **The main loop that stops itself.** Is somebody always left to start it?
  `MainLoopRecoverable`, `MainLoopRevived`, `ListeningStopsMainLoop`, `WaitsEnd`.
* **Sessions believed in.** `WebSocketOK` and `BIT_LOGINOK` are set by one
  callback and cleared by others, or never: `SessionConsistent`,
  `StaleSessionDropped`, `HealthyKept`, `PeriodicAfterLogin`.
* **Coming back online** after any loss: `EventuallyOnline`, `WaitsEnd`,
  `ReconnectsIfEverConnected`.
* **One slot for everything**: `AnswersAreAsked`, `OwnPayload`,
  `PendingIsCurrent`, `EveryRequestServed`.
* **Power loss while writing** two sectors: `IdentityKept`, `ImplementsStore`.
* **A list that is relinked in place**: `ListEnds`, `LeasesSound`.
* **A byte stream treated as packets**: `HandledInOrder`,
  `WholeFrameHandled`, `FragmentsReassembled`.
* **A bouncing key** and an interrupt that is switched off and on:
  `InterruptComesBack`, `NoPhantomPress`, `LongPressWasHeld`.
* **Votes across pauses and calibrations, a sensor that warms up**:
  `VerdictTrue`, `AlarmBacked`, `DetectionComesBack`, `SensorTrusted`.
* **Interrupts, a task and a timer over two rings**: `EchoIntact`.
* **Below**: what is lost, late or doubled in the network, tables and
  buffers at their limits, callbacks that call back: `TransportSound`,
  `DeliverySound`, `StackSound`, `LeasesSound`, `LookupsSound`, `LinkSound`,
  `MemorySound`, `TimeSound`, `LastsAndComes`, `CloudSound`.

## 2. Modules of the application

| Module | What it is |
|---|---|
| `Device` | the control core, with its environment (station, SmartConfig library, lookups, connections, server) |
| `MCDevice` | bounds its disturbances, makes a fair environment, states what comments promise |
| `DeviceProofs` | type correctness; the safety theorems |
| `Mailbox`, `MailboxProofs` | the command mailbox, its proofs |
| `IdentityStore` | abstract: an identity is in use, and stored or not |
| `ConfigFlash`, `ConfigFlashProofs` | the two sectors, word by word; implements `IdentityStore` |
| `RxBuffer`, `RxBufferProofs` | the receive buffer |
| `Key`, `KeyProofs` | the key driver; the proofs about it, the panel, the watchdog and the UART |
| `Detect`, `DetectProofs` | gas detection, calibration, self-test |
| `Panel`, `Watchdog`, `Uart` | `SensorMode` with its times; how long sessions last; the UART |

Names are the code's (`Mode`, `Cnt_ERROR`, `WebRecvData_Proc`, ...). An action
is one callback, or one branch of a callback's dispatch, whole. Constants
stand for the code's numbers. A definition whose name ends in a suffix after
an underscore and whose comment calls it a mutant is a deliberately wrong variant
of the definition after it; nothing uses it, and substituting it shows that a
property can fail.

### Device

`LedTick` is `pwmad_cb`: `time_calcu_cb` (counters, then the timeout) followed
by the switch on `SensorMode`. `GasTick` is `gas_main_cb` by `Mode`: `GasInit`,
`GasBias`, `GasCreateSession` (`CheckIpStart`), `GasConfig`
(`gas_smartconfig`), and `networking()` as `GasHangUp`, `GasLoggedIn`,
`GasLoggingIn` and `GasOffline`. `Smartconfig` is `smartconfig_done`;
`DnsFound`, `WsUpgraded`, `WsFrame`, `WsDisconnected`, `WsError`, `Http...`
the network callbacks; `LongPress` and `ShortPresses` the key handlers. The
mailbox is only as detailed as the watchdog needs it (which command runs next,
and whether it came from `Receive`).

*Abstractions.* How long a light phase lasts (`Led_Cnt_second`) is a free
choice, so every `SensorMode` change the code makes can come at any tick;
module `Panel` counts. The third short press is one action. `HttpOK`,
`BIT_ONLINE`, `BIT_DAY`, `Mode1` and `SensorMode1` are not read in any
reachable state and left out. `LateDelivery` says whether callbacks already
queued may arrive once the station is down; it is the SDK's choice, and safety
is checked with it. With it a queued 101 answer that arrives while the main
loop is stopped disarms the timeout, which is why `MainLoopRecoverable`,
`MainLoopRevived` and `WaitsEnd` are claims about `LateDelivery = FALSE`;
nothing in the repository says which it is.

### Mailbox

`command`, `Receive`, `SRC_ID` and `mems` are the slot. `Receiving` is the
receive callback (and the session's begin and end), `Pass` one pass of
`networking()`, one disjunct per command of `ESP8266_Monitor`, each followed
by the periodic command if one is due (`Reflash`). A payload is tagged with
the command it came with, so that using it for another shows. A frame sent
under a key the device does not hold is noise. The server and the apps may
send at any speed, and nothing in the device holds a frame back: one that
arrives before the last one of its session has been acted on overwrites it, and
requests are lost, which the code accepts. The history variable `overtaken`
records that this has happened in the session; part of `AnswersAreAsked` (a
request of the answer's kind is behind it) holds regardless, the rest and the
other properties until then. An upgrade starts afresh, so they also say that no
earlier session, overtaken or not, spoils a later one. Sessions, and the login
state the server keeps, are external. `COMMAND_WARNING`, `MAPDATA` and
`SELFTEST` are never set and left out.

### ConfigFlash and IdentityStore

An erase is one step, a write is word by word, in between power may be lost;
no callback runs during a write, since the handlers call the flash
synchronously. `interrupted` counts the interrupted writes since an identity
was last written out whole, `registered` is the identity the server issued last.
`IdentityKept` says what the two copies are worth, and it is less than two
copies suggest: both must agree, so *one* loss between the erase of 0x7C and
the end of the identity in 0x7D costs the registration, in a calibration too,
and the device asks for a new identity. Without such a loss calibrations and
reboots keep the identity; after one the device has the one issued last or
none, never half of one; and an older one never comes back. Two writes
interrupted at the same word leave two sectors that agree on a torn identity,
which `user_init` then accepts; the code has no checksum to notice, so
wholeness and the steps of `ImplementsStore` are claims for
`interrupted <= 1`. The offset is
not compared at boot: an interrupted calibration may leave an erased one.
The abstract store issues, commits, exposes (the sectors are being
rewritten, the stored identity does not count) and reboots.

### RxBuffer

A byte is a frame number and a place. `Segment` is the receive callback on
any piece the stream may be cut into; with `Coalesced = FALSE` (for the
finding) no piece holds bytes of two frames. `HttpResultOk`, the server's answer
to a posted identity, sets `WebSocketOK` and clears the buffer's count in the
middle of a session. `clean` records whether every piece
of the session has been one frame, which is what the code relies on. Left out:
bytes within a frame that look like its first one, and the capacity of the
buffer.

### Key

Ticks instead of milliseconds, T50 < T2S. `Move` is the key, at any moment:
between the edge and its interrupt, and within `key_50ms_cb`, which is split
between the read of the pin and the arming of the interrupt (`KeyUp` and
`ArmFalling` when it is up, `StillDown` and `ArmAgain` when it is down). `late` records that the key
has moved, or time has passed, while an interrupt was pending or that
callback was half done: a glitch shorter than the interrupt's latency is taken
for either edge, so a long press means a held key only without one.
`ArmFalling` ends a press and clears `late`: no glitch spoils a later press.

### Detect

`RunDetect` is one pass of `Detect`: `WINDOW` votes, then one pass that counts
and whose own reading does not vote. `LedTest` and `LedTest1` change the
offset, `Elsewhere` lets `SensorMode` change as it does in Device. An
offset never written reads as -1, which is what the unsigned subtraction
makes of an erased word.

### Panel

`SensorMode` tick by tick: `Pwmad` is `pwmad_cb` by mode, `Timeout` the 60 s
timeout, then the presses, the main loop's steps, and the callbacks that change
the mode. The warm-up and the blinking count in the one `Led_Cnt_second`, which
callbacks of the connection reset; `led_test` keeps its phase in a static that
an interrupted calibration leaves. `SubMode` starts as INIT (0x00) and not as
FINISH, so the timeout may fire from boot on, in the warm-up and in a calibration
too. Callbacks come late as well, a 101 answer while the main loop is stopped
among them. `DetectionComesBack` says that the device is
without detection for a bounded time, or while somebody is left to end that,
with two exceptions, which `raced` records: a callback of the connection that
takes `Mode` away between a long press and the next pass, and a 101 answer that
makes `SubMode` FINISH while the main loop is stopped. After either the device
is blind until the next long press or LINK, in the code as in the model; the
property says that nothing else does this. `SensorTrusted` is about steps: a
calibration follows three presses within the window, shows its colours first,
and no reading is used before the sensor is warm.

### Watchdog

Passes of `networking()` in a logged-in session, against a server that answers
every message within `DELAY` passes. The heartbeat goes through the mailbox's
one slot and its flag through `flag_Time`, which the LAN discovery of AirKiss
clears. `HealthyKept`: a session is hung up only when the slot, STOPALARM
or a discovery lost a heartbeat or its answer since the last one (`lost`), or when
it is the session after a hang-up, which starts with fewer passes (`short`).
It needs a server that answers a heartbeat before the next is due
(`DELAY + 2 < MINUTE`).

### Uart

The receive interrupt switches itself off and posts an event, the task moves
the FIFO into a ring, a timer moves the ring into the transmit ring, whose bytes
the FIFO-empty interrupt sends. Bytes are numbered as they arrive. `EchoIntact`:
none is doubled, invented or out of order, each that is missing was dropped by
an overflow, and neither direction is ever left with its interrupt off and
nobody to switch it on. The firmware is built with `UART_BUFF_EN` 0, where
`recvTask` sends a zero for every byte and the driver serves printing only; the
model is of the buffered configuration that the source provides.

## 3. Modules of lwIP, espconn and the demo

Each is a component of its own with a small environment. Their
assumptions on constants are named `...Assumption` and evaluated in the run of
their host (section 4).

| Module | State and actions | Its property, part by part |
|---|---|---|
| `Tcp` | two `pcb` records that run the same code over a network that loses, duplicates and reorders; `Deliver` (the application takes or refuses each piece by itself, and the last segment out of order may be given up), `Overtake`, `Lose`, `Retransmit`, the fast timer, `Write`, `Recved`, close and abort | `ConnectionSound`: the stream arrives intact; what is acknowledged is handed over; the window is honest; no end waits for ever |
| `Espconn` | `node` (an `espconn_msg` and what lwIP holds of it), `task`; one action per API call, callback of lwIP, and signal of `espconn_Task` | `EspconnSound`: every byte accounted for, acknowledgements to come unless memory ran out in the callback of the last one (`stranded`), windows returned, one end per connection. lwIP may be short of memory in any write or close: `espconn_tcp_sent` halves what it writes, and a failed close leaves the connection in CLOSE_WAIT |
| `Netconn` | `conns`, `pcbs`, the application thread; one action per `netconn_*` call, per callback, and for the wait in between | `NetconnSound`: calls are answered, errors remembered, data in order and whole, mailboxes with room noticed, no freed netconn called back but in two named ways (`Forgotten`): shut on one side and deleted, or freed by `accept_function` when the mailbox of who listens is full, which the abort of its connection then calls back |
| `Sockets` | sockets, netconns, threads, the list of selects; a step is what runs under `SYS_ARCH_PROTECT` | `SocketsSound`: whoever waits in `select` is woken, semaphores and events are counted right, nothing is lost at accept or in partial reads |
| `Udp` | blocks, UDP's and raw IP's lists, espconn's message under way; `Netif`, `User`, `Raw`, `raw_input` | `UdpSound`: the lists keep their members, ports are apart, a datagram reaches the best match, or on DHCP's ports, which `udp_input` treats apart, at most the client or the server; the application is told after the last piece |
| `Ip` | `netif_list`, the default, addresses; `Change`, `Connection` | `IpSound`: which netif a datagram leaves by, what is accepted, forwarded and answered, which connections go with an address |
| `Checksum` | the pieces of a packet, grown byte by byte | `ChecksumSound`: the three summations equal the ones' complement sum of the bytes in a row, whole or cut; the updates of `ip_forward` and of an echo keep it right |
| `Dhcp`, `DhcpServer` | the client as functions of its `struct dhcp`; the stations, the server's `plist` as far as it is walked before it goes round, and where its last node points (`pnext`); the network | `LeasesSound`: the list is ordered and without doubles, clients always have a timer or a lease, two stations share an address only after a lease ended or moved without the station's knowing |
| `Dns` | the table, the last query, callbacks owed; `Lookup` (always a new query: the search of kept answers is commented out, `dns.c:975-978`), `Recv`, `dns_tmr` | `LookupsSound`: each lookup gets its one callback within the time the servers may take, with an address of its name; one is refused only when every place is taken |
| `Etharp` | the table with its queues; frames in, packets out, `etharp_tmr` | `TableSound`: one entry per address, packets wait only where somebody is asked and leave in order, a known address has the mac it was last heard with |
| `Igmp` | groups per netif, the mac filter; joins, leaves, queries, reports, `igmp_tmr`; each report or leave may fail to be sent by itself | `IgmpSound`: the filter has what is joined, queries are answered in time, routers told of joins and leaves |
| `Mdns` | blocks of the responder, timer, membership, registered netifs; the API, `mdns_reg`, messages | `MdnsSound`: no block is used after it is freed, who is registered hears, messages can be read and answer what was asked |
| `Sntp` | the client's timers, requests and lookups; the clock | `SntpSound`: one chain of requests, sends on a block it holds, the date is right; `TimeComes` |
| `Timers` | the list, the clock, the timer in hand | `TimersSound`: every entry is due when it was asked for, none early, handlers that repeat are armed |
| `Pbuf` | pbufs with bytes, references, next; one action per function | `PbufSound`: references counted, lengths add up, bytes kept, searches find |
| `Heap` | headers, `lfree`, what callers hold; `mem_malloc`, `mem_free`, `mem_trim` | `HeapSound`: the blocks cover the heap and can be walked both ways, no two free neighbours, `lfree` is the lowest, blocks kept are as large as asked, none refused while it fits |
| `Platform` | `client`: what the file keeps and what others hold for it; one action per callback | `PlatformSound`: something is always about to wake the client, and a server that falls silent is noticed |
| `Webserver` | `conf`, `upload`, `scan`; one action per request and timer | `WebserverSound`: the 10 ms timer finds the configuration it was armed for unless that was read meanwhile, an upload that holds the lock is watched, pages asked for in turn show their own entries |

Where a claim holds only under a condition, the property names it (a history
variable, or a guard on what the application may call), and section 8 says what
happens without it.

## 4. Runs

All instances are exhaustive.

| Run | Checks | Shows |
|---|---|---|
| `device_safety` | `TypeOK`, `ListeningStopsMainLoop`, `SessionConsistent` | the control core with two connections of the one websocket struct, late deliveries, app frames, one disturbance anywhere |
| `device_fair` | `MainLoopRevived`, `WaitsEnd`, `StaleSessionDropped` | with fair timers only: the stopped main loop runs again, provisioning and the reconnection delay end, a silently dead connection is noticed |
| `device_online` | `MainLoopRecoverable`, `EventuallyOnline` | with a working network a provisioned device gets its session back |
| `mailbox_slot` | `TypeOK`, `PendingIsCurrent`, `AnswersAreAsked`, `OwnPayload`, `EveryRequestServed`, `StackSound` | answers, payloads, progress; `Ip` and `Checksum` |
| `flash_store` | `TypeOK`, `IdentityKept`, `ImplementsStore`, `LeasesSound`, `LookupsSound`, `LinkSound`, `MemorySound` | what three interrupted writes leave of the identity, the refinement; `DhcpServer`, `Dns`, `Etharp`, `Igmp`, `Pbuf`, `Heap` |
| `rx_cuts` | `TypeOK`, `HandledInOrder`, `WholeFrameHandled`, `TransportSound` | the receive buffer under any cut; `Tcp`, `Espconn`, `Netconn` |
| `key_bouncing` | `TypeOK`, `InterruptComesBack`, `NoPhantomPress`, `LongPressWasHeld`, `DetectionComesBack`, `SensorTrusted`, `HealthyKept`, `EchoIntact`, `TimeSound`, `LastsAndComes` | the key; `Panel`, `Watchdog`, `Uart`, `Timers`, `Sntp` |
| `detect_votes` | `TypeOK`, `VerdictTrue`, `AlarmBacked`, `CloudSound`, `DeliverySound` | the alarm; `Platform`, `Webserver`, `Mdns`, `Udp`, `Sockets` |
| `device_stranded`, `mailbox_relogin`, `rx_fragments`, `dhcp_round` | one property each, violated | the findings of section 5 |

**Side by side.** Components that share no state are checked in one run. The MC
module EXTENDS the one it is named for, instantiates the others, and has a
variable `part` that is chosen initially and never changes: the next-state
relation is that of the part, and `Others(p)` keeps everything else as it
starts (where a component has several initial states, the other parts fix
one). The reachable states are those of each part alone, one after
the other, and each property is guarded by its part or is one that the
others cannot touch. `Sockets` is there three times (`sockets`, `reads`,
`selects`) with different constants: accepting and closing, reading parts of
pieces, and several threads in `select`. In `flash_store` identities share
model values with stations and macs, and hosts with names, so that `Alike` is
one symmetry of every part; in `device_safety` connections are interchangeable.
Neither checks liveness, and no other run uses symmetry.

**Bounds of the application.** A *disturbance* is a long press, the presses of
a calibration, a loss of the station, a failed lookup, a connection closed or
broken by the peer, or an app's frame (`MCDevice`): one, at any point of any
run. Timers and answers of the environment are not counted. The counters keep
the *order* of the real ones, which is what the code depends on: `CNT_10S <
CNT_60S < CNT_MINITE`, and for the watchdog a heartbeat interval shorter than
the watchdog (`CNT_ERROR_OK`), that shorter than the upload interval where the
upload must not hide a dead session (`device_fair`). `CNT_60S = 4`
(`device_online`) is the least at which a provisioned device is seen offline in
the normal mode; with 3 (`device_fair`, `device_safety`) every phase of
provisioning and the reconnection delay are still reached, at a quarter of the
states. `CNT_ERROR_OK >= 3` is the least at which a login completes before the
watchdog. `UINT8 = 2` makes `Cnt_second` wrap at once. Two connection slots
suffice to have an old and a new connection; two apps to answer the wrong one;
two sessions to carry state from one to the next. In the flash, three words,
two identities and two offsets allow torn words of every origin, three losses
allow one more than the claim excludes. Four bytes a frame with more than one
byte needed before a frame is looked for (1 in 4 for the code's 5 in 40) allow
cuts before, in and after that mark. `T2S = 9`, `T50 = 2` leave room for
several bounces in a press. Three votes with a quorum of two, for ten and
seven, allow split windows without a quorum; readings 0, 3 and 6 with offsets
-1, 0, 1, 3, 6 reach both thresholds from either side, and a reading equal to a
threshold. The panel's `PHASE = 1 < WINDOW = 3 < WARM = 4` keep the order of 20,
60 and 1800 ticks. The watchdog's `MINUTE = 12`, `ERROR = 18`, `HUNG = 6`,
`BIAS = 3` keep the order, and the ratio 3:2 of `Cnt_ERROR` and the minute, on
which the answer's time depends. The UART's rings of 4 behind FIFOs of 2 wrap
after four of the 8 bytes.

**Bounds below.** Every table and queue is as small as it can be to be full:
two entries for three hosts (ARP) or three names (DNS), two addresses for
three stations (DHCP; three in `dhcp_round`, since a lease has to move past another
one to the end, with no losses and nobody leaving, which only removes
behaviours), a heap of three blocks, three pbufs of two bytes, a mailbox
of one, a window of two segments, a send queue of two. Netconns are three, two of
which the application keeps (`KEPT`), so that one can listen, one wait in its
mailbox and a third find that full; espconn writes packets of 1 and 6 bytes in
pieces of at most 4 into a buffer of 5, so that a write can be halved twice and
span an ack. `PORTS = {3}` is the one free port beside those the modules themselves name,
DHCP's two among them. Counters that wrap do:
`SEQ = 64`, `SEQNOS = 4`, the clock of `Timers` at 10, the counter
of `Platform` at 4. Faults are few and anywhere: one loss, duplicate or
early timeout in TCP, two in DHCP, one memory error in espconn (in any write or close) and SNTP,
one stray message in SNTP. Bytes count modulo 4 in `Checksum` (pieces of up to
10 bytes, chains of up to 4), so that halfwords and words overflow on short
pieces. The days of `Sntp` are 29 February 1972, 1 January 1973 and one near
the end of 2^31 seconds. Each bound is a CONSTANT whose comment says "bound".
The histories they end are finite, and a part of some components may also
really stop; `CHECK_DEADLOCK FALSE` is said in the three configurations where
that is so (`MCRxBuffer_cuts`, `MCConfigFlash_store`, `MCDetect_votes`).

**Fairness.** Only what the code's scheduler guarantees: both software timers
keep firing (`Timers` in Device, `WF(Pass)` in Mailbox, `WF(Time)` in
Watchdog), since the SDK serves its timer list whatever the network does. The
network, the server and the phone are not fair, but for three claims that are
about a network that works: `device_online` and `device_stranded`
(`MCGoodNetworkSpec`), the server of `Watchdog`, whose session could not last
without its answers, and SNTP's `TimeComes`, where lookups end (weakly) and a
good server that is asked again and again answers in time (strongly). An SNTP
client may otherwise be left alone: that part has a step that changes nothing.

## 5. Findings

Each is a run that TLC finds violated, against a comment of the code; the last
is a bug, the others are disagreements.

* `device_stranded`: a device given up by the timeout while joining with
  stored credentials never reconnects (`BIT_HASNET` is set by LINK_OVER
  only).
* `mailbox_relogin`: `BIT_LOGINOK` outlives its session, so periodic commands
  precede the login of the next one.
* `rx_fragments`: `rxcount` is there because frames are split, but the
  first piece is already handled as a frame.
* `dhcp_round`: `node_insert_to_list` does not set the `pnext` of a node that
  it appends (`dhcpserver.c:77` is commented out), and `client_update` takes a node
  out and puts the same one back (1125-1129). A station whose REQUEST is repeated
  after a lease before its own has ended is moved down the list, ignores the NAK
  while it checks or is bound, and its renewal moves it back to the end: its
  `pnext` now leads back into the list, which goes round.

## 6. Proofs

TLAPS checks the theorems for every value of the constants that satisfies the
named assumptions of the modules (`CountersAssumption`,
`EnvironmentAssumption`, `MailboxAssumption`, `FlashAssumption`,
`RxAssumption`, `KeyAssumption`, `DetectAssumption`, and `PartsAssumption` of
`MCKey`, `MCDetect`, `MCConfigFlash` and `MCMailbox`; all are evaluated by TLC in the runs). Every inductive invariant was
given to TLC first. A theorem about a part that an MC module hosts is about
that module's specification `MCSpec`: it is the part's property, by the
lemma that a step of `MCNext` is a step of the part or leaves its variables.

| Theorem | Property | Inductive invariant, and why it is needed |
|---|---|---|
| `DeviceProofs!TypeCorrect` | `TypeOK` | inductive as it is |
| `DeviceProofs!ListeningExclusive` | `ListeningStopsMainLoop` | with `TypeOK` |
| `DeviceProofs!SessionFlagsConsistent` | `SessionConsistent` | `IdentityInv`: the server owes no login answer to a device without an identity, and none is in the slot |
| `DeviceProofs!MainLoopReachable` (`LateDelivery = FALSE`) | `MainLoopRecoverable` | `MainLoopInv`: while the main loop is stopped there is no connection left that could set `SubMode` to FINISH without arming the timer, and a library that has linked has already armed it |
| `MailboxProofs!TypeCorrect` | `TypeOK` | inductive as it is |
| `MailboxProofs!PayloadIntact` | `OwnPayload` | `SlotInv`: until frames overtake the main loop, a command that has a latch is latched, its payload is in the slot, and its sender is one that waits for it. Answers are built a pass later than requests arrive, from a slot that periodic messages share |
| `MailboxProofs!WaitingRunsNext` | `PendingIsCurrent` | `SessionInv` (what the session and the login state allow in the slot) and `WaitingInv`: at most one frame waits, and it is the one run next |
| `MailboxProofs!OnlyAnswers` | `AnswersAreAsked` | `AskedInv`, which holds overtaken or not: what an answer is built for is due to a frame that waits |
| `ConfigFlashProofs!FlashTypeCorrect` | `TypeOK` | `FlashInv`, below |
| `ConfigFlashProofs!IdentitySurvives` | `IdentityKept` | `FlashInv`: what each sector holds at each point of a write, for any number of losses. `WholeInv`: with at most one interrupted write, what is in RAM, or will be after a boot, is whole or none; beyond the word that is written the sector is erased. `LatestInv`, for any number of losses: both sectors hold the same whole identity only if it was issued last. `RegisteredInv`: until a write is interrupted both copies in RAM hold that one |
| `ConfigFlashProofs!Refinement` | `ImplementsStore` | the same, step by step: `WriteCRefines` and `WriteDRefines` for the two sectors, `StepRefines` for the rest |
| `RxBufferProofs!RxTypeCorrect`, `HandledOnceInOrder`, `WholeFramesAreHandled` | `TypeOK`, `HandledInOrder`, `WholeFrameHandled` | `RxInv`: what is in the buffer has arrived, is newer than what was handled where it starts a frame, and nothing is left of a session whose pieces were frames; with lemmas on bytes, places and frames (division) |
| `KeyProofs!KeyTypeCorrect`, `NeverDeaf`, `PressesAreReal` | `TypeOK`, `InterruptComesBack`, `NoPhantomPress` | `PressInv`: the phases of a press (up, down, debouncing) and which handlers the falling edge may still call |
| `KeyProofs!LongPressesAreHeld` | `LongPressWasHeld` | `HeldInv`: until the driver falls behind, the time the key was held and the countdown of the 2 s timer add up, and time the key was up is that of the debounce timer |
| `DetectProofs!DetectTypeCorrect` | `TypeOK` | inductive as it is |
| `DetectProofs!AlarmIsPrompt`, `VerdictCorrect` | `LastingLevelShown`, `VerdictTrue` | `StreakInv` relates the passes a level has lasted to its votes in this window and to the alarm; with `WINDOW < 2 * QUORUM` a level is the alarm after at most WINDOW + QUORUM + 1 passes (18 passes, 0.9 s). `ReportInv` keeps each reading that may be reported in the band of its level |
| `DetectProofs!AlarmIsBacked` | `AlarmBacked` | `BackedInv`: each level's count is the number of its readings among those of this window, with a lemma on counting in a sliding window |
| `KeyProofs!DetectionReturns`, `ReadingsAreTrusted` | `DetectionComesBack`, `SensorTrusted` | `PanelInv`: what each mode implies of the counters that pace it (`Provisioning`, `Warming`), which colours were shown in each phase (`Colours`), and that the presses counted lie in the window (`PressesCounted`); the timeout is live from boot, so `Provisioning` says of `SubMode` only what the two races it exempts leave |
| `KeyProofs!HealthySessionsAreKept` | `HealthyKept` | `WatchdogInv`: unless something was lost, the server answered within this minute, or within the last and a heartbeat is under way; `Cnt_ERROR` bounds the passes since |
| `KeyProofs!BytesAreEchoed` | `EchoIntact` | `UartInv`: the `in` index of each ring is its `out` and what it stores, wrapped, and the receive ring is never full, so its content can be read off; what is under way is strictly increasing and, with what was dropped, all that arrived. The lemmas say what a ring's content is after a copy, a removal and an append |
| `KeyProofs!TimesAreSound` | `TimeSound` | `TimersInv`: the list is in order, each entry is due after those before it (`Delta`, `Ordered`), none earlier than the time asked for with the ticks not yet taken off (`InTime`), and one of each kind that repeats is in the list or in hand; with lemmas on what putting in, taking out and moving on do to the sums of the times. `SntpInv`: a running client waits for one thing, and an answer only together with its time limit (`Chained`, `OnlyOne`). The calendar by lemmas: the leap years counted up and down from 1970, the day a year begins, the year of a day, the table of the months. `WatchdogRanges`: a discovery has sent no more than its counter says |
| `CloudProofs!CloudKept` | `CloudSound` | `PlatformInv` (beside `Awake` and `Listens`: the timer that asks for the device's timers is armed on a connection only) and `WebserverInv`: what is counted are the pieces of the image under way unless others were counted with them (`Counted`), and the list's pages and its next entry are those of the last page asked for in turn (`Listed`), with lemmas on dividing by the page |
| `NetProofs!LookupsAreSound` | `LookupsSound` | `DnsInv`: the age of an entry that is asked for is the time of the servers before and of the tries of this one (`EntryOK`), and as many callbacks are owed as entries are asked for (`InOrder`), through callbacks that look up names; with lemmas on least elements, on what replacing an entry does to the count, and on the sum of the tries |
| `NetProofs!LinkIsSound` | `LinkSound` | `ArpInv`: the packets of an entry wait in turn, newer than the last sent to its address (`InTurn`), and an address has one entry; `IgmpInv`: the timer of a member that is asked runs out no later than the query, its flag says whether the network heard of the group from this host last, and an idle member's flag is 0 (`MemberOK`); with lemmas on the greatest age, on which entry a search finds, and on what a queue is after an append or a removal |
| `NetProofs!LeasesAreSound` | `LeasesSound` | `DhcpInv`: of the messages under way to the server the current ones come last (`NewLast`), an answer is current only when no outdated message is left before it (`Answered`), so that the acknowledgement a client takes is for the address it asked for, and what was acknowledged is in the list or its station counts as one whose lease ended (`LeasesKept`), also once the list goes round and the server is stuck in it; each handler leads from a client that goes on to one that goes on, with a new transaction or with at most a REQUEST of the same one (`Leads`). With lemmas on what putting in, writing over and taking out do to an ordered list, on the first gap, and on what is left of a list |
| `NetProofs!HeapIsSound` | the heap's half of `MemorySound` | `HeapInv`: the headers form one list from the start of the heap to its end, each with its way back (`Linked`), no free block lies below `lfree` (`Lowest`), what is held are used blocks and all of those (`Owned`), and two free blocks are never neighbours (`Apart`); with lemmas on splitting a block, on joining neighbours, and on the next and the last block of a set |
| `MailboxProofs!IpIsSound` | the IP half of `StackSound` | `IpInv`: the list of netifs has no doubles, who is up is in it and so is the default, and every address of a connection is one of a netif or of one that was removed; with lemmas on taking out of a list, on the first that fits and on broadcasts |
| `CloudProofs!UdpIsSound` | UDP's part of `DeliverySound` | `UdpInv`: the list has no doubles and holds the blocks with a port, whichever way it is reordered, any two of them differ in port or address, DHCP's block is used by nobody else and connected, if at all, to the server's port (it may have none of its own, as its bind may fail unnoticed), and what was told goes with the pieces sent; with lemmas on moving a block to the front, on the first free port, and on what the sizes of the pieces of a message add up to |

**Only model-checked**, and why:

* `MainLoopRevived`, `WaitsEnd`, `StaleSessionDropped`, `EventuallyOnline`,
  `EveryRequestServed`, `LastsAndComes`: liveness, which needs fairness and
  ENABLED and is out of the prover's reach.
* The checksum half of `StackSound`: sums over pieces of any length, by folds.
* `TransportSound`, and of `DeliverySound` the parts of mDNS and the sockets:
  nothing stands in the way but size. The handlers are functions of records
  several calls deep, which every step of a proof would have to expand.
* The pbufs' half of `MemorySound`: what the chain of buffers of a packet holds
  is read by recursion over the chain, which the copy walks through in pieces
  of its own.

The installed provers cannot use the library's induction theorems, which take
an operator. Where a proof needs induction, on the length of a list or the
pieces of a message, it takes the set of the counterexamples and its least
element (`LeastExists`, from the well-foundedness of `<`).

## 7. Plan

The order was: the control core, the mailbox it hands over to, the flash, the
receive buffer, the key, the detection; then what they left open (panel,
watchdog, UART), then what lies below, then the proofs. A run costs a TLC
search of up to three minutes, so new questions join a run that exists where
their bounds agree. What stays open:

1. `Frame`: `WebSocket_Data` and `WebRecvData_Proc` as pure functions (offsets,
   lengths, `idx` modulo 2^16), and RC4 over a small state as its own inverse.
2. Proofs of `TransportSound` and of the rest of `DeliverySound`, a component
   at a time as was done for `Udp`.

## 8. Observations

What the models have to step around, with no run of its own: the code does
it, and no comment or test says otherwise.

Application. `CheckIpStart` runs on every pass until the upgrade, so two
connections can be open at a time (`Mode_Wait`, which `user_config.h:262` says
is there to avoid this, is never entered); the timeout that `user_main.c:58`
says is for "still no WiFi" looks at `SubMode` only, and also fires on a device
that is on the WiFi and waits for its server. `device_safety` covers both. It
also fires 60 s after any boot, in the warm-up or a calibration, as `SubMode`
starts as INIT. The alarm value an app sets (`Alarm_H`) is stored and read back
and has no influence on the alarm: `Detect` compares with 300 and 600 only. A 101
answer that comes while the main loop is stopped leaves the device blind
(`Panel`), or the loop stopped (`Device`), until a long press. A
full UART ring, read linearly, would run past its end; the strict comparison
that decides whether a byte fits prevents it, and `UartInv` says so.

Transport. TCP tells the end of the stream while refused data is pending, and
an end that goes to TIME_WAIT drops that. A netconn's END is lost when its mailbox is full
as the FIN comes, so `netconn_recv` may block for ever; a netconn shut on one
side and deleted is still called back; a failed bind or a second connect
leaves an error that fails every later call. `accept_function` frees a netconn that
finds the mailbox full and leaves it as its connection's argument, so the abort that
follows calls `err_tcp` with freed memory (`api_msg.c:456-464`,
`tcp_in.c:756-761`, `tcp.c:385`). `lwip_select` is not woken by what
is left of a partial read, and events before an accept is done are lost but
for the received ones. `espconn.c:956-957` guards clients only against a second
close; a send after the end was posted uses a freed block; `espconn_udp_sent`
hides the error of an earlier piece. A packet for which there is no memory
in the callback of the last ack is written with the next `espconn_sent` only, and a
close that finds none leaves the connection in CLOSE_WAIT, where a client's has no poll to
try again.

Network. A ping to the other netif's broadcast address is answered;
`netif_remove` leaves the connections of its address; an echo of zeros only is
answered with checksum 0 (`icmp.c:195`). A failed ephemeral bind has already
changed the block's address. DHCP: a repeated REQUEST may move a lease, a NAK
is ignored while checking or bound, ACKs that prolong use old times, an old T1
may fire while requesting. A server without a free address offers and
acknowledges 0.0.0.0, since the client's REQUEST names it
(`dhcpserver.c:469-582`, `dhcp.c:290`), and the client's interface comes up with it. `etharp_cleanup_netif` frees nothing
(`etharp.c:488-491`). A datagram for one of DHCP's ports goes to the client's or the server's block
only, and `dhcp_start` ignores that its bind failed (`udp.c:142-165`, `dhcp.c:702`).
DNS never uses the answers it keeps, since their search is commented out
(`dns.c:975-978`), ignores error replies (`dns.c:784`), keeps the
identifier of the last query only, and frees an entry after its callback.
`igmp_report_groups` starts the all-systems group too. mDNS: a close leaves the
timer and the membership, a second start loses a block.

Time and memory. `sys_timeouts_init` arms TCP's timer without its flag, which
allows a second chain (`timers.c:105,266`). SNTP takes any host's datagram; a
stop leaves a timeout or a lookup behind; a stray answer during a lookup makes
two chains; an answer it cannot use asks the same server for ever.
`pbuf_memfind` skips past mismatches; freeing a ROM pbuf reads a field that was
not set (`pbuf.c:750`). In `mem.c`, `plug_holes`'s two updates of `lfree` never
matter after `mem_free`'s own.

Demo. The returns of a cached lookup and of `espconn_connect` are ignored; the
count of failures is compared for equality; `ap_change` never tries index 4; the
beacon is not armed before the first message. The web server's GET of the wifi
page within 10 ms of a POST frees the configuration; a broken upload leaves its
lengths; any connection's segment is taken for the upload. `system_upgrade_flag`, which
the SDK shares, is modelled as the upload's own.

## 9. Not modelled, and why

* JSON helpers, `hw_timer`: vendor examples that no other file of `app/` calls.
* The bytes of a frame and RC4: planned as pure functions; the mailbox has
  their meaning.
* The light shown by LEDs: outputs on which no state depends.
* The SDK, the SmartConfig library: binaries, modelled by the callbacks
  and calls that the sources use.
* lwIP's reassembly, fragments, AUTOIP, `memp`, `stats`: switched off in
  `lwipopts.h`; `netio.c` is a measurement nothing starts. PPP, SNMP and
  SLIP are not in the build.
* The demo's light, plug, sensor and device search, the other examples, build
  files, linker scripts, tools and images: outputs set from a parameter, or no
  behaviour of the running device.
* Writes past the end of `ubWebRxBuf`: undefined in the code.
