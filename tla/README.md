# A formal model of conc_os

TLA+ modules for the kernel in `src/kernel` and the protocol library in
`src/net`, TLC configurations that check them on small instances, and TLAPS
proofs of the properties that matter most. `PROJECT.json` lists the components,
runs, mutants, the map from definitions to source lines, the hazards the
properties are aimed at, the findings and the theorems.

## 1. The system

conc_os is a single-CPU x86-64 kernel. `kernel_main` sets the machine up with
interrupts masked, enables them, spawns three tasks (serial console, network,
a clock that prints every second) and runs a cooperative executor forever.
Devices reach the tasks only through interrupt handlers, which push onto bounded
queues and wake tasks.

| Component | State | Operations | What makes it correct |
|---|---|---|---|
| Executor (`task/executor.rs`, `task/mod.rs`) | task map, `task_queue` of 100 ids, waker cache | spawn, run_ready_tasks, sleep_if_idle, wake_task | a woken task is polled; the CPU halts only when nothing is ready; the queue never overflows |
| Streams (`task/serial.rs`, `task/network.rs`) | a bounded queue and an `AtomicWaker` each | poll_next in the task, add_byte / add_event in a handler | an item that is queued is handled: no lost wakeup |
| Timer tasks (`task/time.rs`, `time.rs`) | `TICKS`, `TIMERS` ordered by deadline | TimeTask new / poll / drop, tick, expire | a sleep ends, not early, and leaves nothing behind |
| InterruptMutex (`mutex.rs`) | a spin lock and the interrupt flag saved by its guard | lock, drop of the guard | a handler never spins on what it interrupted; the flag comes back |
| Page allocator (`allocation/`, `virtio.rs`) | a bitmap placed inside the memory it describes | new, alloc, dealloc; init_heap and the DMA callbacks | no frame has two owners, none leaks, first fit is found |
| Network interface (`network/handler.rs`, `net/src/arp.rs`, `net/src/dhcp.rs`) | address, mask, gateway; DHCP state; ARP cache with parked frames | init_dhcp, handle_packet and everything under it | only a committed lease configures it; replies reach the right station, in order, once |
| Codecs (`net/src`) | none | parse, serialize, checksum | what is parsed is what was sent; malformed input is rejected |
| Receive path (`task/network.rs`, `network/device.rs`) | device ring, interrupt status, `NET_EVENTS` | virtio_irq, handle_queue_interrupt | every accepted frame is looked at once, in order; no buffer leaks |
| Random numbers (`rng.rs`) | generator state, entropy pool | from_rand, reseed | no output is served twice; reseeding happens |
| Console and VGA (`serial.rs`, `vga.rs`, the panic handler) | line buffer, cursor, `SERIAL_TTY`, `WRITER` | readline, write_str, panic | what is shown is what is in the buffer; a panic is seen |
| Set-up (`main.rs`, `interrupts.rs`, `gdt.rs`, `apic.rs`, `acpi_handling.rs`, `pci.rs`, `memory.rs`) | `Once` cells, interrupt routing, devices in use | one pass at boot | each step and handler finds what it depends on; sources reach their handlers; a probe disturbs nothing |

How they interact: a handler runs with interrupts disabled, between any two
instructions of the main context. It takes InterruptMutexes (`SERIAL_TTY`,
`WRITER`, `TIMERS`, the network driver), pushes to a stream's queue and wakes
its task, which pushes the task's id onto `task_queue`. The executor polls the
task; the network task drains the device and hands each frame to the interface,
which answers through the same driver. Interface and executor share nothing
else: `NETWORK_INTERFACE` is locked by one task only.

What is hard here: the interleaving of handlers with polls, locks and the idle
loop; the AtomicWaker protocol; a clock that advances under a test of the clock;
a card that stays silent about frames; locks held by what panicked; queues at
their limits; and, on the link, messages that are lost, repeated,
reordered or meant for someone else. The `hazards` of `PROJECT.json` name each
at its line.

## 2. Modules

### Executor

`Executor.tla` is the executor with its tasks and the interrupt handlers. The
main context's program counter `pc` steps through `run_ready_tasks`,
`sleep_if_idle` and a task's poll; every access to state a handler shares is a
step of its own. `PopTask`, `PopEmpty` and `Continue` are the ready loop (a
stale id is skipped, a completed task is removed with its waker); `Disable`,
`CheckQueue`, `EnableAndHalt` and `Enable` are `sleep_if_idle`. `FirstPop`,
`RegisterBegin`, `RegisterEnd`, `SecondPop`, `TakeBegin` and `TakeEnd` are
`poll_next` with the two halves of the `AtomicWaker` operations it calls
(futures-util, external: its state word is WAITING, REGISTERING, WAKING or both).
`Open` creates a stream or a TimeTask; `PollLock`, `TestDeadline`, `Ready` and
`Insert` are `TimeTask::poll` inside its lock. `Drop` is TimeTask's Drop, of one
that finished or, after `GiveUp`, of one that did not. `StreamIrq` is one byte or event
in a handler, `Tick` the timer handler, whose expiry loop is `ExpireOne` and
`ExpireDone`. `hlt` is left by any interrupt, and `sti; hlt` lets none in
between. A push onto a full `task_queue` panics, which stops everything.

Abstractions: the serial and the network stream have the same code and are one
parameterised stream; items are counted. `OneShot` tasks complete after one
await. No task of the kernel does yet, but the executor has the code for it.
`Impatient` sleep tasks may drop a TimeTask that is not due, as a timeout around
another future does when that future is ready: found before the TimeTask is polled
in this poll, or after it returned `Poll::Pending`. The kernel's only sleeper is
patient, but TimeTask's Drop is there for the others. Interrupts are on between
giving up and the lock in Drop, so expiry may come first and queue the id of the
task that is running; the task then finds itself polled for nothing, later, with
another TimeTask or none. `TimersAreAwaited` is what Drop owes: without the removal
an entry outlives its TimeTask. What the other future is does not matter to this and
is left out. A
handler that adds several items is several steps, which allows more
interleavings than the machine has, not fewer. The heap has no state here:
`HandlersNeverFree` says of the references to a waker that the one a handler
drops is never the last, since freeing it takes the heap's lock, which the
interrupted context may hold.

`Scheduler.tla` is what the executor promises, without queues, wakers and flags:
tasks have work or have none, a task gives up the CPU only when its work is done,
and the CPU halts only when no task has any. In `Executor.tla` the refinement
mapping makes `work` of the streams' items, the deadlines and the tasks not yet
polled (`HasWork`), and `Schedules` says that every step of the executor is a
step of the Scheduler or none. A lost wakeup does not show in a step; that is
`NoLostWakeup`, and a halt in spite of it breaks `Schedules`. ExecutorProofs proves
the refinement.

`MCExecutor.tla` adds the liveness properties and `QueueNeverFull`.

### InterruptMutex

`InterruptMutex.tla` has two contexts, the main one and a handler, each with a
stack of guards. `LockBegin`, `DisableIfEnabled` and `Acquire` are the three
parts of `lock`, `Release` and `EnableIfSaved` the two of the guard's drop.
`PlainLock` takes a `spin::Mutex` of the main context, which leaves the flag
alone; `SetFlag` is the rest of the kernel turning interrupts on or off while it
holds nothing; `Irq` and `Iret` enter and leave a handler. Guards are dropped
innermost first: every guard in the kernel is a scoped local or a temporary.

### PhysicalPageAllocator

`PhysicalPageAllocator.tla` runs `new` over any memory map of `MemoryMaps`, then
heap and DMA allocations. The bitmap is the set of frames whose bit is 1,
including the bits past the last frame. The scan of `find_contiguous_pages` is
kept as a loop (`ScanUsed`, `ScanFree`, `ScanEnd`) so that the argument for it
is about the code's own `run_start` and `run_length`. `Found` marks and returns,
`NotFound` is `None`, on which both callers panic. Addresses are in frames: the
bootloader's map is in whole frames.

### ArpCache, NetworkInterface, Lan

`ArpCache.tla` is the cache of `net/src/arp.rs` as operators on its value:
`Insert`, `Queued` (the outcome of `queue_pending`) and `QueuePending` (its
effect).

`NetworkInterface.tla` is `handler.rs` for a set of machines that share a link.
`HandlePacket` is one received frame: `HandleOffer`, `HandleAck`, `HandleArp`
(learn, flush the queue in order, answer), `EchoDirect` and `EchoParked`
(`handle_icmp` and `send_ipv4`), and `Ignore`, every early return. `InitDhcp`
is the start. Building and sending a DHCP message cannot fail: `get_random`
always returns `Ok` and the message has a fixed length, so the error returns of
`init_dhcp` and `send_dhcp` have no action. Frames are records with what the handlers test; a
bad checksum, a malformed option field or wrong UDP ports is "malformed". The
sender of an ARP packet is the sender of its frame. An IPv4 address is a pair
and a mask the number of leading parts it keeps, so "the same network" is
computed as the code computes it. `echoes` numbers the replies, and `tx` records
those sent.

`Lan.tla` composes the interfaces with what answers them. DHCP servers and hosts
are external and modelled from what the code expects of them (comments in
`handler.rs` and `dhcp.rs`): a server sets aside, commits or releases addresses,
may bind something else than it offered, may reply by unicast, may acknowledge a
request that names another server, may refuse. The link is a set of deliveries;
one may be taken in any order, never, or, when `Duplicating`, again and again.
`Stray` frames arrive unprompted at any time: in the runs these are echo
requests, ARP requests, and frames every handler must turn away. What is said of
them, `StrayAssumption`, is that nobody impersonates another: ARP and DHCP have no
defence against that, and the code claims none. `Topology` is the shape of the
network that `DeliveredToNextHop` is about: the hosts and the router are local to
the machines, and echo requests come from a host or from outside.

### PacketCodec, DhcpMessage

`PacketCodec.tla` has the formats of `ethernet.rs`, `arp.rs`, `ipv4.rs` and
`udp.rs` on sequences of bytes: `InternetChecksum` (parts, odd last byte, carries
folded back), `Frame` (with `send_frame`'s padding), `EthernetNew`,
`ArpSerialize`, `ArpFromSlice`, `Serialize`, `Ipv4FromPacket`, `SerializeUdp`,
`UdpFromPacket`, and `EchoReply` with the indexing of `handle_icmp`. Around them,
`SendDhcp`, `SendArpRequest` and `HostSend` put a frame on the wire; the link may
change one byte (`Damage`) or cut the frame off (`Truncate`); the `Receive`
actions are the path from `process_rx` to `handle_arp`, `handle_icmp` and
`handle_udp`, which may answer; `HostReceive` reads what this machine sent.
`meant` is what the sender wants to become of the frame, stated by whoever builds
it and not computed by the parser. A slice or an index out of range is the outcome
`Panic`. dscp and ttl, which nothing reads, are constants. The length errors of
`new` and `serialize_ipv4` need payloads of 64 KiB, which no frame carries, and
are left out; messages are shorter than the real 300 bytes. The machine has its
address and its peer's is in the cache; the rest of the interface's state is in
NetworkInterface. The assumptions say of which type the constants are, that a
payload fits in a datagram, that an option of a reply says what RFC 2132 makes of it
(`Meaning`, stated apart from the parser), and that the outcomes without a message
are none of those with one.

`DhcpMessage.tla` is `dhcp.rs` as operators. `FromMessage` makes the checks of the
header in their order (`HeaderError`), walks the option bytes (`ParseOptions`, a
recursive function whose every step is `Walk`, an iteration of the loop of
`parse_options`) and ends with the binding or the error (`Bound`). `BuildDiscover` and `BuildRequest` write the client's messages, which a
server walks in the same format. The header is a record of the fields a reader
looks at; the sixteen bytes of chaddr are the address and what lies behind it. Each
option says what a reader is to make of it, so that the result is compared with
what was written and not with a second parser. In `PacketCodec`, `ReadReply` is the
reading of a reply, whole or cut off anywhere, in `handle_dhcp`, and `ReadAsk` a
server's reading of what was built.

### ReceivePath, FrameChannel

`ReceivePath.tla` is the way of a frame from the card to `handle_packet`. `Arrive`
and `ChangeConfig` are the card: a frame takes a buffer, and sets the queue bit of
the interrupt status unless, under `VIRTIO_F_EVENT_IDX`, the driver has not asked
to hear of it. `virtio_irq` reads and clears the status and adds an event for each
bit; `add_event` drops it while the stream does not exist or is full. `NewStream`,
`InitInterface`, `NextEvent`, `Receive`, `Publish`, `process_rx` and `Recycle` are
`network_task` and the loop it enters for a queue event. `driver.receive` is two
steps, taking a buffer out and telling the card how far the driver has got: a
frame may arrive between them, and the card decides by the old value. The card
and the virtio-drivers crate are external. Sending waits for the card and sets the
queue bit too, so the discover of `InitInterface` is also what first draws
attention to frames that came before the stream existed. That a suspended task
with an event is polled is Executor's `InputConsumed`.

`FrameChannel.tla` is the promise: a queue of accepted frames from which each is
looked at once and in order (`Spec`), and eventually (`Live`). `DeliversFrames` says
that ReceivePath implements it, with the frames not yet handed to `process_rx` as
the queue; `Live` as long as there have been fewer configuration changes than
`NET_EVENTS` has slots (`Roomy`).

### Boot

`Boot.tla` is `init` and `kernel_main`. `EarlySteps` lists the straight-line steps
with the globals each needs and makes; reading one that is missing is the panic of
its `expect`. `init_apic` routes the serial port's interrupt through the overrides
`init_acpi` read from the MADT. The walks for the network card and for the
entropy source are `Skip`, `AttachFails`, `Attach` and `NotFound`, a PCI function
a step; dropping a transport resets its device. From `Enable` on, `Interrupt`
runs the handler of any vector that is routed, and panics if it misses a global.
The firmware is assumed to be a PC's: one I/O APIC with base 0, and no PCI
interrupt on the serial port's input.

### Console

`Console.tla` has three contexts on one CPU: the tasks, the serial handler, and the
panic handler on top of what panicked. Printing is `Lock`, a `PutVga` or `PutTty`
per character and `Unlock`, so that handlers come in between wherever the
InterruptMutex lets them. `Prompt`, `Await`, `Enter`, `Erase`, `Echo`, `TooLong`,
`Ignore` and `PrintLine` are `handle_serial` with `readline`; `Tick` is another
task that prints. `AddByte`, `DropByte` and `WakePanics` are `add_byte` under the
lock on `SERIAL_TTY` that `com1_interrupt_handler` holds meanwhile, `WakePanics`
being finding 1 seen from here. `Panic` is any other panic. The terminal at the
far end (`Shown`) is external: it moves its cursor and overwrites. `Displays` reads
the line back from it by the cursor alone, so that a typed `>` is told from the
prompt.

### Csprng

`Csprng.tla` is `rng.rs`: `InitEntropy` seeds from the sources that answer,
`FillByte`, `Refill` and `RefillAndReseed` are an iteration of `fill` with the
`refill` inside it, `Fallback` is `get_random` without a generator. The cipher is
external: a key is its generation and the hardware draws that went into it, a
byte is the key and place it came from. Requests are not told apart, since
nothing but the position is kept between them.

## 3. Runs

| Run | Bounds | Shows |
|---|---|---|
| executor | two streams, two sleepers, one of each completes, the other sleeper gives up; queue of 5, streams of 1, 3 ticks; fair | `NoLostWakeup`, `NoLostSleeper`, `TimersAreAwaited`, `HandlersNeverFree`, `NeverEarly`, the refinement `Schedules`, and `InputConsumed`, `SleepEnds` |
| executor_queue | queue of 6 | the queue overflows: finding 1 |
| interrupt_mutex | three InterruptMutexes, two plain locks, all nestings; deadlock checked | `NeverSpins`, `HeldMasked`, `FlagRestored` |
| page_allocator | five memory maps of 8 to 11 frames with holes, a heap of 2 pages, DMA requests up to 3 | `AllocsDisjoint`, `AllocsAvailable`, `BitmapExact`, `FirstFit`, `NoneMeansNone` |
| lan_dhcp | two machines that drew the same xid, two servers, one careless and refusing; duplication and reordering | `AddressesUnique`, `ConfiguredBySelected`, `AdvertisesOnlyLeased` |
| lan_echo | one machine, a server that answers by unicast, a router and a host, 3 echo requests, queues of 2, one pending address, duplication, one loss; fair | `InOrder`, `DeliveredToNextHop`, `ParkedNotLost`, and `EventuallyBound`, `ParkedLeave` while nothing is lost |
| lan_loss | one machine, one server, one loss | the exchange is never retried: finding 2 |
| packet_codec | 6 messages (one with computed checksum 0), echo requests with and without header options, ARP requests and replies, malformed and unwanted frames; one change by the link at every byte of the frame. DHCP replies of 14 options: all lists of up to 2, whole configurations in three orders with one option more or less, each header field off in turn; cut at every byte; both types expected | `NeverPanics`, `IntactDelivered`, `DamageNotDelivered`, `ParsesWhatWasWritten` |
| receive_path | ring of 3, event queue of 3, 6 frames of which 2 are rejected, up to 3 configuration changes; fair | `NoFrameStranded`, `BuffersConserved`, and the refinement `DeliversFrames` |
| boot | 3 PCI functions of any type, lists of up to 2 overrides, 3 interrupt inputs | `PanicsOnlyWithoutCard`, `SourcesRouted`, `RunningNeverReset` |
| console | screen of 2 by 2, line of 2, queue of 2, 4 bytes typed of a letter, `>`, erase, enter and a control byte, 1 line of another task | `LineIsShown`, `PanicReported` |
| csprng | blocks of 2 bytes, reseeding every 3 blocks, 13 blocks | `ServedOnce`, `KeyErased`, `SeedKept`, `ReseedsInTime` |

Why the bounds are enough to be interesting. In executor two streams make one
task's interrupt arrive in another's poll, a stream of 1 can be empty and full, a
queue of 5 for four tasks makes duplicates and the panic reachable, and 3 ticks
let a sleep of 2 be set twice. The sleeper that gives up is the one that goes round
its loop: woken for a TimeTask it has dropped, it is polled with the next one in
`TIMERS` and may give up that one too. TLC finds no violation either with
the roles of the sleepers exchanged; the proofs cover any of them.
executor_queue has streams of 2. In page_allocator
the bitmap takes one frame, or two for more than eight frames, and maps begin with a region too small for it, have
holes, and have none that holds it. In lan_echo the third echo request meets a
full queue or a full table. `MAX_PENDING_ADDRESSES = 1` makes the table's limit
reachable with two next hops. `MaxTicks`, `MaxEcho` and `MaxLost` cap counters; at
their bound the environment stops, so runs with them do not check for deadlock.
The page allocator, boot and console stop in a panic, too, boot without interrupts
when it is done, and csprng at `MaxBlocks`, which lets four attempts to reseed
happen.

In receive_path 6 frames go twice round a ring of 3, so that it is full, empty and
drained while frames arrive. The event queue has as many slots as there may be
configuration changes, so that it can be full of them: `NoFrameStranded` and the
liveness of `DeliversFrames` are stated for fewer (`Roomy`), and that bound is
exact, TLC finds a stranded frame with one more (observation below). In boot the
card may lie before, behind or between entropy sources, several cards may be there
and each may fail. In console a line of 2 and 4 typed bytes reach an erased full
line and one too long, and the panic's message is as wide as the screen, so that
it wraps.

In packet_codec `DamageNotDelivered` is about one changed byte: the checksum does
not promise more, and a change of the header length field is caught only because
no message of the run makes the shifted sum come out right. It is not claimed of
a datagram whose sender omitted the checksum.

`SYMMETRY` is used for the locks of one kind and for the two machines of
lan_dhcp, whose stray frames treat both alike; neither run checks liveness.

Every property of a passing run has a mutant: an operator in the module, marked
as one, that changes one definition as a plausible bug would and makes TLC report
that property.

### Fairness

`Executor!Fairness`: the CPU takes steps, a running handler finishes, and the
timer is periodic. Nothing makes a device send. `InputConsumed` and `SleepEnds`
assume `Quiet`, that input pauses, and with it what makes a task give up a
TimeTask: a task that always finds another item never returns from its poll, and the
code has no budget that would make it.

`ReceivePath!Fairness`: an asserted interrupt line is served, since interrupts are
only masked for short, and the network task goes on while it has something to do,
which is Executor's `InputConsumed`. Nothing makes a frame arrive.

`Lan!Fairness`: a machine boots, its network task handles what was delivered,
and peers answer. A delivery that was lost is not on the link any more, so
fairness never brings it back.

## 4. Findings

1. **The task queue can overflow** (`executor.rs:20`, run executor_queue). An
   interrupt between `register` and the second `pop` wakes the task that is
   running: its id is queued, the task takes the item and goes round its loop in
   the same poll, and the next such interrupt queues it again. With 100 slots it
   takes about 100 such arrivals in one poll. The `expect` then panics in the
   handler.
2. **DHCP is not retransmitted** (`handler.rs:308`, run lan_loss), although
   `net/src/dhcp.rs:4-5` says that retransmission lives with the interface. One
   lost message, or a refusal, leaves the machine without an address.

An observation at `task/network.rs:28`, the hypothesis `Roomy` of ReceivePath: the
warning there says that packets are dropped, but what is dropped is the event, and
`virtio_irq` has acknowledged the card's status by then. If the queue is full of
configuration changes, no queue event is left to start the loop; the ring fills,
and a card without a free buffer, or one that was asked (`VIRTIO_F_EVENT_IDX`) for
an interrupt it has already given, raises none. The task only comes back to the
ring with the next frame it sends, and it sends only in answer to frames. It takes
100 configuration changes before the task is polled.

Two comments say slightly more or less than the code. `task/time.rs:86-88` says
a deadline that passes between test and insert would leave the waker parked
forever; with a periodic timer the next tick would expire it, one tick late.
`handler.rs:156` still says that mask and gateway are assumed. The comment at
`main.rs:46-49` holds (`PanicReported`), but not for the reason it gives alone: after a
panic in a task interrupts are still on, and a handler's warnings can write over the
VGA line; by then the serial line has the message.

## 5. Proofs

Each proof module extends its component and proves properties of its run for
every value of the constants, from the named assumptions of that module. Every
invariant used was first checked by TLC on the instance of the run. Where a type
invariant is a property of its own it is the theorem `TypeCorrect` (`RngTypeCorrect`
for the generator); in the others it is a part of the inductive invariant.
`HaltsOnlyIdle` (`HaltedIdle`) and `HandlersMasked` (`HandlerMasked`) are proved and
not repeated in the runs.

- `ExecutorProofs.tla`. Assumptions: stream and sleep tasks are disjoint, only
  sleep tasks are impatient, and capacities are positive. `IInv` has four parts beside `TypeOK`. `ControlInv`
  ties `pc`, `cur` and the interrupt flag together. `WakerInv` says which states
  of the AtomicWaker each step can meet. `StreamInv` is the reason no wakeup is
  lost: a stream task not being polled is queued, or its queue is empty *and its
  waker registered*; and after `register` it is queued or registered, which is
  what the second pop relies on. `SleepInv` says that a suspended sleeper is
  in `TIMERS` with its deadline ahead or queued, and if it is patient one of the two
  and queued once; and that an entry of `TIMERS` has a live task that holds its
  TimeTask (`NoTimerLeaks`), which is the work of `Drop`: an impatient task gets
  there with its entry still in `TIMERS`, queued by expiry, or both. None of the
  properties is inductive alone: each needs what the middle of a poll has
  established. `StreamInv` and `SleepInv` hold until a panic.

  `HandlersFreeNothing` needs `CacheInv` besides: every waker a handler can reach
  has a second reference in `waker_cache`. The cache drops a task's waker when the
  task completes, so the proof has to show that none of the task's is registered
  then: a registered stream has an empty queue, except between `register` and
  `take`, and a task completes only with an item in hand or past `Drop`, which has
  removed its timer.

  `ExecutorSchedules` is the refinement: the initial states map to the Scheduler's,
  and each action is one of the Scheduler's steps or none. `OpenInv` tells the
  streams that exist from the others. The steps that matter are `SecondPop` and
  `PollLock` with what follows it, where a task is parked only without work, and
  `EnableAndHalt`, where `StreamInv` and `SleepInv` turn an empty queue into no
  work at all.
- `InterruptMutexProofs.tla`. Assumptions: the two kinds of lock are disjoint.
  `GuardInv`, `FlagInv` and `HandlerInv`: when the flag is off although the main
  context wants it on, exactly one saved flag is set, that of the outermost
  InterruptMutex; no handler holds a guard that would set it.
- `PhysicalPageAllocatorProofs.tla`. Assumptions: regions of a map do not
  overlap and one of them is the last. `ScanInv` is the loop invariant of the
  scan: the last `run_length` frames are free, the one before is not, and no run
  that ends by `page` is long enough. `AllocInv` carries exactness of the bitmap
  from one call to the next.
- `ReceivePathProofs.tla`. Assumptions: ring and queue are not empty, and the
  rejected frames are frames. `RingInv` joins the type of the indices to
  `BuffersConserved`: neither is inductive alone, since a buffer given back fits
  the ring only because one was in hand. `EventInv` is behind `FramesNotStranded`:
  the card has been told how far the driver got except within `driver.receive`,
  and (`ConfigsCounted`) a run of configuration changes at the end of `NET_EVENTS`
  is no longer than their number so far, so that a full queue in a `Roomy` state
  holds a queue event when another is dropped. `ReceivesInOrder` is the safety half
  of `DeliversFrames`: every step takes the frames not yet seen as the FrameChannel
  would; its fairness half stays with TLC.
- `BootProofs.tla`. Assumptions: those of the model, that is a PC's inputs. `BootInv`
  follows `pc`: what the steps passed have made (`ReadyInv`), which devices may run
  and that a running card has its driver in its cell (`DeviceInv`), and the exact
  set of unmasked inputs (`RouteInv`). That a handler misses nothing comes from the
  second and third together: a vector is routed only for a device that runs. The
  random number generator of `Csprng.tla`, which `init` seeds, is proved about in the
  same module. Assumptions: block size and interval are positive. The invariant that
  carries `ServedOnce` is `Behind`: what was served lies before the current position,
  in generations below the key's.
- `LanProofs.tla`. Assumptions: `LanAssumption` (pools, server identifiers and
  stations are distinct, the bounds are numbers), `StrayAssumption` and those of
  ArpCache and NetworkInterface. `LanInv` speaks of the frames on the link as well
  as of the machines. `FrameInv`: an ARP frame gives an address its sender owns, an
  acknowledgement for a client repeats what its server has committed to that client,
  and a DHCP message a server takes was sent by the machine it names. `LeaseInv`: a
  committed address is of the server's pool and one client's. `ClientInv`: a machine
  that requests has a server in mind, and a bound one holds what that server
  committed to it and takes part in no exchange any more. Uniqueness follows from
  the three, also when messages are repeated after the exchange is over or two
  machines drew one `xid`. `EchoInv` says of each cache entry whom it belongs to and,
  while it is pending, that its parked replies are in order; and of each reply sent
  that its next hop is resolved. `InOrder` is a part of it and not inductive without:
  an entry once resolved stays so, hence nothing was sent to a next hop that still
  has replies parked, and a direct reply finds none that it would overtake. That a
  station has one next hop only rests on the uniqueness of addresses. Two theorems have hypotheses of their own:
  `RepliesReachNextHop` has `Topology`, which `MCLan` asserts of the instance of
  lan_echo, and `SelectedServerBinds` has a link that repeats and does not lose, as
  in lan_dhcp: the property points at the request, which only such a link still
  has.
- `ConsoleProofs.tla`. Assumptions: the screen is at least two characters wide (a
  message of two would meet itself otherwise), the buffers are not empty, and
  printable bytes are told from newline and backspace. `LockInv`: a console is held
  only with interrupts disabled, by a context that is not interrupted; only a com1
  handler that has panicked keeps one for ever, and then interrupts stay off.
  `PanicInv`, `VgaInv` and `TtyInv` follow the message character by character on the
  screen and on the line; the case that needs `LockInv` is the spin on `SERIAL_TTY`,
  where nobody is left who could write over the screen. `LineInv` has, for each rest
  of an echo or of an erasure still to be sent (`Showing`), what the row looks like
  halfway, for a line of any length.
- `PacketCodecProofs.tla`. Assumptions: those of the model, `CodecAssumption`,
  `MessageAssumption` and `OutcomesApart`. The formats are about sequences of any
  length, so most of the module is lemmas about the operators, and they need
  induction: a statement that fails for some number fails for a least one (`Least`),
  which gives `Induction` over a set of numbers, the values a recursive function takes
  (`Iterates`), sums over concatenations (`PartSumConcat`) and the result of adding
  the carries until none is left (`Folded`, the remainder by 65535 except that a
  positive multiple gives 65535 itself).

  `ParsesWritten` (`ParsesWhatWasWritten`, which is inductive as it stands) rests on
  `ParsesEncoded`: after k iterations, pads included, the loop of `parse_options`
  stands in front of item k + 1 and has stored what the first k items mean, or has
  ended with the error that the items or the cut call for.

  `PanicsNever` has `CodecInv`: what is on the wire is bytes. The checks of each
  `from_packet` leave room for every slice it takes. `handle_icmp` looks at no length
  and is safe for another reason (`IcmpInRange`): an empty message has the sum 0,
  and 8 alone, or 8, 0 with fewer than two bytes behind, cannot add up to 65535, so
  all of these were dropped for their checksum.

  `IntactArrives` has `IntactInv`: a frame in which nothing was changed is what a host
  sent, or one from which the host reads what was meant. `At` says that bytes lie at a
  place of a sequence, and carries each field through concatenation, padding and
  slicing. A checksum computed with 0 in its place makes the sum a positive multiple
  of 65535, also when it is sent as 65535 for 0. The theorem has a hypothesis on the
  frames of hosts, `KeepsFormat`, since `meant` is stated by their sender: each is an
  ARP packet; an IPv4 packet with its true lengths and up to ten words of options that
  carries a datagram (with or without checksum), an echo request or another ICMP
  message, or is a fragment, of another protocol or for another machine; a frame of
  another kind; or, to be rejected, an ARP packet with another fixed field, an IPv4
  packet of another version, with a wrong header length, total length, flag or header
  checksum, a datagram with a wrong length or checksum, or an ICMP message with a wrong
  checksum. The frames of the run are all of these kinds.

Only model-checked, and why:

- `InputConsumed`, `SleepEnds`, `EventuallyBound`, `ParkedLeave` and the fairness in
  `DeliversFrames`: the prover does not do liveness. The safety they rest on is
  proved.
- `DamageNotDelivered`, which holds of the packets of the run and is no theorem: the
  internet checksum finds every change of one byte it covers, but a change of the
  header length moves the border between options and data, and the data of a packet
  may be such that the longer header adds up as well. TLC finds it with a datagram
  from port 65211 to 68 of the bytes 0, 8, 0, 0: with one word of options more, the
  ports are options that make up for the change, and what follows them reads as an
  empty datagram without a checksum. That is the format's weakness, shared by every
  reader of it; `handle_udp` has no use for the ports this one comes out with.
- The two violations, which are behaviours to be shown and not invariants.

## 6. Not modelled

- Register and port access: the local and I/O APIC's registers, the PIT calibration,
  PCI configuration space, the UART. Boot and Console have what it is for.
- The AML callbacks of `AcpiHandler` (`acpi_handling.rs:14-198`): reads and writes
  for an interpreter the kernel never starts, and mappings that add an offset.
- `memory.rs` and descriptor tables: values handed to the x86_64 crate once.
- The fault handlers of `interrupts.rs` (print and stop) and `enumerate_pci`, which
  only prints and has no caller.
- The heap's free list and the B-tree of `TIMERS`: other crates'. A handler that
  removes a timer may free a node of the tree if there are more than eleven
  sleepers; the kernel has one.
- Several I/O APICs or a base other than 0 (`apic.rs:136`).
- The cipher and the entropy sources of `rng.rs`, beyond what they are called for.

## 7. Plan

Every component with state of its own is modelled and checked. Every safety
invariant, action property and step refinement of the runs is proved for all values
of the constants, `DamageNotDelivered` excepted.

Left:

1. `DamageNotDelivered` for the frames of which it is true: those without the change
   of a header length, whose checksums hold.
2. The exactness of `Roomy`, as a bound in the proof and not only as TLC's
   counterexample.
