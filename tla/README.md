# A TLA+ development of zportal

zportal joins two TUN devices with a TCP connection. Each side runs one process:
packets read from its TUN device are framed and sent over the connection, frames
received from it are checked and written to the TUN device. All I/O of a running
session goes through one io_uring instance and one loop. This directory models
that program, from the command line to the end of the process, checks the models
with TLC and proves with TLAPS the invariants of both halves of a session, alone
and on the queue they share, of a tunnel made of two sides, of the device's netlink
calls, of the connection through proxies and of the program from start to end, and
the properties of networks, of addresses and their texts, and of the checksum.

`PROJECT.json` is the machine-readable index: components, runs, mutants, the map
from definitions to source lines, findings, hazards and theorems.

## 1. Inventory

| Component | State | Operations | Hard because |
|---|---|---|---|
| Transmitter (`session/transmitter.cpp`) | `frame_queue_`, `cooling_down_`, `send_in_progress_`, `current_frame_state_`, a group of provided buffers | `arm_read`, `handle_read_cqe_`, `handle_send_cqe_`, `kick_send_` | READ and SEND complete in any order, sends are partial, the multishot READ ends on its own, buffers run out |
| Receiver (`session/receiver.cpp`) | `input_buffer_queue_`, `buffer_refcounts_`, `used_buffers_`, parser state, `output_frame_queue_`, `write_in_progress_`, `cooling_down_` | `arm_recv`, `handle_recv_cqe_`, `kick_parse_`, `handle_write_cqe_`, `kick_write_` | TCP cuts the stream anywhere, one buffer serves several frames and one frame several buffers, buffers run out |
| Session (`session/session.cpp`) | ring, TUN device, socket and the two halves | `create_session`, `run`, moves | one loop for everything, started step by step, ended by any error |
| Frame format (`frame_header.*`, `crc.cpp`) | none | encode and check a header | the two sides must agree |
| IoUring, BufferGroup, Cqe, Operation | the ring, groups by id, a buffer ring each | `create_buffer_group`, `get_buffer`, `return_buffer`, `get_sqe`, `submit`, `wait` | buffers belong to the program or the kernel, never both; lifetime under moves |
| Monitor (`tools/monitor.cpp`) | a pointer to the TUN device | `arm_timeout`, `handle_cqe`, `print` | shares the completion queue |
| TunDevice (`net/tun.cpp`) | descriptor, netlink socket, `mtu_`, sequence counter | `create_tun_device`, `set_up`, `set_down`, `get_stats` | answers to earlier requests stay in the socket |
| connect_to, socks5_connect (`net/connection/`) | a socket | connect through a chain of proxies | partial reads, replies of variable length, the tunnel's first bytes behind them |
| main, create_listener, accept_from (`app/main.cpp`, `net/connection/listen.cpp`) | the objects alive, each with its descriptor | the statements of `main` | every call may fail, and everything created so far must go exactly once |
| IoUring, Session, FileDescriptor, Socket, TunDevice as owners | descriptors, buffer groups, pointers between members | construction, move, destruction | objects are built in one place and used in another |
| parse_cli_arguments (`tools/config.cpp`) | `Config`, `end` | one option after the other | any order, repetition, limits |
| Addresses (`net/address/`, `net/resolve.cpp`) | none | parse, print, check, resolve | overlapping formats, lengths with and without a final zero |
| Cidr (`net/address/cidr.cpp`) | none | `get_network`, `is_in_network` | shifts by the whole width, ends of bytes |
| crc32c (`tools/crc.cpp`) | none | software and SSE 4.2 variants over segments | alignment, cuts, agreement of the two sides |
| support checks, errors, debug output | a cached answer | probe, format | the probe uses a ring of its own |

How they interact. `main` parses the command line, creates the ring, the TUN
device (netlink requests) and the connection (connect or accept), sets the
interface up, moves the three into a `Session` and calls `run()`. `run()` arms RECV and READ, prints the statistics once, arms the
monitor's TIMEOUT in monitor mode, and then takes one completion at a time from
the ring and gives it to the transmitter (READ, SEND), the receiver (RECV, WRITE)
or the monitor (TIMEOUT). The halves share the ring and the descriptors and no
other state. Two sessions share only the TCP stream.

What makes each part correct: no buffer is leaked or returned while in use; each
multishot request is with the kernel exactly once or deliberately paused, and the
pause ends; at most one SEND and one WRITE are under way; the stream holds the
packets read, in order; the packets written are those of the stream, and nothing
after the first invalid frame; one direction does not starve the other; a netlink
call takes its own answer; after connect_to the stream starts at the first byte
of the peer's first frame; every descriptor has exactly one live owner and every
pointer leads to the session that runs; what is parsed means what was written;
networks and checksums are what they are defined to be. The hazards behind these, each at its line, are listed
in `PROJECT.json`.

## 2. Modules

| Module | Models |
|---|---|
| `IoUring` | CQEs, the provided-buffer ring and the results of ring operations, as operators without state |
| `Frame` | the wire format and the stream as bytes known by what they are part of; `Decode` is the reference meaning of a stream |
| `Transmitter` | `zportal::Transmitter` and the kernel's side of its READ and SEND |
| `Receiver` | `zportal::Receiver` and the kernel's side of its RECV and WRITE |
| `PacketChannel` | the abstract specification: a reliable FIFO channel of packets that may break |
| `Tunnel` | one direction: a `Transmitter`, the byte stream, the peer's `Receiver`; implements `PacketChannel` |
| `Session` | `Session::run`: both halves of one side and the monitor on one completion queue |
| `TunDevice` | the device's netlink requests and their answers |
| `Connection` | `connect_to` through SOCKS5 proxies |
| `Config` | `parse_cli_arguments`, one action per turn of its loop |
| `Startup` | `main` with every object that owns a descriptor, the kernel's descriptors and registered groups; extends `Config` |
| `Cidr`, `Address` | pure: networks as bits; addresses, their texts and `resolve` |
| `Crc32c` | the loops of `crc32c`, one action per turn, beside the software variant over the whole message |
| `Algorithms` | calls of the operations of `Cidr`, `Address` and `Crc32c`, one at a time |
| `StreamLemmas` | lemmas on sequences, queues, `FlattenSeq`, occurrences and frames that the proofs share |
| `TransmitterProofs` | theorems about `Transmitter` |
| `ReceiverProofs` | theorems about `Receiver`: its buffers and requests; the stream and what is written of it |
| `TunnelProofs` | theorems about `Tunnel`, from those about both sides |
| `SessionProofs` | theorems about `Session`, from those about both halves |
| `TunDeviceProofs`, `ConnectionProofs` | theorems about `TunDevice` and `Connection` |
| `ProgramProofs` | theorems about `Startup`, and about the calls in `Algorithms` of `Cidr`, `Address` and `Crc32c` |
| `MC...` | instances for TLC |

### Correspondence

Variables named like members (`frame_queue_`, `buffer_refcounts_`, ...) are those
members. Others are the kernel's: `br_` is the ring of free buffers (a FIFO),
`mem` what each buffer holds, `reading`/`sending`/`recving`/`writing` whether the
kernel holds that request, `cq` the completion queue (a FIFO). `tun_rx`, `wire`
and `tun_tx` record packets and bytes. `run_result` is "None" until `run()`
returns, then the name of its `ErrorCode`.

*Transmitter.* A handler is an action: `ReadPacket`, `ReadNoBuffers`,
`ReadFailed`, `ReadRearmFailed`, `ReadNoMemory` are the ways through
`handle_read_cqe_`; `SendDone`, `SendFailed`, `SendRearmFailed` those through
`handle_send_cqe_`. Each includes the `kick_send_` it ends with. The kernel's
actions (`Kernel...`) interleave with them: it fills the next free buffer, ends
the READ early, with ENOBUFS or with an error, and accepts any part of what SEND
offers, reading the bytes the iovecs point to at that moment. A buffer reused too
early therefore shows up on the wire.

*Receiver.* Handlers with loops are one action per iteration (`ParseHeader`,
`ParsePayload`, `ReleaseBuffer`), so that the kernel can take a returned buffer
before the handler ends; `cqe_` is the completion being handled and no other
handler runs until it is `idle`. Segments of frames point into buffers and are
read when the kernel writes them.

*Session.* `phase` is the next statement of `run()` before its loop; the kernel
works meanwhile. `Transmit` and `Receive` are the handlers of the two halves on
the shared `cq`; `Tick` is the rest of the dispatch, the monitor's handler among it.
`TimeoutMultishot` says whether the headers define `IORING_TIMEOUT_MULTISHOT`:
with it the kernel keeps the TIMEOUT, without it the handler arms the next one.

*TunDevice.* `nl_send_raw_` starts a call, `Recv` is one iteration of the reading
loop of `nl_send_acked_` or `get_stats`. The kernel may put the link message and
the acknowledgement in one datagram or in two. Attributes are not modelled.

*Connection.* `step` is where `socks5_connect` is, `Send` and `Recv` are one
iteration of `socket_send` and `socket_recv`. Proxies accept, refuse, answer with
every address type or an unknown one, or close; the peer's bytes may follow the
last reply at once.

*Config.* One option is one step; texts are accepted or throw. `MtuValues` are
numbers `stoll` may return.

*Startup.* `pc` is the statement `main` has reached. `scope` lists the live C++
objects that own a descriptor, in the order of their construction; leaving a
block, returning or failing destroys them in reverse order, one per step, and
`~IoUring` first frees its groups, one per step. A session's objects are its ring, the
device's netlink socket and descriptor, and the connection; `main`, the local
session of `create_session` and the session in its result each have a set. `Fails`
is any call that fails, `GroupNoMemory` and `Crash` are what the members
`create_buffer_group` has not initialized may do when it has to give up. The
probe of `support_check::recv_multishot` runs inside `run()`. What the kernel
does when asked through memory that is no ring any more is any of its choices.

*Address.* A text is a sequence of pieces (`unix`, `:`, a port, a name, ...), and a
piece takes one byte of `sun_path`. The program never gets an IPv4 `SockAddress`
from the command line: the pattern for it is a raw literal with line breaks, and an
ordinary IPv4 text matches the pattern of host names and is resolved later. The
patterns overlap: `unix:80` is a path and would be a host name if the order changed.

*Crc32c.* A word is the set of its one bits. The instruction is modelled as the
processor's manual defines it, by a polynomial division.

### Abstractions

- A byte is a record that tells its place in a header or a packet. Byte order and
  flags are not visible; a field read from the wrong place has a value no frame
  has. `wire_size` (16 in the code) is a constant; the fields keep their order.
- `crc32c` has no collisions among the packets of a model.
- Submission needs no state because every request is submitted before the next
  one is prepared. When arming or submitting fails, the handler's error ends the
  session; what the members hold then is not looked at again.
- `is_valid` and `WrongOperationType` checks are left out: `run()` only reaches
  valid objects and dispatches by type.

## 3. Runs

| Run | Bounds | Shows |
|---|---|---|
| `transmitter` | 4 buffers, header 2, MTU 2, 5 packets, failures | buffer ownership, one READ, one SEND, oldest frame first, the wire's contents, no internal error; cooldowns end, every packet is sent |
| `receiver` | 2 buffers of 4 bytes, header 2, MTU 2, up to 3 frames, each valid or with a bad magic number, size or checksum, failures | types, reference counts, ownership, one RECV, one WRITE, packets in order, exactly the first invalid frame rejected |
| `rx_liveness` | 4 buffers of 2 bytes, header 2, MTU 1, 3 frames | every cooldown ends with RECV armed again; all frames are written |
| `rx_stall` | 4 buffers of 1 byte, header 1, MTU 2, 3 frames | **violation**, see section 6 |
| `tunnel` | 2 sending, 4 receiving buffers, MTU 2 against 1, 2 packets | refines `PacketChannel`, safety and liveness; only packets above the receiver's MTU end it |
| `session` | 2 and 2 buffers, 2 packets, 1 frame, 1 tick, failures, multishot TIMEOUT | both halves keep their invariants on one queue |
| `session_liveness` | 2 and 4 buffers, 2 ticks, no failures, TIMEOUT not multishot | both directions make progress; one TIMEOUT at any time |
| `tun_device` | sequence numbers modulo 3, 3 units of traffic, failures | answers are matched, the socket is drained, calls return |
| `connection` | up to 2 proxies, every address kind, 2 bytes of the peer, failures | alignment, order of requests, honest verdicts; `connect_to` returns |
| `algorithms` | every prefix, addresses that differ in one bit at ends and inside of bytes; texts of up to 6 pieces, `sun_path` of 4; messages of up to 21 bytes in one or three segments at aligned and other addresses | networks, addresses and checksums are what they are defined to be; documented formats, `unix:` and `unixa:` included, end as what they name or are refused; accepted texts can be used, printed and parsed again |
| `startup` | every order of options, 7 MTU values around the limits, one proxy; failure of every call | only documented configurations start; descriptors, groups and pointers through all moves and destructions |
| `group_release` | the same | **violation**, see section 6 |

Why the bounds are enough. Two buffers make the ring run empty at once and let
every order of ENOBUFS, SEND and READ completions happen; with four there can be
several frames queued behind the one being sent, and the threshold of half the
buffers is strictly between none and all. Headers of two bytes can be cut, and so
can payloads of two bytes. A receive buffer of four bytes can hold the end of one
payload, a header and the start of the next payload, the smallest case in which
two frames share a buffer. More packets than buffers make every buffer be reused.
Numbers of buffers are powers of two, as the kernel demands. Sequence numbers
modulo 3 wrap and still tell the two most recent requests apart.

`rx_liveness` uses at least 2 * mtu + wire_size buffers, the bound below which `rx_stall` exists: the frame being written holds at most mtu buffers,
and the chunks behind it, if they complete no frame, hold at most
wire_size + mtu - 1 bytes.

A CRC is affine over the bits of messages of one length, so a message of
zeros and ones with a single bit each exercise all of its bits; 21 bytes at an
unaligned address pass through every loop of the hardware variant. Texts of six
pieces are longer than a pattern's fixed part and fill `sun_path` with and
without room for the final zero. `Startup` needs no bound but that on proxies.

Deadlock is checked in `algorithms`, where every call returns. Elsewhere it is
not: a session stops when it has ended or has nothing to do, and so do the
device, the connection and the process.

Every property has a mutant of the code in `PROJECT.json` that violates it; the
mutated operators stand before the ones they replace, marked `Mutant:`.

## 4. Fairness

- Handlers (`Handle`, `Run`): the loop runs whenever a completion is queued; the
  process is scheduled.
- `Sends`: the socket goes on accepting bytes or fails. TCP does both as long as
  the peer's receiver reads, which is why `Tunnel` composes the two halves.
- `Recvs`, `Writes`: the network delivers what was sent; a TUN device takes
  packets.
- Nothing is assumed about packets arriving or about the kernel ending a
  multishot request, and in `Session` nothing about the timer.
- `TunDevice`: the kernel answers every request. `Connection`: the program goes on
  (`Progress`, which contains no failure of a call), and a proxy answers or the
  connection is closed; the code has no timeout, so without this nothing can be
  said.

## 5. Proofs

TLAPS checks the theorems below for every value of the constants that the named
assumptions of the modules admit: `TransmitterAssumption`, `ReceiverAssumption`,
`WireSizeAssumption`, `TunnelAssumption`, `SessionAssumption`, `TunDeviceAssumption`,
`ConnectionAssumption`, `ConfigAssumption`, `PathSizeAssumption` and those of
`Algorithms`. They say that counts are positive, that `Wires` are
sequences of the bytes of frames (`Wires \subseteq Seq(Bytes)`), that a route has a
target (`Routes \subseteq Seq(AddressKinds) \ {<<>>}`), that a remote address has the
length its family has and fits into the `sockaddr_storage` it is read into
(`RemoteAssumption`), that a message consists of bytes and the segments given for it
make it up (`MessagesAssumption`), and the like; none is
narrower than what the program can be started with. Each theorem is about `Spec`,
with system calls that may fail or not.

| Module | Theorem | Statement |
|---|---|---|
| `TransmitterProofs` | `TransmitterTypes` | `Spec => [](TypeOK /\ CurrentIsOldest)` |
| | `SendsSerialized` | `Spec => [](SendSerialized /\ NoIdleQueue)` |
| | `ReadNeverLost` | `Spec => []ReadArmedOnce` |
| | `BuffersOwned` | `Spec => []BufferOwnership` |
| | `CoolDownNeverStuck` | `BufferCount >= 2 => (Spec => []CoolDownDrains)` |
| | `NoInternalErrors` | `Spec => []NoInternalError` |
| | `WireIsStream` | `Spec => []WireInOrder` |
| `ReceiverProofs` | `TypesAlways` | `Spec => []TypeOK` |
| | `WritesSerialized` | `Spec => []WriteSerialized` |
| | `RecvNeverLost` | `Spec => []RecvArmedOnce` |
| | `RefcountsExact` | `Spec => []RefcountExact` |
| | `BuffersOwned` | `Spec => []BufferOwnership` |
| | `PacketsInOrder` | `Spec => []WrittenInOrder` |
| | `ErrorsHonest` | `Spec => []NoSpuriousError` |
| `TunnelProofs` | `OnlyLargeRejected` | `Spec => []OnlyLargePacketsRejected` |
| | `TunnelIsChannel` | `Spec => Channel!Init /\ [][Channel!Next]_(Channel!vars)` |
| `SessionProofs` | `SessionOwns` | `Spec => []RequestsAndBuffers`: all of `OwnershipShared` but `CoolDownDrains`, for every number of buffers |
| | `SessionShares` | `tx_queue_length >= 2 => (Spec => []OwnershipShared)` |
| | `TimeoutNeverLost` | `Spec => []MonitorArmedOnce` |
| `TunDeviceProofs` | `AnswersAreOurs` | `Spec => []AnswerIsOurs` |
| | `SocketStaysDrained` | `Spec => []SocketDrained` |
| | `DeviceIsConfigured` | `Spec => []DeviceConfigured` |
| | `StatsGrow` | `Spec => StatsNeverGoBack` |
| `ConnectionProofs` | `AlwaysAligned` | `Spec => []StreamAligned` |
| | `AlwaysInOrder` | `Spec => []RequestsInOrder` |
| | `AlwaysHonest` | `Spec => []VerdictHonest` |
| `ProgramProofs` | `DescriptorsAreOwned` | `Spec => []DescriptorsOwned` |
| | `GroupsRegistered` | `Spec => []GroupsStayRegistered` |
| | `SessionIsWired` | `Spec => []SessionWired` |
| | `MembershipIsPrefix` | `is_in_network` holds exactly if the families are one and the bits before the prefix agree |
| | `NetworkIsPrefix` | `get_network` keeps the bits before the prefix and clears the others |
| | `NetworkHasSameMembers` | a network and its canonical form have the same members |
| | `CidrCallsExact` | `CallsSpec => []CidrExact` |
| | `PrintedIsTakenBack` | `CallsSpec => []PrintedReturns` |
| | `FormatsAreDocumented` | `CallsSpec => []DocumentedFormats` |
| | `RemoteIsPrinted` | `CallsSpec => []RemotePrinted` |
| | `VariantsAlwaysAgree` | `CallsSpec => []VariantsAgree` |
| | `RegisterIsDivision` | `CallsSpec => []CrcIsRemainder` |

TLC checks the same properties on the small instances of section 3.

**Transmitter.** `TypeInv` (types and `CurrentIsOldest`) is inductive: popping the
queue when a frame is complete is type correct only because the current frame is
its head. `SendInv` adds that `send_in_progress_` is exact and no queue is idle;
each needs the other, since a handler that finds a SEND in progress leaves the
queue alone. `ReadArmedOnce` and `BufferOwnership` are inductive relative to
`TypeInv`; the work is in lemmas on what taking the head of `cq` and appending to
it do to the sets of positions the invariants speak of (`FilledTaken`,
`ReadEndTaken`, `SendPosted`, ...).

`CoolDownDrains` is not inductive: an ENOBUFS still in the queue will start a
cooldown when it is handled, possibly long after buffers have come back. The
strengthening `EmptyBehind` says what such a completion finds: when the kernel
posts it no buffer is free, every filled completion is ahead of it, and while it
waits at most one buffer comes back, because at most one SEND completion can be
ahead of it. By `BufferOwnership` the other buffers are then queued frames when
the ENOBUFS is handled, and by `NoIdleQueue` a SEND is under way. With one buffer this fails, which is why
`BufferCount >= 2` is a hypothesis; the program creates 4096.

`NoInternalError` needs `ProgressInv`: a frame under way has bytes
left to send, the SEND request offers exactly these, and a completion counts at
least one and no more of them.
For `WireInOrder`, `InOrder` splits the packets read into those whose frames are
complete on the wire (`done` of them), the queued ones and those in completions,
in this order: `QueueHolds` and `CompletionsHold` say that the buffers of the
latter two hold these packets, and `WireHolds` that the wire is the stream of the
`done` frames and the sent part of the next. That a buffer keeps its packet while
it is queued is `BufferOwnership`.

**Receiver.** `ShapeInv` has the types and how parser state, handler, chunks and
WRITE fit together; the bounds of the parser's offsets depend on the header it
parsed, so types alone are not inductive. `ArmingInv` counts the places the RECV
request can be in. `RefsExact` gives each reference count as the occurrences of
the buffer in the frame being built and in those queued, less what the handler has
released; the lemmas on `Occurrences` and `FlattenSeq` carry it through appending
a segment, finishing a frame and dropping the oldest. `Owning` derives ownership:
a buffer has one owner, `used_buffers_` counts the held ones, and a count of zero
means that nothing else refers to the buffer.

`StreamInv` relates all this to `Decode`, the reference meaning of the stream.
`Passed(start, n)` says that the first `n` frames of the stream end at byte
`start`: it is a walk over the stream, without recursion. `ParsesFrom(start)` says that the parser's
header and payload are the next bytes, and that the current chunk and the chunks
in completions follow them without a gap. `Written`, `Queued` and `Answered` say
that the TUN device got the first packets, that the segments of each queued frame,
read through `mem`, are the next ones, and that a WRITE completion reports its
packet's size. Ownership again is what keeps `mem` still under them. `Decoded` is a
recursive function; the induction over a stream it needs is done with the library's
`NatSetInduction`, for the set of the numbers at which the claim holds.

**Tunnel.** `TxP` and `RxP` instantiate the two proof modules for the two sides,
with the tunnel's variables; the lemmas named `...Same` say that their actions are
those of the instances `Tunnel` composes. `TunnelInv` is both sides' invariants
with `Delivered` and `Rejected`. A step of the sending side is one of `TxP` and
only makes the receiver's stream longer (`Grows`, under which `Following` is kept).
A step of the receiver leaves the sender alone. `Means` says what `Decoded`
returns for a stream of frames of given packets: those packets, up to the first
that is too large. Since the wire is such a stream by `WireInOrder`, every written
packet is one that was read, in order, and a protocol error has a large packet as its cause.
For `TunnelIsChannel`, taking a packet from the TUN device maps to the channel's
`Accept`, writing one to `Deliver`, ending a side to `Break`, and all else to a
stutter.

**Session.** `TxP` and `RxP` instantiate the proofs of the two halves once more,
each with its part of the ring's completion queue: `Chosen` keeps the completions of
a half's types in their order. Taking or adding a completion of other types leaves a
part alone (`TakenOther`, `PostedOther`), so each step of the session is a step of one
half and a stutter of the other, or a stutter of both (`Steps`), and `Halves` gets
its invariants from theirs. run() arms the two requests after both halves exist, while each
half starts with its own armed; `RxRecving` and `TxReading` say "armed" until run()
has done it, and `Starting` that the kernel holds nothing before. A session that has
ended takes no step (`GoesOn`), so the invariant is only needed while it goes on.
`ChosenPlaces` numbers the places of a part in the queue, a bijection through which
`BufferOwnership`, `ReadArmedOnce` and the like come back to the ring's queue.
`OneTimeout` is the same for the monitor's part, which has one completion exactly when
the kernel does not hold the TIMEOUT; it needs nothing of the two halves but the
types of their completions.

**TUN device.** `Socket` describes the datagrams in the netlink socket as the
waiting call will see them: some it skips, because their number is that of an
earlier request, then its own answer, if it has been given, then nothing but what
it will leave behind. It needs `Numbered`: at most the preceding call can have
left an answer, so a modulus of 2 already tells them apart.

**Connection.** `Reply` is what the current `socket_recv` has read and what waits
in the socket behind it, so that it does not change when recv returns a part.
`Socket` says that it consists of exactly the `Remaining` bytes of the reply and
then the peer's bytes (`ThenTunnel`), and what the bytes that are left tell of the
proxy (`Tells`); `Enough` that the bytes that tell the length are there.
`Course` ties the step to the requests made and answered. Completing a part moves
`Remaining` by what was read (`CompleteStep`); everything else leaves `Reply` as it
is or appends to it.

**Start and end of the program.** Which objects are alive is a function of the
statement (`ScopeAt`), and while objects are destroyed `scope` begins with what will
be alive at the statement `main` goes on with (`Label`): `Scoped`. `Hold` says that
descriptors and objects are matched one to one, with the right kinds, and `Placed`
where the ring, the device and the connection are at each statement, so that a move
never overwrites an open descriptor. `MaxFd` bounds the open descriptors by statement; it is what
makes the lowest free ones exist. Together they are `DescriptorInv`. `GroupInv` adds
how many groups each ring has at each statement and that the kernel's registrations
are those groups under the rings' descriptors: a group freed through the
moved-from ring finds no descriptor, and one of the probe goes with its own ring.
`WiredInv` follows the pointers through the moves, and the configuration through the
option loop (`ConfigInv`), for every number `stoll` returns and every number of
proxies.

**Networks.** The theorems on `Cidr` hold for every address and prefix its constructor accepts,
where the run tries a few addresses. `MaskKeepsPrefix` says which bits the shifted
word keeps, the empty prefix being the case that needs the code's special branch;
for IPv6, `BytesAgree` turns the agreement of full bytes and of one masked byte
into the agreement of bits by dividing a bit's number by eight. `CidrCallsExact`
is an invariant of `Algorithms` by cases on the call.

**Addresses.** `ParsedOrRead` says what the last call was: its arguments are of those
the program may be given and its result is the operation's. The rest is about one
call, for every text (a sequence of strings) and every size of `sun_path`. Each
format is taken apart with `SchemeAndName` or by the position of its port, what the
constructor copies into `sun_path` is read back by `str` (`PathReturns`,
`NameReturns`), and as the printed text matches the same pattern and no earlier one,
`parse_address` returns the same address. `FormatsAreDocumented` has one lemma per
documented form (`Ip4Documented` to `NameDocumented`); for `unix:` and `unixa:` it says
which bytes of `sun_path` the kernel reads, and `NamePart` that a text with such a
scheme which the scheme's pattern refuses matches no other. `RemotePrinted` is arithmetic on the length
`getpeername` reports, the unnamed socket and a path without a final zero being the
cases where it is tight.

**Checksum.** `RegisterAfter(bytes, n)` is one formula for the register behind the
first `n` bytes: as many turns as they have bits, on the word that holds them all.
Both variants keep it (`CrcInv`), whatever the segments, because of two facts. Bits
above those the turns reach only move down (`HighBitsWait`), so a byte may be xored
into the register when its turn comes or with all the others at the start
(`BitsAfterBits`). And the division the instruction makes takes the same turns on the
reflected word (`DivisionIsBits`, `InstructionIsBits`), for a value of any width; a
byte, four and eight are cases of it. `VariantsAlwaysAgree` follows for all messages,
addresses and cuts, and `RegisterIsDivision` says what the register is; the turns for
"zportal" are carried out one by one. The turns are recursive functions on numbers;
that such a function exists and is unique is `Iterated`, proved by
induction over a set (`Inductive`) instead of an operator.

## 6. Findings

`rx_stall`: the repository's README says "Reads/receives are armed again once
enough queued buffers have been returned." The receiver looks at the threshold
only at the end of `handle_write_cqe_`. If the completion queue holds WRITE, RECV,
RECV, ENOBUFS, the WRITE handler returns its buffers before the cooldown has
begun; the chunks complete no frame; ENOBUFS then starts a cooldown with
nothing to write, and no later WRITE looks at the threshold: RECV is never armed
again. It needs fewer than 2 * mtu + wire_size buffers and a stream in very small
chunks. In the run's instance more than half of the buffers are free when this
happens, so the threshold is reached and nobody looks. With the program's 4096 buffers,
and a written frame of at most IOV_MAX = 1024 segments, it takes an MTU above 3056
(the command line accepts up to 65535), and then the partial frame itself holds at
least 3072 buffers: the threshold is not reached and cannot be, because the rest of the
frame needs RECV and only a WRITE returns buffers. The transmitter has the same stale
ENOBUFS and is safe by `CoolDownNeverStuck`, because each of its buffers is a whole frame.

`group_release`: the README speaks of "move-only resource owners". A `BufferGroup`
keeps the address of the `io_uring` it was created with, a constant member, and its
destructor frees the group through it. `IoUring`'s move constructor hands the groups
on with that address unchanged. `create_session` creates both groups in the ring of
its local `Session` and returns that object by moving it into the `Result`, so at
the end of the program the groups are freed through a stack frame that is gone.
`GroupsStayRegistered` shows that nothing is lost until then: the groups stay with
the kernel through the move and go when the ring is closed.

## 7. What is only model-checked

- Liveness, with the fairness part of the refinement of `PacketChannel`: fairness
  and ENABLED are out of the prover's reach.
- That every call of `Algorithms` returns, and with it that a checksum is finished:
  the absence of a deadlock. The theorems speak of the values.

## 8. What is not modelled

- Wording: error messages, debug output, the monitor's line, help texts; numbers
  in texts other than ports.
- Of the addresses: `parse_cidr`'s splitting, IPv6 scopes, `is_connectable` and
  `is_bindable`, which have no caller.
- Operations nobody calls: `release`, `swap` and `reset` of a `FileDescriptor`,
  `get_buffer_group`, `detect_family`, the move assignment of `Session`.
- `read_multishot` and `sse4`, which cache what the kernel or the processor says.
- Netlink attributes; io_uring's submission queue; what the kernel does with
  requests of a session that has ended; an MTU changed from outside; a second
  start on a Unix path the first one left behind.

## 9. Plan

Done: the two halves, their composition as a tunnel and as a session, the device,
the connection, the start and the end of the program, and the algorithms.

Next, models: two full sessions against each other, both directions; the requests
the kernel still holds while a session is torn down.
