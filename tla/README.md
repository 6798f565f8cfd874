# RustyCAN: specifications

RustyCAN is a CAN bus monitor for CANopen and XCP (a desktop application with a
GUI and a TUI), a command line tool that downloads firmware over CANopen (`bbd`),
and the firmware and bootloader of the KCAN USB dongle both of them talk through.
This directory holds TLA+ modules that model them, TLC configurations that check
the modules on small instances, and proofs for all instances. Paths below are
relative to the repository.

## 1. Inventory

| Component | Keeps | Operations | Talks to | What is hard | What makes it right |
|---|---|---|---|---|---|
| `bbd` SDO client (`host/src/bin/bbd/sdo_client.rs`) | a transfer's offset, sequence number, toggle, deadlines | expedited read and write, segmented and streaming download, block download, abort | the adapter; used by the state machine | lost, late and left-over frames, retried initiates, an adapter that refuses frames, blind streaming | what the node stores is the payload; `Ok` means committed; every call returns |
| `bbd` state machine, image file (`state_machine.rs`, `file.rs`) | step, block count, deadlines | `run_firmware_download`, polling loops, mode commands, the block iterator | the SDO client | the node resets while answering, polls see old status, the tool is killed, the file is cut | never flash a foreign node, never sign what has not run, `Ok` means installed, every run ends |
| Session: SDO engine (`host/src/session.rs`) | `pending_sdos` by node, `nodes_no_block` | commands, every response, timeout scan, reconnect | front end (two channels), adapter | one record per node and many ways to overwrite or drop it; responses routed by node only | every transfer ends and is reported; what is reported is true |
| Session: XCP (`session.rs`, `xcp/`) | one transaction in flight, the observer's DAQ tables | connect, upload, download, seed and key; observing another tool | slave, GUI panel | responses name no command; identifiers are learned from responses; late answers | values are those of their addresses |
| Session: periodic frames and tap (`session.rs`) | the periodic thread's schedule, a bounded tap | push a schedule, fire, send, receive, drain | GUI, adapter, sniffer table | two threads on one list, dropped tap entries, echoes of what was sent | the wire follows the list, the table the wire |
| NMT, PDO, SDO, XCP codecs (`canopen/`, `xcp/command.rs`) | nothing, or an object dictionary | encode, decode, classify | session | offsets, widths, byte orders, identifier ranges | each side reads what the other wrote |
| DBC, EDS, A2L (`dbc/`, `eds/`, `xcp/a2l.rs`) | a database | parse, merge, decode, encode signals | session, GUI | bit numbering, signs, clamping, duplicates | a signal is the bits of its layout; edits do not touch neighbours |
| Workbench: connect form, monitor, start-up (`gui/mod.rs`, `main.rs`) | the form, persisted settings, session threads | edit, probe, connect, disconnect, restart | session threads, disk | threads outlive their window; adapters come and go; a form with invalid rows | left threads end, the monitor is served |
| GUI panels, plots (`gui/`) | copies of the session's state, histories, drafts | object browser, transmit panel, charts | session | copies are older than the original | as shown, so it is |
| TUI (`tui/`) | input line, scan of sub-indices | typed commands, read-all | session | commands typed in between, whose answers come too or whose reads replace the scan's | what is typed is what is sent; a scan left alone asks for every sub-index |
| KCAN adapter (`adapters/kcan/mod.rs`) and dongle (`firmware/dongle-*`) | queues on both sides of USB, session, mode, timestamps | open, close, send, receive, restart, bus on/off | each other, the bus | bounded queues, a host that restarts in mid-stream, pulled cables, two arms of one task | what a session sees is true and its own; listening is quiet |
| Network and Apex adapters, SocketCAN lock (`adapters/`) | streams, keys, queues, lock files | handshake, sealed frames, wake-up, stalls | peers | partial writes, resynchronisation, peers that vanish, stale locks, files of other users | frames in order and once; a loss that shows ends the session |
| KCAN protocol (`kcan-protocol/`) | sequence numbers | record layout, bit timings, encryption layer | adapters, firmware | rates without an exact timing | both ends agree |
| Bootloaders, DFU (`firmware/bootloader-*`, `host/src/dfu`) | partitions, state word, DFU class | detach, download, verify, swap, trial, confirm, revert | dongle, host tool | power cuts, killed tools, images that do not work | only whole verified images run; a good one gets installed |
| Logger, sniffer (`logger.rs`, `crates/sniffer-*`) | the log file, the table, a replay | append, flush, load, replay | session, dashboard | crash before a flush, several clocks, time stamps over month ends | what is replayed is what was logged |
| Dashboard (`http_server.rs`, `assets/index.html`) | the port, a bounded broadcast, a tab's list | take over, broadcast, pause, reconnect | logger, browser | programs that start together, tabs that fall behind, are paused or filtered | entries in order and once; what no filter refuses stays until newer ones push it out |
| Updater (`updater.rs`, banner, prompt) | a temporary file, a mounted image | check, download, replace, restart | GitHub, the system's tools | downloads left behind, failures half-way | only a whole, newer release is installed |
| LCD terminal (`firmware/lcd-terminal`, `display_task.rs`) | rings of text | draw | dongle | – | not modelled |

Shared state is rare: the host's threads talk over `mpsc` channels, the dongle's
tasks over bounded Embassy channels and signals. The difficulty is in those
channels (bounded, dropping, older than what they describe), in peers that answer
when they like, and in being interrupted.

## 2. Modules

| Module | Models | Checked by |
|---|---|---|
| `SdoTransfer` | the promise of a download: the node holds the whole payload before the caller is told `ok`, and never a damaged one | refined by the next two |
| `SdoBlockDownload` | `download_block` with `initiate_retry`, `recv_response_matching` | run `SdoBlockDownload`, proofs |
| `SdoSegmentedDownload` | `download_segmented`, `download_segmented_no_wait`, `send_backpressured` | run `SdoSegmentedDownload`, proofs |
| `FirmwareDownload` | `run_firmware_download`, its polls and mode commands | run `FirmwareDownload`, proofs |
| `SdoServer` (external), `SdoPending`, `SdoSession` | a node's server; a `PendingSdo` and each response to it; the session around the table | run `Session`, proofs |
| `DaqTracker`, `XcpMaster` | the observer's DAQ tables; master, observer, panel, slave and another tool | run `Xcp` |
| `KcanLink` | adapter, reader thread, control endpoint, I/O task, CAN task | run `Kcan`, proofs |
| `DongleUpdate` | updating tool, application's DFU task, bootloader, flash | run `Dongle`, proofs |
| `Workbench` | form, probe, monitor, session threads, settings on disk | run `Workbench` |
| `Traffic` | periodic thread, tap, sniffer table, PDO log, signal edits | run `Traffic`, proofs |
| `DbcSignals`, `CanopenCodec`, `XcpCodec`, `AdapterFrames`, `TuiCommands`, `LogReplay`, `BlockFile`, `Plots`, `Releases` | pure conversions and small sequential machines | run `Codecs`, through `MCCodecs` |
| `NetLink`, `ApexLink`, `SocketCanLock`, `Dashboard`, `AppUpdate` | links of the program to the outside | run `Links`, through `MCAdapterLinks`; proofs of the lock |
| `SdoBlockDownload_proofs`, `SdoSegmentedDownload_proofs`, `FirmwareDownload_proofs`, `SdoSession_proofs`, `KcanLink_proofs`, `DongleUpdate_proofs`, `Traffic_proofs`, `SocketCanLock_proofs` | theorems about the module each extends, section 5 | TLAPS |

**Worlds.** What surrounds a component (which frames the bus may lose, whether
timers may expire early, what the user does, how often a cable is pulled) is a
record, one of the constant set `...Worlds`, chosen in `Init` and never changed. One
run thus checks several surroundings, and a property that holds only in some says
which in its own definition. Numbers in a world bound how often the environment may
act; they are named in the comment above the set. Theorems hold for every set of
worlds.

**Data.** A payload is the sequence of its segment numbers, a file the set of its
chunks, a byte of XCP memory its address, a frame its number: loss, repetition and
order are visible, bytes are not. A CRC agrees exactly if the sequences do. The
codecs, where bytes are the point, work on real bytes and bits. Time is not counted
except as ages (SDO records), as the wrapping stamps of the dongle, and as the dates
of a log; elsewhere a timeout is an action that may happen at any moment, or, in a
*timely* world, only when no answer is under way.

### SDO downloads of `bbd`

In `SdoBlockDownload` `pc` is where `download_block` stands; `offset` counts
acknowledged segments (the code's counts bytes), `seqno`, `blksize`, `stall` are the
code's. One action per loop step: `SendSegment` is a turn of the inner loop,
`RecvSubAck` the handling of a sub-block response up to the next sub-block, `Timeout`
the deadline of whichever wait is on. `SkipFrame` is the matching loop, which throws
away what the awaited exchange does not accept. At the start the channel may hold a
frame of an earlier session. `SendRefused` is every `self.send(..)?` of the call: a frame
that the adapter does not take (`TxQueueFull`; its queue holds eight, a sub-block is up to
127) ends it. The server (external) accepts in-order segments, answers
each sub-block with the last number in order and commits on an end request.

`SdoSegmentedDownload` shares the initiate between its two variants. The streaming
one sends through the adapter's bounded queue without waiting, then looks at one
frame; silence counts as success.

`FirmwareDownload` has one `pc` per step and, per step, one SDO exchange: `Issue`,
then `Resend`, `Receive`, `SkipFrame`, `Timeout`, `Disconnect`. What an outcome means
for a kind of step is in `PollOutcome`, `QueryOutcome`, `InfoOutcome`,
`ControlOutcome`, `CommandOutcome`, `DownloadOutcome`. The node has a mode, an SDO
server, a flash operation under way, the status of the last one, and its flash.

### The session's SDO engine

`SdoPending` has one operator per state of `PendingSdoState`, translating the branch
of `recv_loop` that handles a response in it, and gives the record that remains, the
frames sent, the event and whether the timeout scan follows (`continue` skips it).
`SdoSession` has the table. A command makes a new record whatever became of the old
one; `Respond` and `Overhear` end in the scan; `OtherFrame` is any other frame. After every
drain of the command channel the session looks for a closed window with a `try_recv`
that takes what it finds (`session.rs:1698`, and again at 585 and 1743): such commands
are in `dropped`, through `Ask` on a regular turn and `Swallow` otherwise. The GUI offers a command only for a node that is not shown as pending; the TUI always
does.

### XCP

`XcpMaster` has the pending transaction (`cmd`, `step`, accumulated bytes), one
action per command of the panel, `RecvFrame` for the frames of the slave and of the
other tool, in the order in which the session tries its branches, and `TimeoutScan`.
`DaqTracker` keeps the lists, the pointer and the table of packet identifiers as
`xcp/daq.rs` does; a DAQ frame is decoded by it, and a region reaches `values` only
if the table names it.

### KCAN link and dongle update

`KcanLink` has the host's session (`host`), its reader thread, both queues of the
adapter, the dongle's I/O task with its two arms, the endpoint FIFO, both Embassy
channels, the peripheral's FIFO and the transmission the CAN task waits with. The two
boards differ in `Restart` (the H743 drains its queue and waits) and `RestartH753`.
`DongleUpdate` has the two partitions, the state word and the progress counter of
embassy-boot (a library, modelled from its use: two steps to swap, two to revert,
each interruptible), the application's DFU task, the DFU class, and the tool. The
answer to a control transfer may get lost, so that the tool sees a failure of what was
done; a GETSTATUS after the last block makes the class verify the image and reset.

### Workbench and traffic

`Workbench` keeps *all* session threads ever started, so that one whose window is gone
is still there until it ends. One that ends drops its adapter first: that of a dongle
asks its reader to end by a request that a full queue refuses, and waits for it all the
same (`Dropped`, `joining`) until the dongle is pulled. A peer in the network that is gone
is not noticed (`Recv`); `Frames` is a frame of the screen, which drains the
thread's events before it draws. `Traffic` has the window's periodic list, the
schedule under way to the thread, the thread's entries, queued commands, echoes, the
bounded tap and the table: an entry counts as shown when the window has drained the tap.

### Codecs

`MCCodecs` chooses one `job` (a conversion and its input) and evaluates it in one
step, or, for the machines (replay, TUI input, plots, block iterator), in a sequence of
steps. The properties compare with reference definitions of another form: `Slice`
reads a signal's bits by the layout's definition where the code shifts and masks;
calendar days are counted by the lengths of months where the code uses a formula.
PDO mappings include objects of a single bit, behind which values do not begin on a byte.
In a scan job the session keeps one record per node: a read typed meanwhile takes the
scan's place (`Asked`), or a read is swallowed. A log job ends in order or by a crash that
takes what is still in the buffer.

### Links

`MCAdapterLinks` runs one link at a time. `NetLink` cuts a stream into parts, of which
`NetParts` make a sealed frame, so that a write cut short leaves a fragment in the
stream; the peer may close, break off or vanish (`conn` is `fin`, `reset` or `gone`), and
the reader learns of the last only when something written to it is never confirmed.
`ApexLink` does the same with halves of records. `SocketCanLock` has one
i-node per creation, because the code removes by name what it read by name; its
processes may belong to two users, of whom each can remove only his own files, and
the number of a process may fail to be written, both of which the code ignores.
`Dashboard` has the programs that start and take over, and one browser tab with its
filter: what the active filter does not match is discarded when it comes, and when the
entries held during a pause are pushed, and of the rows only the newest `MaxRows` stay.
`AppUpdate` keeps all download threads, as they outlive the monitor that started them.

## 3. Runs

| Run | Worlds | Shows |
|---|---|---|
| `SdoBlockDownload` | any 3 frames lost, early timers, aborting server, refusing adapter; an impatient server; one lost segment on a calm bus; segments lost without end | types, CRC guards the commit, termination, repair of a loss while the adapter takes every frame, refinement of `SdoTransfer` |
| `SdoSegmentedDownload` | acknowledged with 2 lost frames; streaming with responses dropped; streaming refused | no gap or repetition, ends and what it reports comes true, refinement of `SdoTransfer` |
| `FirmwareDownload` | seven, see `MCFirmwareDownload` | the order of the steps keeps its promises under every single mishap; runs end; installation succeeds where the tool is built to overcome |
| `Session` | healthy; fallbacks; refused objects; block and segmented transfers with losses and a refused send; late answers with a loss; a hurried browser; commands that cross; reconnects | reads are true while no frame is lost, reads and writes are true with losses where commands do not overlap and answers are in time; the indicator is right (unless a send is refused while commands overlap), no transfer stays pending; when nothing is wrong what is not `Defective` and not swallowed succeeds |
| `Xcp` | two slaves, faults, a tool with two lists, a tool that reconfigures | live values and reported transfers are true; no transaction stays |
| `Kcan` | much received; much sent before a listening session; pulled cables; the other board | sessions see only true and own frames, complete up to counted drops; listening is quiet; time goes forward; closing and service |
| `Dongle` | either board, good or USB-dead image, wrong signature with a careful and a careless tool; cuts, kills, failed transfers | only whole verified images run; entering DFU is no revert; reported means installed; updates end |
| `Workbench` | dongle, pinned dongle, network; cable moves, edits, restarts | left threads end and free their adapter unless the queue is full, the monitor is served while a loss shows, `--auto-connect` connects |
| `Traffic` | echoing, silent, listening adapters; list changes, node traffic, edits, a failed send | wire follows list, table and log are latest, edits leave the other signals |
| `Codecs` | every job of `MCCodecs` | decoding (of PDO values that begin on a byte), encoding, agreement of peers, files, what reached the disk of a log |
| `Links` | every world of `MCAdapterLinks` | order and completeness on every link, ends of sessions whose peer closes or breaks off, the lock with opens one after the other, a tab's rows up to its filters and their limit |
| `LinksLock` | two opens at once | a disagreement, section 6 |

Bounds, and why they are enough:

* Block download: 4 segments in sub-blocks of up to 3 give a full sub-block, a
  shorter last one, retransmission across their border, and, with `MaxBlk = 3` and
  sizes on the wire up to 4, the clamp and the default for 0. `MaxStall = 1` against
  segments lost without end passes through the stall limit; the code's 16 differs by
  repetition only.
* Segmented: 5 segments and a queue of 2 let the queue fill, drain and fill again.
* Firmware: 2 blocks give a first and a last one; 1 or 2 polls a loop that goes
  round and ends; `MaxTries = 3` is the code's; one mishap per behaviour, each at
  every point (the proofs lift that).
* Session: objects of one, two and three segments with sub-blocks of 2 and a
  threshold of 2 separate expedited, one-block and two-block transfers; two nodes
  give two pending records and a scan that finds both. Ages stop at 2, the largest
  timeout. `MaxBuffer = 3` is reached but not passed: the refusal beyond
  `MAX_BLOCK_TRANSFER_SIZE` is in the model and not met by a run.
* XCP: uploads of one, two and three chunks for either address granularity; two DAQ
  lists with one and two ODTs are the least in which packet identifiers can shift.
* KCAN: capacities of 1 and 2 (code: 8, 32 and 256) let every queue overflow; two sessions
  are the least in which something can leak; `Wrap = 4` lets stamps wrap twice.
* Dongle: 2 blocks; two power cuts, so that a swap and the revert after it are both cut.
* Workbench: two sessions, two rows of the form, two threads, a command queue of 1.
* Traffic: capacities of 2 against up to 5 frames; two periodic messages.
* Codecs: DBC signals of every start and up to 8 bits in payloads of one or two bytes,
  so that they cross the byte border and the payload's end in both orders; words of 8
  bits stand for the code's 64, as the limits of a full word are reached; PDO, KCAN and
  XCP records have their real widths; dates cross month, leap-day and year ends.
* Links: 2 parts to a frame or record; sequence numbers to 2, so that they run
  out; up to 3 frames each way; 3 processes for the lock, 3 opens, 2 deaths, a number
  reused, a number not written, two users; 3 programs for the port; a broadcast of 2 and
  fewer rows than entries against 6 entries, one change of the filter; 2 chunks to a download.

`CHECK_DEADLOCK FALSE` everywhere: a transfer that has returned, an environment that
has used up its bound, really stop.

Every property has mutants in `PROJECT.json`: a plausible slip in a mapped
definition (kept beside it, marked as a mutant) that makes TLC find the property
violated. Properties that say several things have several.

## 4. Fairness

* `SdoBlockDownload`, `SdoSegmentedDownload`: weak fairness of the client (one
  thread, whose waits all have a deadline) and of the server's reactions. Losses and
  aborts are never forced. `Terminates` needs the client's only.
* `FirmwareDownload`: the tool's thread, the node's handling of requests, and the
  end of a flash operation it has begun.
* `SdoSession`: `ApplyEvent` (the front-end polls its channel every frame), the
  session thread, time, each node, and the reconnect loop. The user and the mishaps
  are free. In worlds with `traffic` other frames keep arriving while a record is
  overdue, as heartbeats and PDOs do on a CANopen bus.
* `XcpMaster`: the session's loop (`RecvFrame`, `TimeoutScan`) and a slave that answers.
* `KcanLink`: the host's threads and the dongle's tasks, each action that only waits for
  itself. The bus, USB failures and the cable are free, and so is the user.
* `DongleUpdate`: the device and the tool run. Strong fairness of `Query` and of the
  successful `Poll`, because a device that is reset again and again may be absent
  whenever it is looked for: the user keeps trying, and power is cut finitely often.
* `Workbench`: the screen is drawn, the probe's answer looked at, every thread runs.
* `Traffic`: the window and the session run; strong fairness of `Fire`, whose guard
  (an entry is due) is disturbed by new schedules and by the queue's bound.
* `Links`: the threads of adapters, programs and downloads. A download's server keeps
  sending or ends the stream: the code has no timeout there.

Liveness is conditional where the code cannot promise more: `LossIsRepaired` needs
timers longer than the bus delay, no lone segment at the end of the payload and an
adapter that takes every frame;
`FirmwareDownload!InstallsEventually` a healthy image, the right node and one of the
mishaps the tool is built to overcome; `CloseEnds` a reader that was told to end;
`ConnectsByItself` an adapter that stays.

## 5. Proofs

The `*_proofs` modules hold theorems that TLAPS checks for every value of the
constants: payloads, queues, sets of nodes and objects, retry budgets and periods of
any size, any set of worlds, any number of faults. The only assumptions are the
`ConstantsOK` of each module, the types of its constants; what they say beyond a type
(`SdoServer`: there is at least one object; `SdoSession`, `SocketCanLock`: nodes and
processes are finitely many)
is so in every configuration. Each invariant below was first checked by TLC on the
run of its module.

| Module | Theorems | Properties |
|---|---|---|
| `SdoBlockDownload_proofs` | `TypeCorrect`, `CrcGuards`, `Refines` | `CrcGuardsCommit`; `ImplementsTransfer` |
| `SdoSegmentedDownload_proofs` | `TypeCorrect`, `StoredInOrder`, `Refines` | `StoredIsPrefix`; `ImplementsTransfer` |
| `FirmwareDownload_proofs` | `TypeCorrect`, `IdentityGuards`, `FlashGuarded`, `ToolRight` | `FlashIsGuarded`, without a second run; `ToolIsRight` |
| `SdoSession_proofs` | `TypeCorrect`, `IndicatorFollows`, `ReportsHold` | `IndicatorMatches`; `ReportsAreTrue`, where `Calm` |
| `KcanLink_proofs` | `TypeCorrect`, `TimeIsMonotonic`, `ListeningIsQuiet`, `SeenHolds` | `TimeNeverGoesBack`, `ListenOnlyIsQuiet`, `SeenIsTrue` |
| `DongleUpdate_proofs` | `OnlyWholeImages`, `DetachKeepsImage` | `OnlyWholeImagesRun`, `DetachIsNoRevert` |
| `Traffic_proofs` | `TypeCorrect`, `ShowsLatest`, `OthersKept` | `ShownIsLatest`, `OthersAsReceived` |
| `SocketCanLock_proofs` | `LockHolds` | `LockIsTrue` |

**Block download.** That the next segment's index stays inside the payload and the
sequence number in `1..MaxBlk` needs `ClientBounds`, which says what holds of the
counters at each `pc`. *Ok after a negotiated CRC means the node committed exactly
the payload* rests on `Ending`: an end request in the channel is its last frame and
carries the client's CRC flag, nothing has been committed while it is there
(`EndIsLast`); after the commit nothing can start the server afresh (`CommitIsFinal`);
an end ack under way comes from a commit (`EndAckMeansCommit`). It holds because the
client sends its only end request after everything else. `Refines` shows every step to
be one of `SdoTransfer` or a stutter. Where a CRC was negotiated it uses
`Ending`; where a patient server waits for the whole sub-block it needs `Orderly`:
client and server agree on where the sub-block begins (`InStep`), what is in the
channel starts there and has no gap the server would not see (`Requests`), an
acknowledgement never counts more than is stored (`Acks`), and `stored` is a prefix
of the payload (`Prefix`).

**Segmented download.** Channel and adapter queue are one line of frames,
`Line == c2s \o txq`. Where losses are bearable (acknowledged, or nothing is lost) the
segments in it follow each other by number and toggle (`Chained`, `Marked`), continue
what is stored (`Follows`), and the last one is the payload's last (`Whole`); the
acknowledged variant has at most one exchange under way (`StopAndWait`). The toggle
alone would accept every second segment; the invariant shows that none is skipped.

**Firmware download.** What the tool goes by may be an old answer, so the invariants
are about what can be in front of what in the two FIFO channels; `Lacks(q, S)` and
`Ahead(q, S, T)` say so. `Identified`: answers about the identity are true however old,
so past the validations, and wherever an erase is ordered or done, the node matches.
`SmokeInv`: no answer to a flash poll is older than the order to erase
(`ClearsFirst`), so an answer that the application runs which is still in front of
none of them is of the new image (`RunsFirst`), and the signature is ordered after
one. `ModeInv`: in each phase of the run no command to start the application is in
front of a flash command, and answers of the other mode have been consumed
(`Phases`). The first covers every mishap, second runs included; the second needs a
tool that is run once, and the third that power stays on as well (which
`FlashCommandsReachBootloader` itself demands).

`ToolRight` rests on `RightInv`, one condition for each place the tool can be at. Erase,
signature and block are each asked for once (`Request` is sent again only for reads and
initiates), when the node is at rest or its download open, and nothing asked earlier can
take them out of order: the order is still `Pending`, in front of every poll and with no
answer to a poll under way, or the node has `Taken` it, and then a good status in the
channel is younger than the end of the operation (`Begun`). So the good status the tool
goes by tells of this operation and no earlier one. For that the block loop needs that
what was asked before the repeated initiates is in front of them, and the polls' answers
in front of the acknowledgement (`Initiating`), and that a block follows its initiates
and precedes everything else (`InFlight`). In the end game no poll of the last block may
outlive the smoke test (`PollsOver`, `NoPolls`), and answers of the two modes do not
mix (`LastPhases`). All of it uses that requests arrive: one lost block or erase, and an
old good status passes for the answer (section 6).

**Session.** `TypeCorrect` covers every record, response, event and server in any
interleaving. It is the longest proof because a response is typed by what the record of
*its node* expects, not by the transfer it belongs to. `IndicatorFollows` rests on
`Tells`: once the events under way are applied, a node is shown as pending exactly if
the table has a record. Every step of the session reports each change it makes to the
table in the events it appends (`Reported`). Where a refused send would report without
a change, the invariant needs that no command overlaps another (`Alone`).

`ReportsHold` is about every transfer the session can choose, its fallbacks included,
with any number of lost frames and refused sends, under three conditions (`Calm`, in
`SdoSession`): no command overlaps another, answers come before a timeout, and the adapter is not pulled.
Each of the three is needed: an answer is told from that of another transfer by its
form alone, so one that outlives its record, or the session of its adapter, passes for
the answer to the next command (`StaleAck`, section 6). The invariant (`ReportsInv`)
therefore says for each node which exchange its record is in, and with it what the node,
the requests and the responses under way are: the first request is out (`Opening`), one
response is under way (`Answered`) or one request (`Requested`), a burst of segments
(`Bursting`), a sub-block that has arrived up to some segment (`Streaming`), or a frame
of it is lost and nothing that is left can carry it on (`Lost`). With no record, all that may be
left are segments of an upload that was broken off and the acknowledgement of its end
(`Rest`). `Fits` ties the response to what is so: the bytes in the buffer of a read are
the prefix of the object that the node has sent, and an acknowledgement that ends a
write comes from a node that has stored it. A record grows older only when nothing of
its exchange is left (`Quiet`), so a timeout leaves nothing behind. TLC checked the
invariant in four configurations of worlds before it was proved.

**KCAN link.** `TimeIsMonotonic` needs only that the time given to a frame is its stamp
in the present period (`ClockFits`). `ListeningIsQuiet` follows the one write that can be
under way when the mode changes (`Quiet`). `SeenHolds` needs an invariant over the
whole way of a frame: queues rise by number and no queue holds what an earlier one
still has (`Order`); which of them can hold something when (`Stands`); on the board
that drains, frames behind the drain are of the present session (`Sessions`); what was
received after a frame that still travels travels as well, or was counted
(`Complete`, `Gapless`).

**Dongle update.** `UpdateInv`: an image named new has been verified (`Verified`); the
image to swap in or back is whole as long as a start may need it, only an unfinished
swap leaves a mixed partition (`SwapIsSafe`); the H743's application confirms itself
before it asks for DFU (`ConfirmedFirst`).

**Traffic.** The tap's last entry for a node is the node's latest frame, and with no entry
the table has it (`TapTells`), for every node whose latest frame was not dropped
(`TableInv`); the log by positions (`LogInv`); drafts and commands carry a second
signal the node has sent (`HeardInv`).

**SocketCAN lock.** `LockInv`: a process has the interface exactly if its number is in the
file, which is then of its user and so can be removed by it (`FileTells`), and the steps of an
open are not disturbed: the file is still the one created, the stale one still nobody's,
and a second attempt finds no file or one that only the other user may remove
(`Undisturbed`). A number given out is never a process's again, though another program may
get it. All this is claimed while `Orderly`: no two opens overlap and every number could be
written. The theorem says what a failing removal leads to, an open refused for another
user's file. With overlapping opens or a number that was not written the lock fails
(section 6).

Only model-checked, and why:

* Liveness, everywhere: fairness and `ENABLED` are outside the prover's reach.
* `SignedImageHasRun` of `FirmwareDownload` when the tool is run again: nothing but its
  place tells an answer to an earlier run from one to this run, and the argument would
  have to bound how far a node may lag behind.
* The half of `ReportsAreTrue` of `SdoSession` that is about reads where commands overlap,
  answers are late or the adapter is pulled, as long as no frame is lost: it holds in the
  worlds of its run. With a lost frame, and for writes, it does not (section 6).
* `ValuesAreTrue` of `XcpMaster`: claimed for the scripts of its run. What an arbitrary
  tool may do to a running list is not restricted in the model, and the place of an
  entry in a frame is a sum over the entries before it, an induction over data.
* The codecs and `FramesAreTrue` of the links (`MCCodecs`, `MCAdapterLinks`): what a fold over bits or texts
  computes for every input is an induction over data as well.
* `Workbench`: its three properties are liveness.

## 6. Disagreements found

`LinksLock` is a run that TLC ends with a counterexample, listed under `findings` in
`PROJECT.json`: two processes that open a SocketCAN interface at the same time both
hold it (`adapters/socketcan_adapter.rs:29` says exclusive), because the lock file is
created before the number is written to it.

The others are described by a definition in a module and surroundings under which TLC
finds it violated; no configuration of this directory does, they need the given set
of worlds as `Worlds`.

| Definition, surroundings | What the code does | What is said |
|---|---|---|
| `AbortNotSwallowed`, `MCSdoSegmentedDownload!RefusedOnly` | one frame is read at the end of a streaming download; behind queued responses an abort goes unread and `Ok` is returned | `sdo_client.rs:555`: "an explicit abort is a real failure and must not be swallowed" |
| `StatusPollIsAuthoritative`, `MCFirmwareDownload!Forgetful` | the flash status is that of the last operation *begun*; when the request is lost, that of an earlier one passes | `state_machine.rs:295`: "the authoritative completion check" |
| `EveryTransferEnds`, `MCSdoSession!SilentBus` | the timeout scan runs only after a received frame | `session.rs:257` on `sdo_timeout_ms` |
| `LossIsRepaired` without `~world.refuses`, `MCSdoBlockDownload!Refusing` | a segment the adapter's queue of eight has no room for ends the download (`sdo_client.rs:648`, `adapters/kcan/mod.rs:326`), nothing lost; the segmented download tries again (`sdo_client.rs:573`) | – |
| `EveryCommandAnswered`, `MCSdoSession!Healthy` | the look for a closed window behind the drain takes a command off the channel and drops it, on a regular turn (`session.rs:1698`), in the reconnect loop (585) and after an error (1743) | `session.rs:584`: "Check if the GUI has gone away"; 1697: "Check if we exited because the channel was disconnected" |
| `EveryCommandAnswered`, `MCSdoSession!ReadAll` | one record per node; "Read all sub-entries" (`gui/mod.rs:4599`) overwrites it | the button's name |
| `EverySupportedSucceeds`, `MCSdoSession!BlockWrite` | a block write sends one segment, never marked as the last, then waits for a response a server owes only after `blksize` segments | `reqs/soup/SOUP010.md:15` requires block transfer as defined in CiA 301 |
| `EverySupportedSucceeds`, `MCSdoSession!PaddedRead` | the CRC of a block read includes the padding of its last segment (`session.rs:2689`) | the same |
| `WritesAreStored`, `MCSdoSession!StaleAck` | a download ack is accepted without comparing its multiplexer | `session.rs:2031`: "with index/subindex echo" |
| `ReadsAreWhole`, `MCSdoSession!StaleRead` | an upload initiate response is accepted without comparing its multiplexer and a segment names no object (`session.rs:2074`): an answer that comes after its timeout and one lost frame suffice for a read to report bytes of another object | – |
| `SuccessIsTrue`, `MCXcpMaster!HurriedWorlds` | a command replaces the record of the one in flight (`session.rs:1183`), and the answer to the first is taken for the second's | – |
| `CloseReturns`, run `Kcan` | the request to end is sent by `try_send` into a queue that may be full, then the thread is joined | `adapters/kcan/mod.rs:271`: "Signal the reader thread to exit immediately" |
| `NoReconnect`, run `Workbench` | the form kept for the way back is a copy made while `auto_connect` is still set (`gui/mod.rs:831`) | `gui/mod.rs:1237-1240`: "there is no reconnect loop after a deliberate disconnect" |
| `TableCatchesUp`, run `Traffic` | the frame dropped by a full tap may be the latest | `session.rs:124-126`: "the aggregated table only cares about the latest payload per ID" |
| `FirstDescriptionWins`, run `Codecs` | value descriptions are merged with `extend`, and the last file wins | `dbc/mod.rs:298`, `.readme/dbc-signal-decoding.md:62`: "first-wins for conflicts" |
| `DisplayedRateIsActual`, run `Codecs` | the display shows the decoded rate; the controller stays at 250 kbit/s (`main.rs:250`) | `ep0_handler.rs:125`: "derive the actual bitrate and display it" |
| `InfoIsActual`, run `Links` with `Kinds = {"page"}` | `clear_session_info` has no caller | `http_server.rs:236`: "Returns 204 No Content when no session is currently active" |
| `OneHolder`, worlds of `SocketCanLock` with `fulls` | that the number could not be written is ignored (`socketcan_adapter.rs:50`); the next open takes the empty file for stale and both hold the interface | `socketcan_adapter.rs:29`: "exclusive" |
| `PauseLosesNothing`, run `Links` with `Kinds = {"page"}` | the entries held during a pause are pushed through the filter then active (`index.html:656`, 792), and only 200 rows stay (689) | `index.html:731`: "flush on resume so nothing is lost" |
| `PdoBitsAreTrue`, run `Codecs` | a value is read from the byte its first bit falls in (`pdo.rs:205`, 252-256); behind an object of one bit it is misplaced | `pdo.rs:186`: "Extract `bit_length` bits starting at `bit_offset`" |
| `ReadAllEnds`, run `Codecs` | a read typed for the node of a scan takes the place of the scan's in the session's table (`session.rs:1422`); the scan waits for ever | `tui/mod.rs:729`: "when the expected SDO result arrives" |
| `LogIsImmediate`, run `Codecs` | entries are written in groups of 50 or every 100 ms; a program that is killed loses the last | `.readme/jsonl-format.md:3`: "flushed immediately to disk"; `.readme/logging-performance.md:49` says what the code does |
| `UpdateIsTrue`, worlds of `AppUpdate` with `late` or `leavesBusy` | a download left behind is answered after the next has begun, or the monitor is left while the update is applied: `File::create` empties the file under its reader (`updater.rs:179`) | – |
| `PageIsServed`, worlds of `Dashboard` with `slow` | a server that answers after the 300 ms of the request leaves two programs giving up the port | – |

Seen while modelling, without a definition:

* `.readme/bbd.md:161` calls the signature a fallback for an application that does
  not start; `state_machine.rs:376` signs on the regular path, after the start, and
  returns an error when the application does not start.
* `session.rs:2380` takes `min(0, 127)` of a `blksize` of 0, where
  `canopen/sdo.rs:580` asks callers to choose a default.
* `session.rs:2922`: timeouts other than those of the data phase run from the start
  of the transfer, so a long transfer is given up although every answer was prompt.
* `session.rs:2157`: a refused send of a segment is ignored and shows only as a
  timeout, where `.readme/multi-node-stability.md:22` promises an immediate abort;
  line 19 there promises a reconnect after ten consecutive errors, which nothing
  counts.
* `session.rs:2074`, `StaleRead` above: the world `Late` of the run meets it, and
  `ReportsAreTrue` does not claim it. The model tells responses apart by their kind; the
  code does so by the first byte, and that of a left-over segment of a block upload is its
  sequence number, which may also be a command specifier (0x60 reads as the
  acknowledgement of a download). That is not modelled.
* `adapters/kcan_net.rs:298-303`: a read that times out is repeated for ever, and nothing
  asks whether the peer is still there. A device that vanishes without closing the
  connection leaves a session that receives nothing and does not end, unless something
  is written to it (`conn = "gone"` in `NetLink`; `LinksServe` and `MonitorIsServed` leave
  it out).
* `socketcan_adapter.rs:67`: that a stale file could not be removed is ignored. A file that
  another user's process left in `/tmp` keeps the interface locked until he removes it
  (`LockIsTrue` says so).
* `dfu/mod.rs:295`: a device that answers busy for ever holds the tool for ever.
* `session.rs:1913`: a late abort of a timed-out transfer marks a node as without block
  transfer for the rest of the session; `session.rs:1459`: a refused send of an
  overlapping command clears the indicator while the transfer it did not replace goes on.
* `adapters/kcan/mod.rs:326`: every failure of the queue, the death of the reader thread
  included, is reported as a full queue.
* `bin/bbd/file.rs:110`: "A zero-byte read at the start of a record means end of file."
  A file cut inside a header ends the same way, as if it were complete.
* `tui/mod.rs:334`: "only Escape / Ctrl-C aborts (Defer)", but the `continue` ignores every key
  during a download; the banner has no cancel either, and a download
  that stalls never ends. An update that fails before the image is detached leaves it
  mounted (`updater.rs:237-253`).
* `canopen/pdo.rs:134`: an entry of a PDO mapping that cannot be read is skipped without
  advancing the offset of those behind it; two mapped objects with one parameter name
  share one series in a plot; an unparsable or `$NODEID`-relative COB-ID falls back to
  the default.
* Identifiers of extended frames are cut to 11 bits in the log and by `extract_cob_id`;
  `for_bitrate` divides by its argument unchecked; the encrypted layer's sequence
  numbers end a connection when they run out.
* `http_server.rs:270` leaves by `process::exit`, which skips the drop of log buffer,
  lock file and adapter. A lock file whose number has been given to another process
  locks the interface until that process ends.

## 7. Not modelled

* **LCD terminal and display.** Drawing on a frame buffer, without protocol state.
* **Text, layout and rendering** of GUI, TUI and dashboard, descriptors and peripheral
  set-up of the firmware, argument parsing, the text log, the causes of errors.
* **Cryptography**: a signature or a tag is right or not.
* `read_string` of `bbd` is one exchange in `FirmwareDownload`; its segments, whose
  toggle is not checked, are not modelled. Nor are the arguments of
  `bin/bbd/main.rs`.
* `SdoSession` models a session opened to transmit: one opened with `listen_only`
  discards every command, so no SDO record ever exists in it (`Traffic`, `XcpMaster`
  model such sessions).
* Floating point values and text objects of the codecs; unsigned DBC signals of the
  full 64 bits, which are displayed negative; the DLC of remote frames from host to
  dongle, which the record does not carry.
* The Summit adapter, a thin wrapper around the `host-can` library: a send is tried again
  up to eight times 20 ms apart, a debounced look for the USB device tells a bus error
  from a removal, and there are no hardware stamps. `Workbench` has it as a kind of
  adapter that opens and gets lost. The adapter registry (a list).
* The TUI's stderr capture (`log_stream.rs`).
* A change of the replay's speed while it plays, which jumps; crashes of the operating
  system, as opposed to the program, while a log is written.

## 8. Plan

Done in the first step: `SdoTransfer`, `SdoBlockDownload`, `SdoSegmentedDownload`,
`FirmwareDownload`, `SdoServer`, `SdoPending`, `SdoSession`, the first proofs. Done in
the second: everything else of section 2.

Done after that: the theorems of section 5.

Left to prove: `ValuesAreTrue` and `SuccessIsTrue` of `XcpMaster`, for tools that wait
for each answer; `SignedImageHasRun` of `FirmwareDownload` for a tool that is run again.
