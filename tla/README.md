# solakon-monitor: TLA+ models, model checking and proofs

solakon-monitor polls a Solakon ONE inverter over Modbus TCP and shows what it
reads in the terminal, as JSON, or over a small HTTP server. This directory
holds TLA+ modules of the parts of the program that have state and an order of
events, TLC configurations that check them, and TLAPS proofs of their safety
properties. Paths below are relative to the repository (`src/` in `PROJECT.json`
is its root).

## 1. The system

```
   main()  ──fetch_snapshot()──▶ SolakonDevice ──read_*()──▶ modbus::Client ──TCP──▶ inverter
     │ ▲                                                            (one socket, 5 s timeouts)
     │ └ g_running ◀── signal_handler, 'q'
     │
     ├─ terminal: TerminalUI (alternate screen), TermiosSaver (raw mode)
     └─ server:   http::Server ── update_snapshot() ─▶ latest_snapshot_ + mutex
                                                        ▲ get_snapshot()
                  listen_loop thread ── accept ─ handle_client ─▶ HTTP clients
```

| component | state | operations | talks to | what is hard |
|---|---|---|---|---|
| Modbus client, `src/modbus_client.cpp` | `socket_fd_`, `transaction_id_`, and the TCP stream itself | `connect`, `disconnect`, `read_*` → `read_holding_registers` → `send_receive` | the inverter over TCP | chunks, exceptions, silence, resets, a reply after its timeout |
| Solakon device, `src/solakon_device.cpp` | `impl_`; during a fetch the snapshot and the locals of four functions | `connect`, `disconnect`, `fetch_snapshot` (65 reads) | Modbus client | some reads fail, others succeed |
| Latest snapshot, `src/http_server.cpp:93` | `latest_snapshot_`, `snapshot_mutex_` | `update_snapshot`, `get_snapshot` | main loop and server thread | copies of many members, two threads |
| HTTP server, `src/http_server.cpp` | `running_`, `server_fd_`, the thread, the socket's queue | `start`, `stop`, `listen_loop`, `handle_client` | main loop, clients | stop at any moment, `server_fd_` shared without synchronization, slow and absent clients |
| Main program, `src/main.cpp` | `g_running`, `last_refresh`, `termios_saver`, the screen; before that the command line and the settings | start-up, scan mode, the question for an address; connect, the two loops, signal handler, prompts | everything | two loads of the configuration, signals and keys at any moment, fetches longer than the interval, terminal left as found |
| Configuration, `src/config_loader.cpp` | a file, which outlives the process | `load`, `save`, `default_path` | main program | truncate, then write; the end of the process in between |
| Network scanner, `src/network_scanner.cpp` | none | `scan` and helpers | sockets | byte orders, prefixes |
| Terminal display, `src/ui.cpp` | screen size | `render*`, formatting | stdout | none |

What makes each of them correct:

* *Modbus client*: a read that succeeds returns the registers it asked for; an
  exception is an error; a read always returns; the requested host is dialled.
* *Solakon device*: a member of a snapshot shows its own register, from this
  fetch, or its default; a valid snapshot is a complete one.
* *Latest snapshot*: a reader gets one update as a whole.
* *HTTP server*: a client gets the answer to its question, from a snapshot that
  was the latest at some time since it connected; nobody waits for ever;
  `stop()` returns and leaves nothing behind.
* *Main program*: it stops when asked, on the key too; refreshes on time; leaves
  terminal and connection in order; `--once` shows one snapshot.
* *Start-up and configuration*: an address once in a file stays there, a file the program
  wrote can be read again, and an answered question is not asked again.
* *Network scanner*: it dials the hosts of the subnet and reports those that answer.

## 2. The modules

| module | what it is | lines it stands for |
|---|---|---|
| `RegisterRead` | abstract: a call asks for a range of registers and ends with exactly that range or an error, as long as the connection can be trusted | `include/modbus_client.h:60-75`, `src/modbus_client.cpp:147-188` |
| `ModbusLink` | the client on a TCP byte stream; implements `RegisterRead` | `src/modbus_client.cpp` |
| `RegisterPlan` | the reads of a fetch as data, in program order | `src/solakon_device.cpp:43-293` |
| `SnapshotFetch` | a fetch over any plan of reads, each of which may fail | `src/solakon_device.cpp` |
| `Pipeline` | `SnapshotFetch` and `ModbusLink` together: every read of a fetch is a call on the one connection | `src/solakon_device.cpp`, `src/modbus_client.cpp` |
| `AtomicSnapshot` | abstract: a snapshot is replaced and returned as a whole | `src/http_server.cpp:93-101` |
| `SnapshotSlot` | the copies member by member, under the mutex; implements `AtomicSnapshot` | `src/http_server.cpp:93-101` |
| `HttpServer` | main loop, server thread, clients and listening socket together | `src/http_server.cpp`, `src/main.cpp:500-546` |
| `MonitorMain` | `main()` from the connection attempt to the exit, with time | `src/main.cpp:359-548`, `TermiosSaver` |
| `ConfigFile` | a configuration file, `load`, `save`, the search order, as operators | `src/config_loader.cpp` |
| `CommandLine` | `parse_args` and the overrides, as operators | `src/main.cpp:123-164`, `:271-280` |
| `SubnetScan` | the addresses of a subnet that are dialled and reported, as operators | `src/network_scanner.cpp` |
| `Startup` | `main()` up to the settings it runs with, over several starts; uses the three above | `src/main.cpp:167-357` |
| `*_proofs` | the inductive invariants and the theorems | |
| `MC*` | instances for TLC | |

The modules stack: `SnapshotFetch` treats a read as one step that succeeds or
fails. `ModbusLink` is shown to implement that on a connection that can be trusted, and
`Pipeline` puts the fetch on the link itself, also where it cannot; `HttpServer` copies the
snapshot in one step, which `SnapshotSlot` is shown to implement; `MonitorMain`
treats a fetch as one step with a duration and `Server::stop()` as a step that
may never come, which is what `HttpServer` says of it.

### How state and actions correspond to the code

**ModbusLink.** `fd`, `tid` are the client's members; `pc` is the place inside
`send_receive`, `req` its request, `base` and `total` what the calls on this
connection have received before and in this call. The inverter and the network
are `owed` (requests not dealt with), `replies` (records of what each reply
answers and where it starts in the byte stream), `sent` and `peer`. Bytes are
not kept: the function code test of line 177 is evaluated on what the byte at
that position of the stream can be (`MayBe3`), which is certain for headers and
open for register contents. `ReceiveRest` is the end of the receive loop, the
parsing and the copying of one call, as these change nothing else.

**SnapshotFetch.** A value is where it came from: a register and the fetch it was
read in, a default, or the indeterminate contents of an unassigned variable.
`ReadOk` and `ReadFails` are one statement pair of the code each, `read_*` and
the assignment after it, guarded by its result or not (`checked`). `RegisterPlan`
lists the statements. Without a connection (`impl_` exists, the socket is closed)
every read fails, as `send` on descriptor -1 does.

**Pipeline.** The variables of both modules, `connected` being `fd = "open"`. `Call` starts the
call of the read at `step`; `Client` is a step inside the call, and the one that returns is
also the `ReadGives` or `ReadFails` of the fetch, as the member is assigned before anything
else happens. What a reply holds is a register read in a fetch: the fetch is told from
the transaction id, since the reads of the current fetch used the last `step` ids
(`FetchOf`). A response that starts in the middle of a reply counts as that reply.

**RegisterRead.** `trusted` is `~late` of the link: no call on this connection has given up.
`GiveSome` is what a connection may do that is not trusted; `Renew` (connect, disconnect)
ends that.

**SnapshotSlot.** One step copies one member. `Lock` is `std::lock_guard`.

**HttpServer.** `main` and `thread` are the two program counters. `Load`, `Call` and
`LeaveAccept` split `accept(server_fd_, ...)` into reading the member (a data race
with `stop()`: old or new value), entering the kernel, and being served.
The kernel is Linux: `close()` of a listening descriptor neither wakes a thread
blocked in `accept()` nor releases the socket under it, so clients can still
connect; when the last reference goes, queued connections are reset. `Write` writes
half of the response, so that it can be cut; `resp` is what has been written. A request
arrives as a whole (up to the space after its path), or as a first segment that ends before
and then the rest, or not at all, and each arrival may come at any moment while the client is
open. `asked` is its path once it has arrived, `request` what the one `read()` has taken of it.

**MonitorMain.** A step carries its duration in milliseconds: `age` is
`now - last_refresh`. `Poll` takes 50 ms or nothing (key, end of input, signal);
durations between them lie between what these two give. `line` and `keys` are the
terminal: in cooked mode a key can only be read after ENTER, and switching to raw
mode makes what was typed readable. `stdin = "eof"` is a service without a terminal.
`getchar()` in a prompt is restarted after a signal because `SA_RESTART` is set.

**Startup.** `pc` is the place in `main()`, `"off"` between two processes; `files` is what
survives. `Ended` may follow every step: no handler is installed yet, so a signal ends the
process, as a power failure does. A file is its lines, a value its words, and a word what
`std::stoi` and the string make of it; comments and unknown lines are skipped by `load` and left out.
`save` is two steps, since opening with `std::ios::trunc` empties the file; the text of at
most a few hundred bytes stays in the buffer of the stream (8 kB) and is written by one
`write()` when the stream is closed, so between empty and whole there is nothing. Without a
host in the settings `LoadConfig` loads a second time (`check`). `TakeCharacter` is the
`getchar()` before the prompt, which takes the first character of whatever is typed.
The answers of the network are chosen anew at each scan, from those who accept connections.
`devices` is a set: the program sorts what it found by the printed strings, and the only thing
that depends on the order is whose first port is offered (`src/main.cpp:250`), for which
`MakeOffer` takes any device. `Cidr` is what `parse_cidr` makes of a text with an address
before a slash; a subnet outside its domain gives no devices.

## 3. The runs

| run | question | bounds | states |
|---|---|---|---|
| `link` | does the client implement `RegisterRead`, what is true with late replies, and does every read return? | 2 ranges of lengths 1 and 2, 3 reads, a host name and an address | 301 846 |
| `slot` | are the copies atomic? | 2 readers, 4 members, 3 updates | 1 214 |
| `fetch` | which members can show what after failures? | the program's 65 reads, 2 fetches, any 2 failures in each, or all of them | 104 665 |
| `fetch_valid` | violated: a valid snapshot is complete | 1 fetch, 1 failure | |
| `http` | do clients get the right answer, does everybody get served, does `stop()` clean up, and return? | 2 clients, queue of 2, the default snapshot and a published one, 2 starts | 1 258 113 |
| `http_stop` | violated: `stop()` returns | 1 client | |
| `http_split` | violated: a `GET /data` gets the snapshot | 1 client, 1 start | |
| `monitor` | does `main()` stop, refresh on time, and clean up? | 3 modes, with and without terminal, 5 Hz, connecting 0 or 250 ms, fetches of 0, 120 and 300 ms, 3 keys | 16 139 |
| `startup` | is an address kept, an answer remembered, a scan right, whatever ends the program? | 2 starts, 8 command lines, 33 sets of up to 3 files, 5 subnets, 3 networks | 20 964 |
| `startup_save` | violated: the device found is saved | the same | |
| `pipeline` | is a fetch over the link one of single-step reads, can its snapshot be trusted on the way, and does it return? | a plan of 3 reads, two through one local and one of another length, 2 fetches, responses in a piece of 9 bytes and the rest | 482 284 |
| `pipeline_stale` | violated: a fetch without failures shows its own registers | 2 reads of one length, 2 fetches | |

Why these bounds reach the interesting cases:

* Two reads are needed for a foreign reply, a third for one that is shifted by
  two or crosses a reconnect. Ranges of different length make a reply end in the
  middle of a response or run over it. `MaxReads` bounds `tid`; the proofs cover
  the wrap at 65535.
* Two fetches of two reads are what a shift needs: the first fetch times out, the second
  receives its replies. With reads of one length all of the second succeeds; with
  different lengths it fails in the middle of a reply. The local that two reads share is what
  a stale member needs. In `pipeline_stale` pieces of 4 bytes end before the function code and
  pieces of 9 right after the header; in `pipeline` a piece of 9 bytes is the header of a reply
  with registers or the whole of an exception, which the client takes off the stream before it
  gives up, so that the reads after it are on a trusted connection. In `link` a piece may have any
  length. The program's plan has 65 reads; the theorems hold for every plan.
* Two failures leave a local stale twice in a row and put a failure before and
  after a success of the same local; without a connection all reads fail.
* Two clients give one being served and one waiting; the second start finds
  whatever the first stop left. One published snapshot comes before or after each of a
  client's connection, request and answer, and a client before it gets the default one; that
  later ones behave alike is `AnswersAreFresh`, proved for any number.
* A fetch of 300 ms outlasts the interval of 200 ms, 120 ms outlasts one round of
  100 ms, 0 ms does neither. Three keys put `q` behind others and in front of some.

* Two starts are one that writes, or is ended while it writes, and one that reads what is
  left. The files have an address or none, assign a key twice, or hold a value that is no
  number; the subnets are a /30 whose three hosts are followed by one that must not be dialled,
  prefixes that wrap (288 is 32, 255 is refused), and ones that cannot be parsed.

`CHECK_DEADLOCK FALSE` stands where the program may end: in the HTTP runs the server
is stopped for good and its clients are done; in `monitor` `main()` has returned; in the
`startup` runs no further start is left.

### Fairness

* `ModbusLink`: the calling thread runs on. `Timeout` is part of it because
  `SO_RCVTIMEO` is set on every connected socket (`src/modbus_client.cpp:213`).
  Nothing is assumed of the inverter.
* `Pipeline`: the thread that fetches runs on, with the same justification.
* `Startup` has no fairness: nothing is claimed to happen.
* `HttpServer`: both threads run on when they are enabled; `read()` of a request ends
  by `SO_RCVTIMEO` (`src/http_server.cpp:118`). Nothing is assumed of clients, of the
  duration of a fetch, or of the user. `accept()` with an empty queue is not enabled.
* `MonitorMain`: every step of `main()` ends (connect and recv have timeouts), except
  `getchar()` without a key, which is not enabled, and `Server::stop()`, on which there
  is no fairness because of `http_stop`. Nothing is assumed of the user or of signals.

### What the runs show

*Modbus client.* As long as no call on the connection has given up, the client is an atomic register
read, with whatever exceptions, resets and reconnects. An exception frame is as
long as the 9 bytes every response has at least, but shorter than any reply with
registers, so the client waits for bytes that do not come until it times out; if no reply
was late the next read on the connection then starts with an empty stream and is right.
With late replies a foreign answer needs an earlier call that gave up on the same
connection, a reconnect ends it, and a response that begins with an exception frame is
never data. But the program never reconnects.

*Pipeline.* So after one timeout the program can show the registers of an earlier fetch
under the names of this one for as long as it runs, in snapshots without a single
failure (`pipeline_stale`). Until then every fetch is one of `SnapshotFetch`, whose
properties then hold of the program as a whole (`TrustedFetch`): at every point of a fetch
that no timeout has preceded on the connection, the snapshot shows what was read, or what the
unchecked reads of `SnapshotFetch` leave (`TrustedSnapshot`), whatever earlier connections and
fetches left in the socket, the locals and the members.

*Start-up.* No start takes an address out of a file: the file that is overwritten is the one
that was found to have none. An interrupted or failed save leaves an empty file, which loads as
the defaults. An answer that was written is found again by the same command line without
`--config`. The scan dials hosts of the subnet only; what it reports is reversed.

*Solakon device.* Members whose read is checked are their own reading or their
default. The meter and battery members are not checked: they show the register
read before through the same local. Nothing crosses from one reading function to
another or from one fetch to the next. Only `status3` can show an unassigned
variable.

*Server.* Every client is answered or closed whatever the others do. Only who asked for data
gets it, and it is never older than the client's connection; before the first fetch it is the
default snapshot. Who asked for data in one segment is not told `Not Found`, but who asked in
two may be, even when both have arrived by the time of the answer (`http_split`). a stopped server leaves nothing, and can be
started again. `stop()` returns if the thread is anywhere but in `accept()` on an
empty queue.

*Main program.* Signals and `q` end it from everywhere in its loops; only the prompt for
ENTER and `Server::stop()` can hold it up. At most the fetch in progress is shown after
the request. A fetch begins at most one round (100 ms) after it is due and the one before
it has returned.

## 4. The proofs

| module | assumption | theorems |
|---|---|---|
| `ModbusLink_proofs` | `LinkAssumption`: requests of 1 to 125 registers | `TypeCorrect`, `ForeignReplyIsLate`, `ExceptionsAreErrors`, `Refinement` |
| `SnapshotSlot_proofs` | `SlotAssumption`: some member, three different kinds of thread | `TypeCorrect`, `SnapshotsAreWhole`, `Refinement` |
| `SnapshotFetch_proofs` | `PlanAssumption`: no two reads of the plan for one member | `TypeCorrect`, `ChecksProtect`, `StalenessIsLocal`, `FetchesAreSeparate`, `GarbageIsLocal`, `AllReadsArrive` |
| `MonitorMain_proofs` | `MainAssumption`: 1 to 60 Hz, a longest fetch | `TypeCorrect`, `RefreshInTime`, `LeavesNoTrace`, `StopsShowing`, `OnceShowsOne` |
| `HttpServer_proofs` | `ServerAssumption`: `NoClient` is none, a backlog | `TypeCorrect`, `AnswersAreFresh`, `AnswersMatch`, `StopLeavesNothing`, `NobodyIsDismissed` |
| `SubnetScan_proofs` | none | `ScanStaysInside`, `ScanCoversSubnet` |
| `Startup_proofs` | `PathAssumption`: two different default paths, `Text` holds the keys and paths; `StartupAssumption`: a path that is given is known, `Cidr` gives addresses, every address of the network can be written | `TypeCorrect`, `AddressesAreKept`, `SavesAreReadable`, `AnswersAreRemembered`, `OffersAreNeighbours`; of the operators `ArgumentsInRange`, `SavedIsLoaded` |
| `Pipeline_proofs` | `PipelineAssumption`: ranges of 1 to 125 registers, chunks of at least a byte, no two reads of the plan for one member | `UsesTheLink`, `TrustedFetches`, `TrustedSnapshots`, `EveryReadMayFail` |

Each theorem holds for every value of the constants within its assumption: any
ranges and number of reads, any plan, any members and readers, any durations, any
command lines, files and networks. All invariants and action properties that the passing
runs check are stated by a theorem.

*ModbusLink.* The invariant says where the read position stands in the stream. Replies
lie in it one after the other (`Framed`) and no more is received than was written
(`Received`). As long as no call has been late (`InSync`), the position between two
calls is the end of the stream and nothing is owed, and within a call either nothing
has been written beyond it (`Waiting`) or exactly one reply to the request in progress
(`Replied`). It is needed because `AnswersItsRequest` speaks of the parsed header only:
that the header belongs to the request follows from where its reply starts, and that the
reply carries data from its length. `ExceptionsAreErrors` needs only `Framed`: if a reply
starts where the response does, the function code tested is its own, late or not.
`Refinement` maps the end of a call to `Give` or `Fail` and all traffic to stuttering.

*SnapshotSlot.* While the writer holds the mutex the slot holds the old value in the
members that are left and the new one in the others, and otherwise one value;
what a reader holding it has copied is that value. The refinement lets an update take
effect at the unlock.

*SnapshotFetch.* A local holds the last reading through it in this fetch, its default,
or, if it has no initializer, garbage (`LocalsFromEarlier`, `GarbageLocals`); as long as no
read failed, the members before `step` are their own readings (`CompleteSoFar`). No property
of a snapshot is inductive without knowing what the locals hold.

*MonitorMain.* Each place of a round adds its share of the delay: the history `gap` is at
most the longest fetch, or less than the interval, plus 0 ms in `poll`, 50 in `sleep` and
100 at the top of the loop. `gap <= age` makes a fetch that is not due a recent one.
Terminal: whoever makes it raw has saved it, and the server never touches it. Stopping:
a fetch begins only while `g_running` is set, so the count after the request can only
rise in the fetch that was in progress.

*HttpServer.* `Places` ties the two program counters together: the thread exists exactly while
the main loop is not down, the descriptor is open until `stop()` has closed it, and a client is
handled exactly between `accept` and `close`. `Queue`: an open client is the one handled or
waits at one place of the queue, and a queue has a listening socket, held by the descriptor or
by a blocked `accept`; so when both are gone nobody is open. `Answers`: what `read()` took is the
request of the client handled or a first segment of it; the response in progress fits that
(`Matches`) and carries the latest snapshot of a moment since the client connected; and whoever
has a whole response is handled or closed. None of the properties is inductive alone:
`NothingLeft` needs to know where open clients are, and `AnswersTheQuestion` that what arrives
after the `read()` can only be the rest of a request whose first segment had no path
(`ArrivesAnswers`).

*SubnetScan.* The program masks with arithmetic, `InSubnet` compares bits. The two meet octet
by octet: clearing the last 8 - n bits of an octet and adding a smaller number leaves its first
n bits (`OctetFilled`), octets with the same first n bits clear to the same number
(`OctetMasked`), and what the octets say of their bits
is what the address says of its prefix (`SubnetByOctets`). A host number is less than the
power of two that the prefix leaves free in the last octet (`HostCounts`), so adding it to the
masked octet (`MaskedHost`), which is the `|` of the code, stays in the subnet. Conversely, from
/24 on, an address of the subnet differs from its base in the last octet only, by a number the
loop reaches. Below /24 the limit of 256 leaves hosts out, as the code says.

*Startup.* From the question to the end of the save, the file that will be written is the one
at `DefaultPath` and has been found there to have no address (`Asking`, `Saving`); a start
with `--scan` has settings without a path, so its save writes nothing (`WhereScanning`,
`Saving`). Hence a save only ever meets a file without an address (`FileSteps`), which is
`AddressesAreKept`. The second half is a round trip: `WrittenIsRead` proves that `Parse` of
`Contents(s)` is `s`, for all settings, and `WrittenDoesNotThrow` that every
number in it converts (together `SavedIsLoaded`); the empty file between the two halves of a
save reads as the defaults.
`Finding` carries what the scan found to the offer: every device is an address that was
dialled, with the ports on which it accepts connections (`Answers`), and the one offered has a
port of a Solakon; with `ScanStaysInside` this is `OffersNeighbour`. The type invariant needs
that `ParseArgs`, `Parse` and `Override` stay within 16 bits for a port whatever the words are
(`ParseArgsTypes`, `LoadTypes`, `OverrideTypes`), and that the port of the offer was tried.
`Text` is a constant, not STRING, because the prover cannot decide that a literal is a string:
the runs give it the value STRING.

*Pipeline.* It uses `ModbusLink_proofs` as an instance (`Proven`): every step of the composition
is one of the client or leaves it alone (`StepIsLink`), so `NextIInv` of the client applies.
`InStep` couples the two: a call in progress is the read at which the fetch stands, and its
transaction id is the last one taken. A successful call that ends without a late reply then
has, by `OnlyLateReplies`, its own reply, whose register is that of the plan and whose fetch
is the present one (`OwnRead`). `TrustedSnapshots` then takes the invariant of
`SnapshotFetch_proofs`, as a second instance (`Reads`), along the fetch (`InFetch`). It holds
from the first step of a fetch on whatever was before, because `BeginFetch` sets the snapshot
and the locals afresh (`BeginFetchIInv`); so a fetch after a reconnect is right though the one
before it was not. `EveryReadMayFail` shows that
its bound on failures, set to the number of reads, excludes nothing.

### Only model-checked

Liveness (`ReadReturns`, `EveryClientDone`, `StopReturnsIfBusy`, `StopHonoured`, `QuitKeyWorks`,
`FetchReturns`) is out of reach of the provers installed. The violations are counterexamples
of TLC. `RegisterPlan` is data: that the program's plan is one the theorems speak of is
`PlanAssumption`, which TLC evaluates in the `fetch` runs.

## 5. Where code and documentation disagree

Shown by runs (`findings` of `PROJECT.json`): a late reply becomes the next answer,
and a whole fetch can be an old one (`pipeline_stale`); the device found by a scan is not saved
(`startup_save`); a snapshot is valid
whatever failed (`fetch_valid`); `stop()` may block in `join()` (`http_stop`); a `GET /data` whose
first segment ends before its path does is answered `Not Found` (`http_split`).

Noticed while reading, without a run because they are facts of a line or a table:

* `STATUS3` is a 32-bit register at 39065 and so overlaps `ALARM1` at 39066
  (`include/solakon_device.h:118-119`).
* The comments before the energy totals name other addresses than the constants
  the code uses (`src/solakon_device.cpp:234-290`, `include/solakon_device.h:136-147`).
* An unknown path is answered `Not Found` with status 200: the status chosen at
  `src/http_server.cpp:161` does not reach `build_response` (`:179`).
* The JSON's timestamp is the time of the request (`src/http_server.cpp:190`), that of a
  snapshot when it was taken (`include/solakon_device.h:265`).
* A host name dials 0.0.0.0: the result of `inet_pton` is ignored (`src/modbus_client.cpp:34`; the
  comment at `include/modbus_client.h:49` speaks of an IP address or hostname). `Dialled` models it.
* `protocol_version` is 16 bits wide and is given 32.
* `--interval` admits 60 Hz (`src/main.cpp:100`), but a round takes at least 50 ms and,
  with a terminal, 100 ms: `RefreshInTime` is the bound that holds. `refresh_hz` of the
  configuration file is read and never used by the loops.
* `--once` renders on the alternate screen and leaves it at once; `--json` without
  `--once` repeats.
* In server mode `q` needs ENTER, since the terminal is never made raw there
  (`src/main.cpp:495`, `README.md:103`).
* The scanner prints addresses with their octets reversed (`src/network_scanner.cpp:119`; the
  comment at `include/network_scanner.h:77` says network byte order for an argument in host byte order).
* `getchar()` at `src/main.cpp:319` eats the first character of an address that is typed at once.
* After the question `modbus_port` of the file is replaced by that of the command line
  (`src/main.cpp:330`), and the answer goes to the default file even when `--config` named
  another (`:331`, where `include/config_loader.h:46` says "back to the loaded config
  file"): the same command line is refused at the next start, because the default file now has
  an address and the other still has none (`:338`). "Gespeichert" is printed whatever `save()` returned.
* `check.config_path.empty()` (`src/main.cpp:286`) is never true: `load()` always sets the path.
* `--port 502` and `--interval 1` cannot override the file (`src/main.cpp:275`, `:278`), and
  `--server 192.168.1.2` takes the address for its port (`:146`).
* `mkdir` makes one level, so without `~/.config` nothing is saved (`src/config_loader.cpp:110`).
* `render_art` calls the battery charging when its power is positive, which
  `include/solakon_device.h` defines as discharging; `draw_header` shows a fixed address.
* With the terminal raw, CTRL+C is a key that is ignored (`ISIG` is cleared).

## 6. Not modelled

* The client's end of a connection on which the server closes: if bytes of the request are still
  unread (the rest of one that came in two segments), the kernel resets the connection, which may
  cost the client the response that was written. `resp` says what was written.
* A `write()` that fails with EPIPE, as when a client has closed and then reset the connection:
  SIGPIPE, for which no handler is installed (`src/main.cpp:365`), ends the process.
* A `send` that accepts only part of 12 bytes; a response larger than the socket's send
  buffer; running out of descriptors; failures of `socket`, `bind` and `listen` beyond
  "`start` returns false and leaves nothing".
* Scaling and formatting of values, and what is printed.
* `modbus_crc16`, `make_nonblocking`: without a caller in the program.
* Signals without a handler, which end the program with the terminal as it is.
* A configuration file that exists and cannot be opened (it loads as an empty one), blanks around a
  typed address, an address of more than 63 characters, and another process that writes the file.
* The display (`src/ui.cpp`): formatting without state of its own. The tests and the build.

## 7. Plan

Done, in this order, the most important behaviour first: the link and its refinement, the
slot, the fetch, the server, the main program; then the
start-up with configuration and scan, and the fetch on the link, each with its proofs;
then what was left of the safety of the start-up (types, scan, offer), and the properties of
a snapshot on the composition.

Next:

1. `SnapshotSlot` inside `HttpServer`: that the copies member by member may stand where
   `HttpServer` copies the snapshot in one step.
2. That `Server::stop()` as `MonitorMain` sees it is what `HttpServer` allows.
