# bcmutils in TLA+

bcmutils is the C library behind the command line, the web interface and the
daemons of a Broadcom-based Ethernet switch, with a few programs of its own: the
background poller of the PoE controller and the tool that pauses it. Its hard
parts are the places where several processes meet: one serial line to the PoE
controller, files shared under record locks, a segment of shared memory without a
lock, a configuration store that is edited by many programs, a file that every
process has written for itself, and sockets to daemons that answer late or not at
all. Most of its lines are calls to the driver of the switch chip and conversions
between forms of the same data; there the errors that are dropped and the forms
that are confused are what goes wrong. This directory models those parts, checks
them with TLC on small instances, and proves the properties that matter most with
TLAPS. File names are relative to the repository; a line is written `file.c:line`.

    tlasany M.tla                  parses a module
    tlc -config X.cfg M            runs a check (the table of runs has the pairs)
    tlapm M.tla                    checks the proofs of a module

`PROJECT.json` lists components, runs, mutants, hazards, theorems, and for every
definition the lines it models.

## 1. Inventory

| Component | State | Operations | Meets | Hard | Correct when |
|---|---|---|---|---|---|
| PoE serial protocol: `poe/poe_tools.c`, `SPP_Serial.c`, `SPP_Util.c` | the tty's queue, a semaphore per process, packet buffers (one of them global), statistics | `CallRoutine`, `SendPacket`, `ReceivePacket`, `get_poe_port_info`, `OpenSerial` | the controller over a serial line; poller and commands | answers carry no number, one second per answer, a retry, eight early returns, a buffer read after the unlock | the port is given back exactly once; a success is the answer to its own request; a set is done at most once |
| PoE poller: `poe/PoE.c`, `saveResult`, `sendSigTest/sendSig.c` | `G_CheckPoe`, `G_PowerLinkStatus`, the result file | the round, the signal handlers, the keyboard tool | real-time signals, the serial protocol | signals in the middle of a round, reads that fail, restarts | the file is of one round; a pause frees the line; a continue resumes |
| PoE status and pid files: `poe_tools.c:1330-1468` | two files and their POSIX locks | `set_poe_status`, `get_poe_status_from_file`, `already_running`, `already_stoprunning` | every process of the device | a lock tried once, open before lock, truncate before write, locks lost by any close | a reader sees a whole status; one daemon |
| PoE events task: `poe/SPP_Events.c` | none left | its body is compiled out (114-290) | starts the link (`InitSerial`) | a status that is compared although it was not read | - |
| Configuration client: `socket_tools.c` | a connection per call | `scfgmgr_set`, `_cmd`, `_get`, `_getall`, `_sendfile`, `_console` | the configuration manager (external) | answers in pieces, connections that end early, refusals | no descriptor left; what is reported as done was done |
| Configuration sessions: `nvram_conf.c` | none; structures of the caller | `cli_nvram_safe_get`, `cli_nvram_conf_get`, `cli_nvram_conf_set` | the manager's keys, other sessions | several requests per operation, no lock, defaults, a restart | a session that is alone with its kind undoes nobody's change; what is applied is whole; a saved change survives |
| AAA client: `aaa.c` | a socket per call | `aaa_is_exist`, `aaa_send_msg_bcm`, `aaa_send_msg_struct_bcm` | the aaa daemon (external) | the daemon dies; answers after the limit | own answer; the call returns |
| Datagram IPC: `sk_define.c` | a socket per process | `creat_sk_server`, `creat_sk_client`, `ipc_send_recv`, `ipc_recv_send` | protocol daemons | no number in an answer, names made from process ids, a send without limit | own answer; the call returns |
| Linked list: `linklist.c`, `linklist.h` | head, tail, count, nodes | add, sorted add, delete, clear, the loop macro | callers (none in the repository) | deletion inside a loop; freed cells that come back | links, ends and count agree; a loop visits what it should |
| Port flow statistics: `port.c:54-282` | a shared memory segment with two flags | four functions that read it | a daemon that is not in the repository; each other | flags that are tested and then set, one of them shared by all readers; readers that are killed | the figures of a call are of one refresh; a reader waits for the daemon's flag only |
| Port, VLAN, STP, MAC, QoS, trunk wrappers: `port.c`, `vlan.c`, `stp.c`, `mac.c`, `qos.c`, `trunk.c`, `link.c` | the switch chip; `/var/mac` | one request each; the trunk scan and the address list are several | the kernel driver; other processes between two requests | errors that are dropped, a file all processes share, a map that survives a failed request | who goes by the results knows what the chip holds; what is listed was there |
| ACL, L3, mirror, rate, multicast, I2C wrappers: `acl.c`, `l3.c`, `mirror.c`, `rate.c`, `ipmc.c`, `i2c.c` | the chip | one request each, or none | the kernel driver | functions that do nothing and report success | as above |
| Device primitives, strings: `bcmutils.c`, `str.c` | one array of VLANs seen so far | conversions of port sets, VLAN lists, rows of numbers, addresses | all of the above | five forms of a set of ports, which no type tells apart; first and last element | a set stays the same set; what is stored is what is read |
| Interface information: `if_info.c` | none | `/proc` readers, subnet arithmetic | - | prefixes of no, of all and of a whole word of bits; several defaults | masks, subnets and broadcast addresses are of one prefix |
| Users, DHCP, GMRP, IPv6 helpers: `auth.c`, `dhcp.c`, `gmrp.c`, `ipv6.c` | the chip | requests, and functions that make none | the kernel driver | - | as above |
| Makefiles, `libbcmutils.so` | - | - | - | - | - |

How they meet: a command (or the web interface) calls `nvram_conf.c`, which calls
`socket_tools.c` once per key, which talks to the manager over a connection. PoE
settings go from there to `poe_tools.c` and the serial line, on which the poller
works too; a command pauses the poller with a signal first, and learns what the
poller found from the file the poller saves. Users are authenticated through
`aaa.c`; RSTP, LACP and loop detection are asked through `sk_define.c`. What is
configured reaches the chip through the wrappers, one `ioctl` on the driver's device (`DEVICE_FILE_NAME`, `/dev/linux-uk-proxy`) each,
with sets of ports that were converted by `bcmutils.c` on the way.

The hazards, each at its line and with the properties that would catch it, are in
`PROJECT.json`.

## 2. Modules

| Module | Stands for | Properties |
|---|---|---|
| `SPPLink` | the serial protocol; tasks in processes, the line as segments, the controller | `SemaphoreMatches`, `OwnAnswer`, `LineReleased`, `ImplementsService` |
| `SPPService` | what a caller of a Power Manager routine is promised | abstract |
| `PoEPoll` | poller, signals, keyboard tool, restarts | `SavedFromOneRound`, `OneSaveAfterPause`, `PauseFreesLine`, `ContinuePolls` |
| `StatusFile`, `StatusRegister` | the status file under locks; one register | `WriterAlone`, `NeverTorn`, `ImplementsRegister` |
| `PidFile` | one daemon at a time | `OneInstance`, `PidOfRunning` |
| `ScfgClient`, `ConfigStore` | a configuration call over its connection; a store | `AnsweredReturns`, `NoDescriptorLeft`, `ImplementsStore` |
| `NvramConf` | sessions that edit the configuration, as sequences of requests | `EditsKept`, `AppliedWhole`, `PoeSurvives`, `DefaultsOnlyInitialise` |
| `LocalCalls` | calls over local datagram sockets, of `aaa.c` and of `sk_define.c` | `OnlyOwnReplies`, `OwnReply`, `CallReturns` |
| `LinkList`, `ListSpec` | the pointers of the list; a sequence | `DoublyLinked`, `CountMatches`, `LoopSafe`, `LoopComplete`, `ImplementsList` |
| `FlowStats` | traffic figures in shared memory: readers, the daemon, two flags | `TornOnlyByRace`, `ReaderReturns` |
| `MsClock` | `CurrentTime`, `ElapsedTime` and a 32-bit clock that wraps | `ElapsedIsReal` |
| `Subnets` | the address arithmetic of `if_info.c` | `SubnetsAgree` |
| `PortMaps` | five forms of a set of ports and the conversions between them | `SamePorts` |
| `TextLists` (extends `PortMaps`) | VLAN lists, rows of numbers, settings and addresses in texts | `VlanListsAgree`, `RowsKept` |
| `SwitchCalls`, `SwitchChip` | the calls and their requests, as tables; processes that make them on one register of the chip | `ReportedIsHeld` |
| `TrunkScan` | which group is a port in: one request per group, while ports move | `TrunkGroupOfPort` |
| `MacList` | the learned addresses through `/var/mac` | `ListedWasThere` |
| `MCDevice` | the last eight parts side by side | |
| `MC...` | instances for TLC where a `.cfg` cannot give a constant | |
| `SPPLinkProofs`, `PoEProofs` (poller, status file, pid file), `ScfgClientProofs`, `NvramConfProofs`, `LocalCallsProofs`, `LinkListProofs`, `DeviceProofs` | theorems about the modules above | section 5 |
| `DataInduction` | induction over numbers and finite sets, recursion over the passes of a loop | section 5 |

Operators commented "Mutant of ..." are not part of a specification. Each is what a
plausible bug would make of the definition after it; put in its place, it makes TLC
find the property violated that `PROJECT.json` names, so no property holds because
the model could not break it.

### Correspondence

**SPPLink.** A call of a task goes `lock` (`SerialLock`), `send` (`SendPacket`),
`hunt` for the start of a packet, `header`, `body` (the three reads of
`ReceivePacket`), `verify` (checksum, after the unlock) and `accept` (the comparison
of routines). Every early return is the same operator `GiveUp`, which gives the
semaphore back; `Expire` is the one-second limit, which the code looks at between
reads and not in them. `GET` and `SET` stand for the routines that go through
`CallRoutine`, which do not retry (`#if 0`, 985-1023); `INFO` is
`get_poe_port_info`, which sends twice and receives into the global
`PortInfoPacket`. The controller may ignore, repeat, corrupt or tear; with
`Prompt = FALSE` it may also answer a caller that is gone. Call numbers are
history: no packet carries one. An accepted answer is `"ANSWERED"`: the routines that
return a status of their own return what the controller put there (409), so a call that
was answered need not be one the controller agreed with. Three routines are left out:
`get_poe_port_count`, which reports a failed call as a success (308),
`get_poe_system_status` and `get_poe_system_info`.

**PoEPoll.** The loop of `main` and the round of 2·`MAX_PORT_NUM`+1 reads are
actions; a Power Manager call is one step that succeeds or fails. Of a value the
model keeps whether it was read in this round. Signals are queued and handled
between any two steps, in any order: of two that wait the kernel takes the lower number
first, whose handler the other one then interrupts. `sendSig` is a process with the
process id it looked up when it started.

**StatusFile, PidFile.** One action per system call that others can notice: open,
`F_SETLK`, truncate, write, measure, read, unlock, close, death. Record locks belong
to processes and closing any descriptor gives them up, as `fcntl` says. A write may fail
after the file was emptied, which neither program notices (1349, 1422): a daemon may run
with an empty pid file, and `PidOfRunning` says that it is empty or its own.

**ScfgClient.** One action per system call of `socket_connect`, `socket_write`,
`socket_read`; the manager answers, refuses, dies before or after it acted, or ends a
connection in its middle. Values of the configuration are opaque.

**NvramConf.** A session reads the keys of a kind one request at a time, changes one,
writes all back one request at a time and starts the service or commits, in the
order of the code. A value is who wrote it. No lock keeps two sessions of a kind apart,
so they overlap as they like; every `scfgmgr_set` and `scfgmgr_commit` may fail, carried
out or not, and nobody looks; a program may die, and the device restart, between any two
requests. What went on is kept as history: whether a session had another of its kind
beside it (`beside`), missed a write (`missed`), and whether a commit is owed
(`unsaved`), and the properties say what holds in which case. An empty text whose
default could not be set kills a program that takes it apart (`Readable`). A structure is
taken to be cleared by its caller, which `SNMP_USER` and `ACCESS_USER` need (828).
Reading (`nvram_safe_get`, not in the repository) does not fail.

**LocalCalls.** A behaviour is about one of the two services. A name in the file
system is bound to a client's socket, or to none; an answer goes to the socket that
has the name when it is sent. `PathOf` is `get_sk_file_name` with the 16 bits it
keeps of a process id. Clients put their process id in their name (`cFlgPid` set);
two clients that ask for one name without it unlink each other, and the model leaves
that to their caller. The server of `ipc_recv_send` answers its own command only. That
`creat_sk_client` may leave a bound socket behind is `LimitFails`; the `setsockopt` of
`aaa.c:77`, whose result is dropped, is taken to succeed. `ipc_recv` writes the sender's
address over the server's (`sk_define.c:250`), which is the same as long as nobody else
sends to a client.

**LinkList.** One action per step of a walk, one per change of pointers. `Nth` and
`Elems` read the abstract sequence off the pointers. Cells are
taken from a finite set and given back by `free`, so that a stale pointer can meet a
new node. The loop macro is a loop that keeps `nextnode`, with a body that deletes
the node at hand or adds at the ends.

**FlowStats.** A reader attaches, tests the daemon's flag until it is down, raises
its own, reads two figures per port and lowers the flag, each a step; it may be
killed at any of them, and a segment that cannot be attached ends the process. The
daemon is external and taken to do the same with the flags exchanged, and to go on for
ever: a figure is the number of the refresh it was written in, and the numbers come round
again after `MaxRound`, so that no reader is saved by a daemon that stops. The end of the
process when detaching fails (91-94) is one of two outcomes of `ClearReading`.

**MsClock.** The machine's time runs in half milliseconds, `CurrentTime` rounds and
cuts it to `Width` values, and a limit is a start time that may be taken anywhere. The 0
that `CurrentTime` returns when `clock_gettime` fails (69) is left out.

**Subnets, PortMaps, TextLists.** The functions of the source are operators of the
same names. An address or a bitmap is the set of its bits, a text of ports or VLANs
the sequence of its items; loops that carry variables over their passes (`lastis`
and `tcount` of `bit2str`) are recursive functions with the same variables. The
properties compare with a reference: numbers for addresses, the set that was meant
for ports, what was stored for rows. `PortMaps` is a machine that applies one
conversion after the other, so that a conversion is also given what another made. The
names of ports depend on how the code is compiled: `XPORT` is 0 or 1 (`bcmutils.c:534`,
564), and a name is the type of a port and its place among the ports of that type, not
the shift the code makes of it. The run has `XPORT = 0`; the theorem is about both. An
empty text has one empty piece for `str2vlan` and `str2vlan_info`, which mark element 0,
and none for `str2bit`, which starts at 1: `VlanIds` says which numbers a text means, and
`VlanListsAgree` that the readers agree on it for the empty text too.

**SwitchCalls, SwitchChip.** 169 functions with a request, and 40 that pretend to make
one, differ in their request and in a few
details that matter: who opens the device, who drops an error, who makes no
request. The tables of `SwitchCalls` say which function makes which request;
`SwitchChip` has those details as sets and one machine for all calls. A register is
an entry of a table of the chip with the requests that set, read and clear it,
which is what is external here. What a function is named for (`Asks`, `Removes`) is
stated apart from what it does. A caller keeps count of what its calls reported: after a
0 the register has what the function is named for, after an error what it had (`told`,
history), until another process writes (`overtaken`). `ReportedIsHeld` compares that with
the chip through any sequence of calls. The functions of which it is not true are listed
in `Misleading`, each for its lines: those that drop an error, the one that asks by
setting, the one that sends `block1` twice and `block2` never (`bcm_set_erps_bpdu`,
`stp.c:34`), the two that end without a result.

**TrunkScan, MacList.** One action per request and per system call. The groups and
the learned addresses change between any two of them, `/var/mac` is a path that
refers to a file, and an open stream keeps the file it was opened on. `fclose` and
`unlink` are one step, and the break at the 8192nd address (`mac.c:145`) is left out.

## 3. Runs

| Run | Bounds | Distinct states | Shows |
|---|---|---|---|
| `spp_prompt` | 2 tasks, 1 process, 3 calls, 2 values, `SET` and `INFO` | 1.8 million | with answers in time or not at all, the semaphore is right, successes are own answers, the link implements the service |
| `spp_late` | 2 tasks, 3 calls, late answers | 142 thousand | the port is always given back |
| `spp_late_answer` | 1 task, 2 calls, late answers | finding | a late answer is taken for the next call's |
| `poll` | 2 ports, 2 incarnations, 2 queued signals | 73 thousand | one round per file, pause and continue |
| `scfg` | 2 clients, 3 calls, data in 2 pieces, refusals, deaths | 1.1 million | no descriptor leaked by a call that was answered; calls implement the store; an answered call returns |
| `nvram` | 2 clients that may be exchanged, 3 sessions that overlap, 2 kinds (of 4 keys and of 1 that is committed), failing sets, defaults and commits, deaths, restarts | 5.9 million | no edit is undone by a session that was alone with its kind, what is applied is whole, PoE settings survive, each but for the named failures |
| `nvram_default` | 2 sessions of one kind that overlap | finding | a default overwrites a value |
| `status_file` | 3 processes, 2 values, deaths | 115 thousand | a reader gets a whole status, empty, or nothing |
| `pid_file` | 4 processes, deaths, failing writes | 270 thousand | one daemon, named by its file or by none |
| `linklist` | 3 cells, 3 data of which two compare equal | 299 thousand | pointers agree, the loop is safe and complete, the list is a sequence |
| `local_calls` | 2 clients, 3 calls each, inbox of 1, 2 faults | 786 thousand | own answers, and every call returns |
| `device` | eight parts, one per behaviour: 2 readers, 2 ports, refreshes without end under 3 numbers; a clock of 8 values over 20 ms; addresses of 4 bits; 4 ports of which 2 gigabit, texts of 2 items; rows of up to 4 numbers, addresses of 2 octets; 2 callers, 2 values, every function; 3 groups, 2 ports, 1 scanner; 2 listers, 3 addresses, 3 files | 1.6 million | figures of one refresh unless a flag was raced, a reader that waits for the daemon only, a right clock, conversions that agree, a chip that holds what was reported, groups and lists that were there |

Why these bounds are enough to be worth something. On the line an answer can hurt
one call after the one it belongs to, so three calls of two tasks include a call, its
successor and one of another task between. A round of two ports has a first, a
middle and a last read; two incarnations and two queued signals include a signal for
a poller that is gone and a pause behind a continue. Three processes on a lock are a
holder, a waiter and one that was refused. Three list cells are first, inner and
last; four (1.8 million states with symmetry) were checked as well without a
difference. For the datagrams three calls of one client are one that is given up, one
that takes the late answer or fails, and one after it; an inbox of one is full as soon
as it can be, and two faults let a client and the server die in one behaviour.
In `device`, four ports have a first, an inner and a last
port of both types and a gap between two runs; addresses with octets of one bit have
every prefix length there is and both word boundaries; the clock wraps twice; three
files are one for each lister and one that a third process left behind; a scan of
three groups has one before, at and after a change. For the configuration, two programs
overlap in every way a pair can, a third session reads what the two left, and four keys
have a first, inner ones and a last to be torn at. The parts do not touch each
other, so a behaviour is about one of them and their states add up instead of
multiplying. Counters that would grow (`MaxCalls`, `MaxSessions`, `MaxPid`, `MaxQueue`,
`MaxFaults`, `MaxRound`, `MaxReads`, `MaxHalves`, `MaxItems`,
`MaxCells`, `MaxRows`, `MaxFiles`, `MaxLearn`) are bounded in guards and named in the modules. Runs whose bounded
behaviours end say `CHECK_DEADLOCK FALSE`.

### Findings

* `spp_late_answer`: the comment "Verify that the correct response packet was
  received" (`poe_tools.c:1026`, 396) stands over a comparison of routine numbers. A
  call that gave up after a second leaves its answer on the line, and the next call
  of the same routine, even for another port, takes it. Nothing drains the line.
* `nvram_default`: "get nvram param, and initialize it when value is NULL"
  (`nvram_conf.c:85`). Check and write are two requests; a value set by another
  session in between is overwritten by the default.

Seen while modelling, and not made into runs: two tasks in `get_poe_port_info` share
`PortInfoPacket` (`poe_tools.c:397`); two processes on the serial line each have a
semaphore of their own (`SPP_Serial.c:177`); `sendSig` loses a `c` typed at its
prompt (`sendSig.c:114`); `scfgmgr_getall`, `_get` and `_console` do not look at the
code of an answer (`socket_tools.c:160-171`, though `socket_tools.h:57` promises it);
`cli_nvram_conf_set` always returns `CLI_SUCCESS` (`nvram_conf.c:1275`); a default that
could not be set leaves an empty text, which is taken apart with null pointers (627);
`get_poe_port_count` reports a failed call as a success (`poe_tools.c:308`);
`listnode_delete` does not call `del` (`linklist.h:42` says that it is called when a
node is deleted); a client of `ipc_send_recv` that was late once can stay one answer
behind; and because `sendto` has no limit, late answers that fill one client's inbox
stop the server, and with it all clients.

In the device library: `get_vlan_qinq_tpid` makes the request that sets the port's
VLAN, to 0 (`vlan.c:50`), and neither it nor `set_vlan_qinq_tpid` ends with a return
statement; errors of `open` or of the request are dropped and reported as success at
`mac.c:91`, 111 and 273, `stp.c:78` and `port.c:298`; case `'4'` of
`nvram_port_seepd_get` runs on into the default, so that a stored speed of 4 reads
as automatic; `check_ipv6_same_subnet` reads the first prefix length twice and shifts
the wrong bits of the last word, and is right for /64 only; without a prefix the mask
of `if_info.c` is the three low octets in one function and the three high ones in
another; a row of VLANs that is long enough in characters and too short in numbers
makes `bcm_get_pvid_from_entry` look for a comma at `NULL` (`vlan.c:278`); of an empty
text `bcm_get_no_PNUM_entry_number` and `bcm_get_ipmc_number` count behind its end
(`vlan.c:608`, `ipmc.c:201`); `hex2mac` adds octets as `char`, which may have a sign
(`gmrp.c:16`); `cli_switch_reset` loops for ever (`bcmutils.c:1051`); listing addresses
in two processes at once mixes their files (`mac.c:114`); and a reader that was killed
leaves the flag of the readers up, for ever if no other reader lowers it (`port.c:79`).

## 4. Fairness

Only what the machine gives: a process that can take its next step takes it, and
time passes.

* `SPPLink`: weak fairness of every task's send, receive (a read returns, with a
  segment or without), of the one-second limit and of the checks after it. Nothing
  of the controller, of callers, or of a task that waits for the semaphore.
* `PoEPoll`: weak fairness of the poller's own step; its Power Manager calls return
  because of `SPPLink!LineReleased`. Nothing of keyboard or signals.
* `ScfgClient`: weak fairness of a client's own steps; the manager need not answer.
* `LocalCalls`: weak fairness of the steps inside a call, the limit of `recvfrom`
  among them; the server need not answer, take a request or start.
* `FlowStats` (in `MCDevice`): weak fairness of a reader's steps and of the daemon's;
  that a reader calls, or that the daemon lives, is not asked. A reader looks at the
  daemon's flag once a second and may find it up every time, so weak fairness does not
  take it past the test: the code may starve a reader. `ReaderReturns` says that only a
  flag that is up again and again does, the one a dead daemon left included, and not
  other readers or what they left.

The other specifications have safety properties only.

## 5. Proofs

All are for every value of the constants that satisfies the modules' named
assumptions, and none has an unproved leaf.

**SPPLinkProofs**: `TypeOK`, `SemaphoreMatches`. A semaphore follows from who is on
the line in its process; every way out of a receive goes through one lemma. And
`OwnAnswer`, if the controller is prompt, the tasks share a
process and at most one of them calls `get_poe_port_info` (`LineAssumption`). The
three conditions are where the code needs help: dropping any of them gives TLC a
counterexample. `OwnAnswer` is not inductive: that the answer on the line is
the hunter's own is known only if every request on its way has a hunter with time
left, the line holds one start of a packet at most, and what follows it belongs to
it. `OwnAnswerInv` says that, as seven named parts. Under the same three conditions
`ImplementsService`: `ServedInv` adds to where the answer is that it carries what the
controller computed last for the call (`RequestServed`, `StartServed`, `ReadServed`,
`ReceivedServed`), and that a set which was not sent was not carried out
(`SetUnserved`); so the controller's step is the service's `Perform`, a return is its
return, and everything else stutters, the second try of `get_poe_port_info` included.

**PoEProofs**, the poller: `PollTypeOK` and `SavedFromOneRound`, from an order of the
reads: `Done` is how many are behind the loop where it stands, no more are counted than
that, and when all of them are counted all their values are of this round
(`CountedIsFresh`); so a count of `2 * MAX_PORT_NUM + 1` leaves no old value.
`OneSaveAfterPause`, from `RoundBeforePause`: after a pause a save is behind the poller
or a round is under way, not both. The pid file: `OneInstance`, `PidOfRunning`, whichever
writes fail, when the daemon does not call `already_stoprunning` on itself, from
`StartedHoldsLock`. The
status file: `WriterAlone`, `NeverTorn`, from `FileInv`: a process's lock follows from
where it is, locks exclude each other, and what a reader measured is still there. And
`ImplementsRegister`: the register is what the file held before as long as a writer is
at work and the file otherwise (`Status`), which takes the writer to have known it
(`BeforeHolds`, `BeforeKnown`); the register changes with the writer's last step, or
with its death.

**ScfgClientProofs**: `NoDescriptorLeft`, from `FdsOfCalls`: a descriptor belongs to
the call under way or to a connection that ended early, by whichever way
a call ends; and from what requests and answers look like (`DataInv`). `ImplementsStore`, if
the manager refuses sets and commits only (`OnlyChangesRefused`; the reading calls
return success without a look at the code of the answer): from `StoreInv`, which says
that no two calls have one number (`CallsDiffer`), that a request reaches the manager
once and is answered after that (`AskedOnce`), and that data come with every success
of a reading call (`DataFit`).

**NvramConfProofs**: `TypeOK`, `EditsKept`, `PoeSurvives` and `AppliedWhole`, for any
clients, kinds of configuration and number of sessions, that overlap in any way, with
sets, defaults and commits that fail, programs that die and restarts at any step. No
assumption keeps sessions apart or makes a write succeed; what the code needs is a
condition of the property instead, on what the session at hand met. `SessionInv` says
what a session is: what it has read and what it has still to read make up the keys of its
kind, each once (`Seated`). `EditInv` is about sessions that had no other of their kind
beside them: of two that are open with one kind each knows of the other (`Apart`), and
what such a session has read is what is stored until it writes, and then too, but for the
key it changes (`ImageFresh`). For `PoeSurvives` flash differs from the PoE
configuration only while one is written or a commit is owed. `DefaultsOnlyInitialise` is
not a theorem: it is false (run `nvram_default`).

**LinkListProofs**: `DoublyLinked`, `CountMatches`, `LoopSafe`, `LoopComplete`, for
any set of cells and data. `DoublyLinked` says that following `next` from `head`
and `prev` from `tail` agree node by node, which does not survive an unlink unless
one knows that the nodes form one chain: `OrderInv` says that there is a sequence of
distinct nodes of which the pointers are the picture, with the places where the
walk and the loop stand. Each change of pointers is one of three operations on that
sequence (insert, remove, empty), about which there are lemmas. And `ImplementsList`:
the list is the sequence of the data of its nodes, read off the pointers from `head` by
the recursive function `Nth`. By induction over its calls that is the sequence of the
invariant (`ElemsAre`), so the abstract list changes with the last pointer of an
operation. An insertion in order, and a deletion, must come at the place the abstract
operation names, the first that fits: `WalkInv` says that the walk has passed no other.

**LocalCallsProofs**: `OnlyOwnReplies` and `OwnReply`, for any number of clients with
process ids up to 32767 (what 16 signed bits keep), any inbox size and number of
faults. `NamesInv` keeps names, requests and answers of a client together.
`OwnReplyInv` says that a client that has not been late has one request or answer
under way at most, that of the call that waits for it (`OneUnderWay`), and that a
socket of the aaa client is reached only by what was at the server when it was bound
(`SocketOfOneCall`).

**DeviceProofs**: `TornOnlyByRace`, for any number of readers, ports and refreshes:
a reader that was not raced keeps the daemon out while it reads (`ReaderApart`), and
when the daemon's flag is down the figures are of one refresh (`WriterWhole`).
`TrunkGroupOfPort`, from `ScanInv`: as long as the port was not moved the groups noted
are the groups it is in, and as long as no request was refused none of them has been
passed. `ElapsedIsReal`, for a clock of any width and behaviours of any length, from
`ClockInv` and lemmas about differences modulo the width.

`ReportedIsHeld`, for any processes, values, failures and sequences of calls: a call that
has a request to make makes one about the register (`AboutRegister`), and what it leaves
there is what its result will say (`Goes`, `Right`). That the request does what the
function is named for is a fact about the tables of `SwitchCalls`, all 169 rows of them:
a function makes one request (`OneRequest`), and but for those that `Misleading` names
the ones named for a question read (`AskersRead`) and the ones named for a removal clear
(`RemoversClear`).

`SamePorts`, for up to 28 ports (as many as `phy[]` of `bcmutils.h` has) and both values
of `XPORT`: a value denotes the ports that were meant in whichever form it is
(`PortInv`), one lemma for each conversion. The loop of `bit2str` and `bit2vlan` has the invariant that the items so far
are the runs of the ports so far, the last of them open if the port before is set
(`ListRun`, `ListStep`). `VlanListsAgree` follows for the readers: the elements marked, of an
empty text element 0 (`MarkedRight`), the least and greatest numbers by the loop of `str2vlan_info` (`LowRun`, `HighRun`), and that a search which
stops at the first item above a number misses nothing in a list that ascends
(`IncludeRight`).

`ListedWasThere`, for any processes, addresses and files: a lister's stream holds only
addresses the chip has had since its call began (`Calling`), and while nobody else is at
the file what it has and what it may still read are the whole table in order
(`Undisturbed`); that an ascending list of a set is unique is `ListsOnce`.

`SubnetsAgree`, for octets of any width and every pair of addresses: numbers are equal
digit by digit from the top (`SamePrefix`), and a prefix padded with one digit is the
number that has it (`PrefixPadded`). `RowsKept`, for tables of any size, texts of any
digits and addresses of any number of octets: joined rows begin with the first
(`JoinedBegins`), and two digits make the octet (`AddressRead`). The functions of these
two have no steps, so their theorems are about every initial state.

**DataInduction**: the library's theorems on induction take an operator, which the
provers here do not instantiate. With a set in its place they do: a set of numbers with
0 and the successors of its members holds them all (`UpTo`), a step that is a function
has its states (`LoopStates`), and what holds of the empty set and with each added
member holds of a finite set (`MemberByMember`). The proofs about loops and recursive
functions rest on these three.

The type invariants are theorems too; where a theorem has it, a run repeats it only in
`poll`, `scfg` and `nvram`.

The four refinements are proved with the step relation of the abstract module written
over the mapped variables and one lemma per step.

Only model-checked: the liveness properties (`LineReleased`, `PauseFreesLine`,
`ContinuePolls`, `AnsweredReturns`, `CallReturns`, `ReaderReturns`), which rest on
fairness, so on ENABLED, which the prover does not reason about. Every safety property
of a passing run is a theorem.

## 6. Not modelled

* Bytes inside a packet: a data byte equal to the start character, a length field
  that does not fit, a header shorter than its structure. The retry statistics.
* Signal handlers call functions that are not safe there (`PoE.c:47`): the state of
  the C library is outside the model. `find_pid_by_name` returning process id 0.
* `malloc` failing, `SIGPIPE`, `SCFG_WARNING` answers.
* `RSTP_PORT` of `nvram_conf.c`: reading it drops fields, and the model's values have
  none. Parsing and formatting of configuration values, but for the rows and lists of
  `TextLists`.
* The struct flock that `already_stoprunning` leaves uninitialised
  (`poe_tools.c:1358`) makes its answer arbitrary; the model says so and states
  nothing of the answer.
* `get_poe_port_count`, `get_poe_system_status`, `get_poe_system_info`, and the
  routines that make no call of their own (`set_poe_power_supply_status`).
* The start of the serial link: `InitSerial` compares a status that is left unwritten
  when the call fails (`SPP_Serial.c:55`), `EventsTask` has no body.
* Functions that only change a stored text: `bcm_config_set_wrr_weight`,
  `vlan_port_get`, `bcm_vlanfwd_entry`, `find_vlan_intf_exit`, and the line settings of
  `aaa.c`. They edit in place with `strcpy` and `sprintf`; what matters of them, that
  a whole value is read and written back, is `NvramConf`'s.
* Functions without a result of their own: the dumps, `bcm_rx_show` but for its name,
  functions that end without a `return`.
* The readers of `/proc` and of interfaces in `if_info.c`, logging, pipes and the
  console: input and output only. The length limits of buffers in the conversions.
* Build files and the prebuilt library.

## 7. Plan

Done, in this order: the serial link and its service; the poller; the files; the
configuration client and its store; the sessions; the list; the datagram calls; the
device library (chip, trunk groups, address list, traffic figures, clock, subnets,
port sets, texts); the proofs of section 5.

Next, to extend the model:

1. Values with fields in `NvramConf`, so that `RSTP_PORT` and the line settings of
   `aaa.c` can be included, and the edits of stored texts as functions on rows.
2. The start of the link (`InitSerial`, `EventsTask`, `get_poe_system_info`).
3. The composition of a command that pauses the poller, sets PoE ports and lets it
   continue, over `PoEPoll`, `SPPLink` and `NvramConf`.

Next, to prove more: what the extended model adds; and of the composition, that a
command which waits for the save after its pause is alone on the line.
