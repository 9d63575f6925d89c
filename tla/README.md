# cm_interface: specifications and proofs

`cm_interface` is a Python library and a set of command line tools that run on the Zynq of an
Apollo blade and talk to the command module's MCU over a serial line. Everything behind the
MCU (power supplies, clocks, optical modules, FPGAs, the MCU's own state) is reached through
one text protocol: a command line, then a reply line. These TLA+ modules model the parts of it
whose correctness depends on order, failure and timing. TLC checks small instances; the TLA+
proof system proves the properties of the core for every value of the constants.

## The system

| Part | State | Operations | What is hard |
|---|---|---|---|
| `uart.py` UART | the open port, its input buffer | `write`, `readline`, lazy open, `close` | timeouts, late replies, half lines, process end |
| `device/base.py` Device | none | `read_reg`, `write_reg`, `read_block`, `update_bits` | a reply carries no identity; blocks are not atomic |
| `device/mcu.py` MCU | cached capability mask | `read_power`, `read_runtime`, mask pair, alarms, Config and Control writes, RTC | pages that change between transactions; writes that are only queued |
| `device/clock.py`, `si5395.py`, `si5341.py` | none | status, NVM guard, reset | readiness; which chip it is |
| `device/firefly.py` | none | CDR and equaliser setters | read-modify-write, byte by byte |
| `device/lga80d.py` | none (the MCU holds one capture) | telemetry, `read_snapshot`, `reset_snapshot` | one capture shared by all clients; reset needs the output off |
| `device/fpga.py` | none | bounded reads and writes | bounds |
| `registry.py` Registry | singleton; device tables; cached revision and clocks | `apply_preset`, look-ups, `reset_all_lga80d_snapshots` | stale caches; a constructor that fails |
| `tools/wait_cm_power_on.py`, `is_*` | none | exit-status predicates, polling | errors are verdicts; a poll never reopens the port |
| `tools/vccint_2phase.py` | none (the modules hold it) | `--apply`, `--restore`, `--drop-rail` | eight writes with no transaction; interruption |
| `tools/mcu_control.py`, `mcu_set_rtc.py` | none | power cycle, thresholds, RTC | release after failure; read-back of queued writes |
| other tools, `registers/`, presets, `compat.py` | none | print and decode | no interaction |
| MCU firmware (not in the repository) | registers, queues, control loop | ProgComTask answers commands | updates pages while they are read |

Tools call the Registry for devices; devices call the one UART object they share; the UART
talks to ProgComTask. There are no threads and no callbacks in the client. Its concurrency is
with the MCU's tasks, with its own earlier commands, and with other processes on the blade.

What makes each part correct:

- *Line and register access:* a returned value is the answer to the command it seems to answer,
  or the conditions under which it is not are known exactly; every call ends.
- *`read_power`:* a returned snapshot is one the firmware published; the coherency error means
  what it says; every call ends.
- *Waiting for power:* "yes" means that the board was on within the last poll; failures are retried.
- *VCCINT:* no prefix of the writes leaves FnVCCINT1 counting on two phases while FnVCCINT2
  still takes part; a successful run means what it prints; an interrupted run can be repaired.
- *Firefly setters:* a write changes the channels asked for, and another only by losing another
  client's change to it; exit status 0 means every module was set.
- *LGA80D fault history:* a snapshot is the caller's own capture; a successful reset erased it.
- *MCU controls:* exit status 0 means every queue took the message; a power cycle lets go of the
  board however it ends.
- *Reports and predicates:* the exit status is right; no device's trouble hides another's; a clock
  is not touched before it is ready and known.
- *Registry, NVM guard:* see "Not modelled".

`PROJECT.json` lists every component and hazard with its line, and what covers it.

## Modules

| Module | Models |
|---|---|
| `RegisterCalls` | what a register call promises: it starts, the MCU may execute it, and it succeeds only on the strength of an executed command of its own form, each of which backs one call at most |
| `ProgCom` | `uart.py`, `Device.read_reg` and `write_reg`, with the line and ProgComTask |
| `ProgComProofs` | theorems about `ProgCom` |
| `AtomicPower` | a read of the whole Power page at one moment, or an exception |
| `PowerSnapshot` | `MCU.read_power` against the firmware's control loop |
| `PairReads` | `_read_firefly_masks` and the RTC read of `read_runtime`, against registers that change |
| `CoherentReadsProofs` | theorems about `PowerSnapshot` and `PairReads` |
| `PowerPoll` | `wait` over `check` over `read_power` over a lagging line |
| `PowerPollProofs` | theorems about `PowerPoll` |
| `Vccint2Phase` | the VCCINT tool |
| `Vccint2PhaseProofs` | theorems about `Vccint2Phase` |
| `FireflyChannels`, `MCFirefly` | the CDR and equaliser setters of `firefly.py`, run by `cm-ff-cdr` and `cm-ff-rx-eq`, in several processes |
| `FireflyProofs` | theorems about `FireflyChannels` |
| `Snapshots`, `MCSnapshots` | `read_snapshot` and `reset_snapshot`, run by `cm-lga80d-dump`, `cm-lga80d-snapshot-reset` and scripts |
| `SnapshotsProofs` | theorems about `Snapshots` |
| `McuControl` | Control, Config and RTC writes by `cm-mcu-control` and `cm-mcu-set-rtc` |
| `McuControlProofs` | theorems about `McuControl` |
| `Reports`, `MCReports` | what the tools that read and report read, in which order, and what they conclude |
| `ReportsProofs` | theorems about `Reports` |

`ProgCom` refines `RegisterCalls`, and `PowerSnapshot` refines `AtomicPower`, each by an
`INSTANCE ... WITH` at its end. `PowerPoll` composes the other two at the level of what their
checks have shown: the line reduced to the queue of replies owed, and the page reduced to its
generation, which decides whether the board is on.

### ProgCom

`cmds` is the history of the command lines; the index of a command is its identity, which the
wire does not carry. `wire` holds commands the MCU has not handled, `rx` replies not yet read.
`Send` is `UART.write` and the entry of `readline`, with the lazy opening of the port, which
empties the input (`EmptyReceiveBuffer`) as pySerial does. `Receive` is `readline` returning a
line, and the judgement of it (`Accepts`): the decoders tell a reply by its form only, so a
command is `[op, size]` and a reply is acceptable when it has the form the command expects.
`Timeout` is `readline` giving up, between lines or within one; `ReadRaises` is pySerial raising in
the middle of it, which no code handles. What remains of a half line is a `"fragment"`, which no
decoder accepts (`Accepts`). That is an assumption about the firmware's text: the tail of a reply or
an error message is not itself a line of the accepted form (`c` alone, or `d` and bytes).
`ProcessEnds` is the end of the process at any moment. `Handle` and `Lose` are the MCU and the wire.
A write that pySerial raises from (`WriteRaises`) has sent nothing. Had it sent the whole line, that
would be `Send` and then `ReadRaises`; had it sent a part, the MCU would take the part and the next
line for one command, and answer or drop it as `Handle` and `Lose` do.

### PowerSnapshot

A field's content is the number of the pass that wrote it. The firmware increments the
generation, updates any fields in any order, and increments it again; the client's actions are
single transactions. `NFields` transactions lie between the two generation reads (ten in the
code), the generation wraps at `GenModulus` (2^32). `moved` and `disturbed` are histories.

*Assumption in the model:* fewer than `GenModulus` increments fall within one attempt. An
attempt is at most twelve transactions of at most 5 s, a pass takes 25 ms: some 5,000
increments against 2^32.

### PairReads

Two registers, read one at a time by one of two schemes: the masks as a, b, a, b and the clock
as a, b, a. The code compares what it reads twice (`Agree`) and starts over (`NextPairAttempt`).
These pages carry no generation, so a register may change and change back unnoticed.
`Change` is any writer: a module plugged in, a tick, `set_rtc`. `held` (the pairs there have
been since the attempt began), `changes` and `pairDisturbed` are histories. A name that
`PowerSnapshot` has too begins with `pair` here, because one proof module extends both.

### PowerPoll

`Script` is the list of reads of `read_power`, with their sizes. A reply passes for the answer
to any read of its own size, so what is taken from another register is nondeterministic in its
value (`Take...`): it may or may not be a state that has a name, may or may not be even.
`capabilities` is the cached mask, `Raises` the `except` of `check`, `Poll` one turn of `wait`.
The wait may begin with one reply of an earlier process still to come. The sleep between polls
and the deadline are a free choice of when `GiveUp` happens.

`HalfPass` is the control loop: `generation` is odd within a pass, and `On` is the set of even
generations at which the board is on, so that it may come on and go off again. What is read of
the state within a pass is the old one or the new one. The MCU reads a register at some moment
between the command and the reply, never before what it read last (`seen`). `since`, the generation when the last poll began,
`astray`, the fields that came from another register, and `gap`, that a reply was lost during the
poll while others were late, are histories.

### Vccint2Phase

`ddc`, `onOff` and `operation` are the registers of the two modules, and `todo` is what the tool has
yet to read, to write or to read back: every register is a step of its own, in the order of `Place`.
`Start` reads the power state and `ReadNext` a DDC_CONFIG; `plan` holds what has been read until
`MakePlan` turns it into what is to be left, or `Refuse` ends the run, as soon as what was read shows
that there is no plan. `Rank` is the order of the writes, which depends on the mode. `ReadBack` reads
the next register and compares it; the last one gives the verdict. `Interrupted` is a failed
transaction or a killed tool, with the write in progress done or not. `SwitchBoard` and `CycleVin`
happen between any two steps. The line is in step; the reserved bits of DDC_CONFIG are zero, as the
plans require. The registers that are only printed are left out (USER_GLOBAL_CONFIG, and
ON_OFF_CONFIG and OPERATION before the writes).

### FireflyChannels

A cell of `reg` is one channel's part of a packed setting: a CDR bit or an equaliser nibble, the
four reserved bits of an x12's CDR word included. `Layouts` says which cells share a byte. Each
client is a process: `pc` is where it stands, `queue` the slots it has yet to handle, the lowest
first, `raw` the cells it has read of the current setting, `todo` the bytes it has yet to write, the
lowest first. `BeginChange` is
the setter's check of its arguments, `ReadChunk` one transaction of its read (two for an
equaliser's six bytes), `WriteByte` one of its writes. A CDR setter writes all its bytes back, an
equaliser setter only those that change. `Fault` is an exception: the module is given up
(`FailModule`) and the loop goes on. `Interrupt` is Ctrl-C. `touched` is a history: what others
changed since this client read it.

### Snapshots

`cache` is the MCU's one capture, with a number that the wire does not carry. A dump goes through
its pages: registers, `Capture` (the `w SN` command), `NChunks` times `ReadChunk`, `Format`. The
MCU refuses a chunk when the cache holds another supply or page; it cannot tell another capture
of the same page. A reset is the tool's (look, ask, then look and erase for each supply) or a
script's (look once, erase for all, give up at the first failure): the `groups` of its plan.
`Erase` is acknowledged while the board is on and does nothing. `recaptured` and `onSince` are
histories.

### McuControl

A script is the list of what a tool does: asks, reads, writes, sleeps; `tool.step` is where the tool
stands in it, `Continue` takes it on or ends it. `WillHold` says what a setting will be once its
task has emptied the queue: what the newest message about it says. `Handle` is ProgComTask: it
puts the message in the queues concerned, and replies `c` if all took it and an error if one was
full, after the others have taken it. (Of the alarm latches MCU_REGISTER_MAP.md:332-337 says that one
clear goes to both alarm queues, lines 372-374 that each goes to one; the model follows the former,
the harder case.) `Task(q)` is the task of a queue acting on a message. The
line is that of `ProgCom`, by content: a process that starts empties what has arrived, and a
reply that is late is read by the next call. `FailOp` is `power_cycle`'s exception handler and
finally clause: after a failed assert, or Ctrl-C, the release is still sent. `Kill` is the end of
the process without it.

### Reports

`Plan` is the set of reads that a command line asks for. Each has its `place`, which says where the
tool's loops stand when it is made; `todo` is what is left of the plan, and `IsNext` the read of
`todo` whose place precedes the others. `CostsDevice` and `CostsPart` say what its failure costs:
the rest of its device, the rest of its part of the report, or nothing more. `DoRead` answers the
next read or fails it. `Problem` is what the tool makes of the answer; `Expected5395` and
`Expected5341` are its rules for clock alarms, applied to the configuration as it was read
(`monitors`), which other clients change between any two reads (`ClockChanges`). `RealAlarm` is
the reference: an alarm of something the chip watches and runs on, stated without the tool's
rules. A dump is read in runs: `BeginsRun` says at which addresses one begins, `RunAt` how far it
goes, which is as long as the next address is wanted and on the same page, and at most `MaxRead`
registers. A section that the firmware withholds is passed over (`SkipSection`) or fails, by the read of
the capabilities. An EEPROM with the wrong revision picks the wrong chip. `answered`, `sick` and `moved`
are histories.

## Runs

| Run | Expect | Shows |
|---|---|---|
| `ProgCom` | pass | the line's debt of replies, their order, what a success is worth, refinement of `RegisterCalls`; `CallsEnd`: every call ends |
| `ProgComAck` | violation | `WriteReturnedMeansExecuted`: a late acknowledgement makes a lost or refused write return normally |
| `PowerSnapshot` | pass | no torn snapshot across a generation that wraps, refinement of `AtomicPower`, meaning of the coherency error, termination |
| `PairReads` | pass | a pair that is returned was there at one moment unless both registers changed twice or more within the attempt; meaning of the coherency error; termination |
| `PowerPoll` | pass | `SnapshotMeansInStep`: a snapshot is of its own poll, unless a reply was lost while others were late; `YesMeansOn`: "yes" means that the board was on within the last poll, unless such a loss put another register's value in the place of the generation or the state; `LossIsRetried`: while no reply is late, a wait for a board that stays on ends with "yes", or at its deadline |
| `PowerPollLate` | violation | `ErrorsAreRetried`: one late reply, and the wait never succeeds |
| `Vccint2Phase` | pass | what is left by any sequence of interrupted runs |
| `Vccint2PhaseOn` | violation | `NeverTurnedOn`: the 2-phase mode commands FnVCCINT2 on for the time between two writes |
| `FireflyChannels` | pass | `OnlyAskedOrLost`: no channel changes but those asked for, and those whose concurrent change is lost; `SuccessMeansSet`: status 0 means every module handled has what was asked |
| `Snapshots` | pass | `SnapshotIsOwnCapture`: a snapshot is of one capture, one's own, unless the same page was captured meanwhile; `SuccessMeansErased` |
| `McuControl` | pass | `SuccessMeansQueued`: status 0 means the queues took it, on a line that was quiet at the start; `CycleReleases`: the inhibit ends |
| `Reports` | pass | `VerdictIsRight`: status 0 means all was read and no alarm mattered, and no alarm that does not matter is reported; `OnlyItsOwnTrouble` |

Every property of a passing run has a mutant: a definition that models code, changed as a
plausible bug would change it (`\* Mutant of ...` in the modules), under which TLC finds the
property violated.

### What the violations show

1. **The lag.** The client never empties its input before a command and replies carry no number.
   After one call times out whose reply still comes, every later call reads the reply to the one
   before it, until a reply is lost or the port is reopened. Reads notice when the sizes differ;
   writes never do, since every acknowledgement is `c`.
2. **The wait.** `cm-wait-cm-power-on` polls on one open port. With a lag of one, each read in
   `read_power` meets a reply of the wrong size in every poll and the wait ends only at its
   deadline. It fails on the safe side: a poll that loses nothing returns a snapshot only on a line
   in step (`SnapshotMeansInStep`), so an old POWER_ON of a board that is off again is not taken for
   a new one. The passing run has up to four replies unread; that lags up to ten are all noticed is
   proved (`PowerPollProofs`). A lag of eleven is the first that is not: the closing generation takes
   the reply to the opening one, all sizes agree, and a stale snapshot can pass. A reply lost in the
   middle of a lagging poll shifts the remaining fields into one another's place. The sizes can then
   agree, and `YesMeansOn` holds only while the generation and the state are the poll's own: another
   register's bytes in their place (a mask that equals the generation) pass every check of the code.
   That is why it excepts these polls (`gap`, `astray`).
3. **FnVCCINT2 commanded on.** The tool writes ON_OFF_CONFIG before OPERATION in both modes. The
   order is right for `--restore`, as the docstring explains; in the 2-phase mode it makes the
   page listen to OPERATION while that still holds 0x80.

The pass run of the same module shows a limit in the comment of `SomeOptionIsAccepted`: after
*two* interrupted runs in a row the tool can refuse in both modes, and only a VIN cycle helps.

Two more limits show in what the passing runs have to except. In `McuControl`, a release that the
MCU refuses because its queue is full leaves the board inhibited (Ctrl-C right after the assert
is enough to find the queue still full): the tool prints a warning and its status is not 0, and it
does not try again. In `Reports`, a clock reconfigured between the reads of its configuration and
of its status is judged by the old configuration (`moved`).

### Bounds

- `ProgCom`: four calls of three kinds (reads of 1 and 4 bytes, writes). Two sizes are needed
  to tell a wrong size from a right one, four calls let two be abandoned and two more be
  answered by them. `ProgComAck` needs two.
- `PowerSnapshot`: two fields, so that one is read before and one after an update; modulus 4, so
  that the generation wraps within a call; two attempts; four passes, so that both attempts can
  be disturbed and a call after them see a wrapped generation.
- `PairReads`: three values, so that a change need not be a return; four changes, the least that
  can deceive the comparison; two attempts.
- `PowerPoll`: the real script and the real number of attempts; two passes, of which the first
  switches the board on and the second off; three late and two lost replies. `LossIsRetried` is
  about the board that comes on and stays on, the second pass never coming.
  `PowerPollLate`: one pass, one late reply, none lost, which is enough.
- `Vccint2Phase`: nothing is bounded but the rail IDs: the strapped one and two others, so that
  FnVCCINT2 can be moved twice. The history `halted` counts to two.
- `FireflyChannels`: two clients, each a run of one of five command lines, over an x12 receiver,
  a receiver of another family, an x4 and an x4 outside the user mask. The channels asked for share
  bytes with channels not asked for, with the reserved bits and with the other command lines, and
  lie in both transactions of the read. One transaction fails.
- `Snapshots`: two dumps, which meet on one page, one reset over two supplies; two chunks instead
  of eight, so that another capture can fall between chunks; two switches, off and on again; one
  failure. The dumps are interchangeable (`Symmetry`; nothing compares or chooses them).
- `McuControl`: queues of one message (a full queue is the case that matters), two tools one after
  another, one late reply, one loss, one message of others: see `McuControl.cfg`.
- `Reports`: one run of each tool on a Rev2 board, one change, one failed read. Nine states of the
  Si5341 and ten of the Si5395 cover each rule with an alarm that it explains and one that it does
  not. Pages of nine registers and runs of three stand for 256 and four: a run ends at a gap, at
  its limit, at a page and at the end of the list.

### Fairness and deadlock

- `ProgCom`: `WF(Receive \/ Timeout)`. pySerial's `read_until` returns at its deadline at the
  latest. Nothing is assumed of the MCU or of the line.
- `PowerSnapshot`: `WF(ReadPower)`: a transaction ends, with an answer or at its timeout.
- `PairReads`: `WF(Client)`: as in `PowerSnapshot`.
- `PowerPoll`, `PowerPollLate`: `WF(Client)`: the wait's loop has no other exit than success and the
  deadline. No fairness on `GiveUp` (a deadline may be long), on the control loop, or on the line. That the board
  in the end stays on is the hypothesis of both properties.
- `McuControl`: `WF(Handle)` and `WF(Task(q))`: ProgComTask and the tasks are FreeRTOS tasks that
  block on their input and run when they have some. Nothing is assumed of the tools.
- `Vccint2Phase`, `FireflyChannels`, `Snapshots`, `Reports`: safety only.

Deadlock is not checked in `PowerPoll`, `PowerPollLate`, `FireflyChannels`, `Snapshots`,
`McuControl` and `Reports`: the tools end, and the system stops. It is checked everywhere else.

## Proofs

All theorems hold for every value of the constants under the named assumptions of the modules:

- `ProgCom`: `SizesAssumption`, `MaxCallsAssumption`.
- `PowerSnapshot`: `NFieldsAssumption`, `GenModulusAssumption`, `RetriesAssumption`,
  `MaxPassesAssumption`, `NoSnapshotAssumption`.
- `PairReads`: `PairRetriesAssumption`, `MaxChangesAssumption`.
- `Snapshots`: `SnapshotsAssumption`: a dump has at least one page to read, a reset at least one
  group of at least one supply.
- `PowerPoll`: `RetriesAssumption`, `BoundsAssumption`, `OnAssumption`. `SnapshotIsInStep` and `YesIsOn` have the
  hypothesis `MaxLate <= 10` besides, which they need: see below.
- `Vccint2Phase`: `RailsAssumption`: rail IDs have five bits, the strapped one is one of them.
- `FireflyChannels`: `SlotsAssumption`, the shape of the slots; `RequestsAssumption`: a command line
  changes a setting once at most, as each is one option of the tools.
- `McuControl`: `McuControlAssumption` (a queue holds at least one message), `BoundsAssumption`.
- `Reports`: `ReportsAssumption`; `RunsAssumption`, that command lines are such as the argument parsers
  and `selected_devices` yield (devices the tool knows, each once, and checks it has);
  `ClockStatesAssumption`, that the states of a clock are such as its registers can show.

**`ProgComProofs`.** `InductiveInvariant` proves `IInv`: the type invariant; `LagIsAccounted`;
`InOrder`; that a waiting call has sent a command; `OnlyOwnInFlight` (a call that began on a
quiet line has only its own command or reply in flight); `AnswersWereExecuted` (an answer in the
buffer is of an executed command); and the two properties of results. The order is what makes
the rest inductive: replies cannot be told apart by content, but an older one is always read
first. From it follow `TypeCorrect`, `LagAccounted`, `RepliesInOrder`, `QuietCall`,
`RightForm`, and `Implements`: with `claimed` as the last reply read, each command backs one
success at most because the replies are read in increasing order.

**`CoherentReadsProofs`, of `PowerSnapshot`.** `IInv` says that the generation is odd exactly within a pass
(`OddWithinPass`), that it is the opening generation plus `moved`, modulo the modulus
(`MovedIsExact`), that until it moves the page is the published one and the fields read so far
are its fields (`UndisturbedSoFar`), and how far the loops have gone (`Progress`, `Counted`).
`TypeCorrect` is the first conjunct. `SnapshotIsWhole`: an equal generation and fewer than
`GenModulus` increments mean none, so the fields are those published. The even modulus is
needed: parity must survive the wrap. `IncoherentMeansDisturbed` and `Implements` follow.

**`CoherentReadsProofs`, of `PairReads`.** `PairIInv` follows the values read by how often each register has
changed since the attempt began. While b has not changed, the pair was there when b was read;
while a has not, likewise. If b changed once, it held its first value until it changed, so the
pair was there or b still has that value; if a changed once it differs from its first value, and
the third read tells. `AfterFirst`, `AfterSecond` and `AfterThird` say this at each stage, and
`PairIsConsistent` follows with the comparison. It holds for both schemes: the fourth read of the
mask scheme is not needed for it. `PairIncoherentMeansDisturbed` rests on `UnchangedIsAsRead`.

**`SnapshotsProofs`.** Dumps and resets share the board only through its power, so there are two
invariants, each preserved by the other's steps. `DumpInv`: the number of a capture only grows; a
dump's chunks are of its page, and of its own capture or of a later one that put the dump in
`recaptured` (`Own`); while it is not there, a cache of its page is its own capture (`Held`), which
is what makes the next chunk its own too. `SnapshotIsOwn` follows. `ResetInv`: a reset that has
given nothing up (`Untroubled`) has looked at the power on behalf of each supply it has begun, and
either the board has been off since or the supply is in `onSince` (`Checked`); while the board is
off no record can be stored, so the supplies it is done with are erased (`Erased`), and so is the
first page of the one in hand (`HalfErased`). `ResetErases` follows: `done` means nothing is left.
`TypeCorrect` takes both.

**`PowerPollProofs`.** `TInv` gives the types and that no more replies are owed than came late, and
the awaited one. `PInv` adds four facts of a poll. `Lined`: while nothing is lost in a poll that lags,
the lag stays, and the replies owed are those of the attempt's last reads behind older ones, so a read
takes the reply to the read made `Lag` before it. For every lag from one to ten `Mismatch` names a read
whose size is not that of the reply it takes (`LagShows`), and no poll gets past it: with the lag gone
every reply is its read's own, which is `SnapshotIsInStep`. `Asked`: at the closing generation every
reply owed was asked for since the poll began. `Held`: if the opening generation and the state are
those asked for, the state read on the way is that of the opening generation or of a later one.
`YesIsOn` follows: when the closing generation is the opening one, no pass lies between, so the board
was on at that generation, and it is one of this poll's; that the board goes off again, as `On` allows,
changes nothing. The exemption stands in the theorem as in `YesMeansOn`: a poll that lost a reply while
others were late, and took a generation or the state from another register. Eleven late replies put the
line one whole attempt behind, which no size betrays, hence the hypothesis `MaxLate <= 10`.

**`Vccint2PhaseProofs`.** The registers only ever take a handful of values (`Value`): as strapped, or
two-phase, on the kept rail for FnVCCINT1 and on another for FnVCCINT2; so do the values read for a
plan, also when VIN is cycled between the reads, and that is enough for the plan to be what the options
ask for (`Planned`). `Written` says what of the registers is known: while VIN stays, those read are as
they were read and everything not left to write is as planned; during the verification, what was found
good still is, or VIN was cycled since and the strapped OPERATION, which comes last, is yet to be read.
With the lemma `Order`, on which writes can still be left when one is done, this makes
`ShrunkMeansDropped` inductive, and gives `RestoreIsACycle` and `AppliedIsTwoPhase` when nothing is
left: a VIN cycle between two reads of the verification leaves what `--restore` wants, or an OPERATION
that the 2-phase mode does not accept. `Interruptions` counts: after none, the pages of each module are
alike (`Whole`); while writing, the rail is changed page by page once FnVCCINT2's pages are alike
(`Changing`); after one interruption at least one module's pages are alike (`Halfway`).
`OptionIsAccepted` follows: where the kept module's pages are alike the 2-phase mode accepts, otherwise
`--restore` does.

**`FireflyProofs`.** The invariant has one part per client, and the same four for each: where it
stands (`Standing`), that a setter at work has accepted its arguments and, when it writes, has read
the whole setting (`AtWork`); that what it has read of a cell is the register's value unless another
client has `touched` the cell or it was itself to change it (`Fresh`); and, while nothing has failed,
that the modules it has handled are set, the one in hand up to its current change, and within it the
bytes not in `todo` (`Completed`). Another client's write keeps them because it puts what it changes
in `touched`. `OnlyAskedChanges` follows from `Fresh`, step by step, and `SuccessIsSet` from
`Completed` at the end.

**`McuControlProofs`.** `InStep`: in a run that began quiet and has not failed, nothing is under way
but the command or the reply of the call that waits. So an acknowledgement is the call's own
(`AckMeansQueued`), and `Achieved` says that once the last write of the script is
acknowledged, its messages are queued or set. That lasts because a queue holds only messages about
its own settings (`Types`), its task acts on them in order, and the newest one decides (`WillHold`).
`SuccessIsQueued` is this at the end of the script.

**`ReportsProofs`.** What was asked precedes what is still to do (`Ordered`), so the reads of a device
are made one after the other and, of a clock, phase by phase. `Accounted` is the centre: every read of
the plan that is no longer to do was answered, withheld by the firmware, failed, or lost to the failure
of an earlier read of its own device, in its own part or in one that its part depends on. After a
failed phase of a clock nothing more is read of it (`GivenUp`); so whoever comes to its alarms has read
all its configuration from the chip it takes it for, and still has it unless it was changed
(`MonitorsAgree`). `Rule5395` and `Rule5341` compare the tool's rules with the reference: for a
configuration that was read whole, some alarm is left unexplained exactly if one matters. `Judged`
keeps the outcome. `RunsCover` and `RunFits` show, for any set of registers, that the runs of a dump cover
it, and that each run stays on a page and within the limit. `OwnTrouble` follows from `Accounted`.
`VerdictRight` takes `SuccessIsClean` besides: no exit status of 0 with a read failed, lost or found
wrong. The invariant's parts that say how far the run is (`Quiet`, `Planned`, `BadWasAsked`) hold it
together.

**Only model-checked:** liveness (`CallsEnd`, `ReadPowerEnds`, `ReadEnds`, `LossIsRetried`,
`CycleReleases`), which the prover does not treat. Every other property of a passing run, the two
refinements included, is a theorem. The two findings are counterexamples and nothing to be proved.

## Not modelled

- Two processes on one tty at the same time. Where a module has several clients
  (`FireflyChannels`, `Snapshots`), each transaction reaches the MCU and its reply its caller: the
  clients are taken to agree on the line, or to come one after another between transactions.
- The JSON tables, formatting, files, argument parsing and the debug log; the decoding of values
  (PMBus formats, the LGA80D checks' comparisons) except where a property needs it; Python's own
  failures (out of memory, a broken pipe).
- A reply's bytes: a corrupted line is either an error or an answer of the same form.
- `read_alarm`'s temperature status and latch, which are read with no check at all, and the
  persistent log, whose pages deployed firmware does not offer.
- `clock.py`'s NVM guard and the clock setters, `fpga.py`, `update_bits`: no tool calls them.
- Blocks that cross a page: `read_block` cuts them, and no block that the tools read crosses one.
- What a read-back prints after a queued write: the old value or the new one (MCU_REGISTER_MAP.md:221).
- Writes or reads to a board that was switched since the tool looked: no client can exclude them, and
  no property here depends on it.
- `Registry.apply_preset` and the singleton: every tool makes one registry and ends with it.
- `tools/examples.py`, a tour of the API.
- `cm-lga80d-dump` marks the file of page 1 incomplete after a failure on page 0 (`failed` is kept
  per supply, tools/lga80d_dump.py:224). Its exit status is right, and `Reports` has only that.

## Plan

Not done yet, and worth adding:

1. An abstract specification of a client's setter (one atomic change of the channels asked for,
   by those who do not meet another) that `FireflyChannels` implements when clients do not overlap.
2. Action properties of the lag in `PowerPoll`: it grows only by a timeout and shrinks only by a
   loss.
