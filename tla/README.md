# A verification project for NandProMax

NandProMax reads and writes the NAND or eMMC flash of game consoles through
USB programmers. It is a command line tool, a C library and a small TCP
server over three kinds of hardware. This directory holds TLA+ models of it,
the TLC configurations that check them on small instances, and proofs checked
by TLAPS for all instances.

What can go wrong in such a program is seldom in a formula. It is in what is
left behind when a step fails: a console that boots a half-written image, an
answer that belongs to the block before, a success that speaks for another
file, a programmer that is never released. The models are about that.

## The system

| Part | State it keeps | Operations | Talks to | What makes it correct |
|---|---|---|---|---|
| Transfer planning (`flasher.rs` `check_range`, `commands.rs` `plan_read`, `plan_write`) | none | pure | used by both transfer loops | a granted plan fits u32, device and input; nothing that makes sense is refused |
| NAND flash config (`lpc.rs` `FlashConfig::parse`, `commands.rs` `pages_from_flash_config`) | none | pure | used by LPC geometry and PicoFlasher planning | the fields' meaning; both backends derive the same size |
| PicoFlasher session (`commands.rs` `pico_read`, `pico_write`, `with_smc_stopped`) | `keep_stopped`, loop counters | read, write, prepare NAND or eMMC, verify, stop and start the console's SMC | serial client | no console runs on a partial image; success means the blocks are there |
| Serial client (`picoflasher/usb.rs`) | the open port | commands and answers over a byte stream, with time limits | programmer firmware | answers are matched with commands by order alone |
| Generic block transfer (`flasher.rs`) | loop counters, session of the backend | read, write, verify, release | any `NandFlasher` | honest outcome, backend released |
| LPC/XFlash client (`lpc/lpc.rs`) | cached flash config, version | init, flash init and deinit, read, write, status, the XSVF player | USB control and bulk transfers | a status belongs to its command |
| XSVF programming (`commands.rs` `cmd_xsvf_detect`, `cmd_xsvf_write`) | none | detect, write | LPC client | a success has run the player on the file |
| DemoN client (`demon/demon.rs`) | cached device info; the programmer keeps a half-received command, the flash acquired and the console in reset from call to call | init, acquire, release, read, write, bad blocks, leaving the bootloader | USB bulk transfers | answers belong to their questions; a stopped command does not turn data into commands; the flash is released |
| USB claim and release (`demon/usb.rs`, `lpc/usb.rs`) | the claimed handle, whether a kernel driver was detached | open, claim, transfers, drop | kernel, other processes | interface and driver are given back however a call ends |
| TCP server (`tcp/`) | listener, one client | VERSION, CONFIG, READ, WRITE frames | a `NandFlasher` | answers are honest, every client is served |
| Device selection (`commands.rs` `auto_detect_device`, `picoflasher/usb.rs` port detection) | none; races with the USB bus | detect, open | all backends | a named programmer is used or none; a port is not given up for a bystander |
| C API (`lib.rs`) | last error per thread | ten exports, callbacks | command handlers | the error text is that of the last failure of the thread |
| Device info (`commands.rs` `cmd_info`) | none | ask and print | the clients | as for the clients |
| Command line, device list, progress | none | dispatch and printing | command handlers | not modelled, see below |

Everything is synchronous: one thread per call, no persistent state but the
flash itself and the console's SMC. The concurrency is between the host and
the programmer (commands and answers on a line), between calls that follow
each other on the same programmer, between clients of the server, between
threads and callbacks of the C API, and between the program and whoever plugs
devices or replaces files. The hard behaviours are time limits, answers that
outlive the call that asked for them, several failures in one call, and
state on the programmer that no later call resets. `PROJECT.json` lists each of
them, with its line and the properties that cover it, under `hazards`.

## The modules

* `Ranges`, with `RangesProofs`: the planning functions as
  operators, `U32Max` standing for `u32::MAX` so that TLC visits both sides of
  the overflow.
* `FlashConfig`: the parser over the record of the bit
  fields it looks at, all 1024 of them. Sizes are counted in units of 0x20
  pages, which keeps the numbers inside TLC's integers; the cut to u32 becomes
  `% 2^27`.
* `DemonChips`: the table of chips a DemoN programmer may find, the sizes
  derived from it, the lookup by flash id, the conversion of block numbers to
  u16. Sizes are in units of 16 bytes.
* `MCPlanning`, with `PlanningProofs`, puts the three together: what a transfer
  computes before it starts, on every input of a small set.
* `FlashTransfer`: the abstract specification. A transfer plans a
  content for a set of blocks, programs planned blocks only, and reports
  success only with the plan on the flash; nothing changes the flash after a
  success. It knows nothing of programmers, commands or files.
* `PicoSession`, with `MCPicoSession` and `PicoSessionProofs`: the core. One
  action per command sent and per answer taken, from `GET_VERSION` to
  `START_SMC`, over calls that follow each other on one console. `inbox` and
  `replies` are the two directions of the serial line. `pc` names where the
  host is: `hello`, `version`, `stop`, `workaround` are `with_smc_stopped`
  before `op`; `nand`, `config`, `emmc`, `init`, `initd`, `detect`, `detected`,
  `csd` are `prepare_nand` and `prepare_emmc`; `plan` is planning and opening
  the file; `load`, `program`, `status` are a block of `pico_write`; `fetch`,
  `ret`, `data` are a block of `pico_read` or of `verify_chunk`; `unwind` is the
  end of `with_smc_stopped`.
* `BlockTransfer`, with `MCBlockTransfer` and `BlockTransferProofs`: `run_read_nand` and
  `run_write_nand`. A backend call is one step here, because the trait gives
  back a result for each; the length of the input is taken by path and the
  file opened later, as in the code, and another process may replace it at any
  step. It implements `FlashTransfer` too.
* `DeviceSelect`, with `MCDeviceSelect` and `DeviceSelectProofs`: from the arguments of a call to the
  programmer, port and medium the transfer runs on, one action per probe.
* `LpcServer`, with `MCLpcServer` and `LpcServerProofs`: the server's loop and the LPC client below
  it, USB call by USB call. `pipe` is the bulk IN endpoint, where an answer
  stays until something reads it.
* `UsbClient`: the host's side of a command-line call over libusb, which is the
  same for DemoN and LPC: claim, detach and claim again, one transfer after
  another, drop. What a call still has to transfer is the sequence `todo`; what
  the programmer has answered waits in `pipe`, also for a later call. `owner`
  is who has the interface, the kernel driver and other processes included.
* `DemonClient` extends it with the DemoN programmer and its client. The
  programmer takes bytes as they come: `wants` is what it takes the next for
  (a command, half a block number, the rest of a block), and it stays that over
  calls. `phase` names the function the transfers of `todo` belong to: `mode`,
  `leave`, `probe` are `probe_info`, `blocks` the transfer loop, `acquire`,
  `list`, `unlist`, `release` are `get_invalid_blocks`.
* `LpcCalls` extends it with the calls only LPC has: flash config (`info`,
  `xsvf detect`) and the XSVF player.
* `UsbCalls`, with `MCUsbCalls` and `UsbCallsProofs`, composes the three over calls that follow each
  other on one programmer, each in a process of its own, and states the
  properties.
* `CApi`, with `MCCApi` and `CApiProofs`: the shell every export runs in. What the commands do
  is left to the other modules.

`PicoSession` and `BlockTransfer` extend `Ranges`: the plans in the
sessions are the ones proved safe. They and `UsbCalls` instantiate
`FlashTransfer` with a refinement mapping and check its specification as a
property: the three transfers keep one promise. `map` in `PROJECT.json` gives the lines of code each definition
stands for.

Definitions marked `Mutant` are plausible bugs. Each is put in the place of
the definition after it (or named in `PROJECT.json`) to see that the property
it belongs to notices; no run uses them otherwise.

## The runs

| Run | Question | Bounds | States |
|---|---|---|---|
| `planning` | is every granted plan safe, and every refusal justified? do capacity and both backends' sizes agree? does a DemoN chip give images of the common format, and block numbers of u16? | u32 up to 5, 2-byte blocks, inputs to 13 bytes; all config fields; all device ids of 2 manufacturers | 11892 |
| `pico_session` | does a session hold partial images, move the right blocks and implement the abstract transfer, under every fault? | 2 calls out of 8, 2 blocks, 2 contents | 84266 |
| `pico_late` | what remains when answers and commands outlive their call? does every call end? | 2 unverified NAND writes, 2 blocks | 7310 |
| `block_transfer` | is the outcome honest with failing backends and changing files? | 2 calls out of 10, 3 blocks, 3 files | 26196 |
| `device_select` | is a named programmer or port used, with devices coming and going? | 4 port names of 3 devices, LPC and DemoN, 11 calls | 216576 |
| `lpc_server` | does an answer belong to its request, and is everybody served? | 2 clients, 2 requests each, 1 block, 2 contents, all faults | 362559 |
| `c_api` | whose error text is it? | 2 threads, 3 calls, nesting of 2 | 177567 |
| `usb_calls` | does what one call leaves on a DemoN or LPC programmer make a later one succeed wrongly? are interface and driver given back? | 3 calls out of 9, 2 blocks, 2 contents, 3 answers given up, all faults | 1015646 |
| `v_partial_image`, `v_argument_ignored`, `v_stale_status`, `v_flash_held` | four statements of documentation and comments that the code does not keep | as small as the counterexample allows | |

Why the bounds are enough. Two blocks tell a first from a last block, and a
failure between them; the address `start + done` differs from `done` with one
call that starts at 1. A config that claims one block too many stands for
every wrong size. Two calls are what it takes for one to leave something for
the next, and every state in which a call starts can be reached by one call
before it. Two contents are enough because the code compares and copies
blocks and never computes with them. In `LpcServer` an answer left over from
one client is met by the second; two requests let an answer left over from
one be taken by the other. In `UsbCalls` the third call meets what a failed one
left and a second, which may itself fail on it, changed. Three answers given up
leave every call's questions out of step. That more calls than three change
nothing is proved: for five of the properties without exception, for the other
four as long as no call begins with more than four answers waiting, which is
described below under `OkLeavesNothing`. In `CApi` three calls give one outer and one
nested call on a thread and one on another.

Deadlock is checked for `device_select`. Elsewhere the system stops when the
bounded number of calls, clients or plans is used up.

### What the properties say

* `PartialImageHeld`: from the first block of a write on, the console is held,
  and nothing on the line would release it, until the write is done or another
  call begins. It covers failures, timeouts, kills and panics at every step,
  and commands of an earlier call still in the line.
* `StoppedDuringTransfer`: blocks move only with the SMC stopped, or stopped
  before the programmer gets to them.
* `OkWriteMatches`, `OkReadMatches`: a success speaks for the very blocks.
  For a medium that corrupts silently this holds for verified writes only,
  which is what `--verify` is for.
* `ImplementsTransfer`: only planned blocks are ever programmed, also by
  commands handled after the call was given up; and a success is final.
* `CallReturns`, `ConsoleReleased`: with a silent programmer every call still
  returns; with one that goes on handling commands a stopped console runs
  again, unless it has to be held.
* `OutcomeHonest`: neither the error of a transfer nor that of the release
  hides the other, and the release happens once.
* `TakesOnlyWhatWasMeant`, `AutoDetectFindsProgrammer`: a programmer named with
  `-d` is used or none; a PicoFlasher call that names a port uses this port or
  none; a port named without `-d` is given up for another programmer only when
  it does not open; and no bystander is taken. That it may be given up at all
  is what `v_argument_ignored` is about. With a free programmer attached and
  nothing moving, a call without arguments does not come back empty-handed.
* `WriteAnswerHonest`, `ReadAnswerHonest`: the answers of the server belong to
  their requests, whatever requests and clients before left on the endpoint. A
  status 0 means that the block is on the flash, if all of it was sent: of a
  block that the time limit cut nothing is known, and its client may be told 0.
  Blocks cut for another request or client change nothing. `StatusMeansWritten`
  is the promise of the documentation, without the exception.
* `EveryClientServed`: every connection is served in its turn.
* `LastErrorIsCurrent`, `RefusedWithoutEffect`: the C API.
* `PlanIsSafe`, `PlanIsExact`, `CapacityFollowsFields`: the pure functions,
  against definitions by sets or by the meaning of the fields.
* `BackendsAgree`: LPC and PicoFlasher derive the same size from a flash config
  whose number of pages fits u32. That is every config but those of the largest
  size the fields can express, 2^32 pages, of which the cut to u32 leaves 0.
* `ImagesInterchangeable`, `ChipsAreAddressable`: the chip table against the
  image format of the other programmers and against u16 block numbers. The chip
  of 8192-byte pages has more spare bytes than the common format and is left out
  of the first, by name.
* `AnswersItsQuestion`: answers carry no tag and may be left over from an
  earlier call, and yet what DemoN's client takes for its device info are the
  answers to its own questions, because a call that is out of step notices it
  by a length or fails. LPC's client is safe as long as its reset works. They
  may be answers to the same questions of an earlier call: the property, which
  is proved for any number of calls, is about the question and not about when
  it was asked.
* `BlocksAreNotCommands`: however a write stops, the content of a block is
  never taken for commands by a later call. It is the next call's question
  that is swallowed by the half command; the question goes unanswered and the
  call ends. The exception is a write cut short by a time limit that
  `write_bulk` reports as done.
* `ReleasedAfterInit`, `OkLeavesNothing`: what a call may leave behind, and
  what it may not after a success. The second promise has an end. A read that
  fails leaves its answer to the next call, whether the answer was late or the
  transfer failed. Until a call is through `init` it reads five answers. When
  five wait as it begins, left by calls of which each gave up on the question
  after the one before, it is one whole probe behind, every length fits, and it
  succeeds on answers to the calls before. It takes five such calls, or four if
  the first was a bad-blocks call, which can leave two. Below that, with four
  answers waiting at most, no call gets through `init` on answers of another,
  whatever their order; this is proved, and that the first four calls never
  find more. The same holds of `OkReadMatches`, `BlocksAreNotCommands` and
  `ImplementsTransfer` of `UsbCalls`. A success starts the count again,
  since it leaves nothing, but for the two exceptions that the property names.
* `DriverGivenBack`: an interface is held by nobody between calls, and the
  kernel driver is attached again, unless attaching it or the second claim
  failed or the process was killed.
* `XsvfOkMeansRun`: a reported XSVF write has run the player on this file.

### Where code and documentation differ

1. `v_partial_image`. README.md:93 advises to re-run a failed write. The
   second call has its own `keep_stopped`; if it fails before its first block,
   for instance because the input cannot be opened, it restarts the console,
   now with the partial image of the first call.
2. `v_argument_ignored`. Without `-d` the medium and the port of a call bind a
   PicoFlasher only. README.md:80 says that the port is detected if it is
   omitted, cli.rs:163 that `emmc write` writes to eMMC. A port that does not open
   is given up all the same, detection goes on to LPC and DemoN
   (commands.rs:326-338), and these transfer the NAND whatever the medium. In the
   run `emmc write --serial` ends up on the NAND behind another programmer.
3. `v_stale_status`. After a late status the same connection is one answer
   behind, and a WRITE may be answered with the status of the one before.
   `lpc_server` shows that a client that leaves after a failure, as its next
   connection resets the programmer, is safe (`Careful`).
4. `v_flash_held`. When the flash id does not come in time, `read_flash_id`
   returns (demon.rs:244) without `release_flash`: flash acquired, console in
   reset. The comment at demon.rs:304 says what should not happen in the same
   situation. `ReleasedAfterInit` shows that it does not, once a call is through
   `init`.

Each is a violation run that must keep failing as long as the code is as it
is. Three more disagreements need no run:

* tcp/server.rs:18-19 promises a status 0 for a block that was written.
  `write_bulk` reports how much of a block went out before its time limit, and
  `flash_write` (lpc.rs:258) does not look at it: the client is answered with
  whatever status the programmer has for a block it did not get. The model has
  this (`WriteBulk`), and it is the exception in `WriteAnswerHonest`; without the
  exception `lpc_server` fails.
* tcp/protocol.rs:11-13 calls 1 MiB generous for the largest frame, one block of
  a backend. A block of DemoN's chip 0xD7 has (8192 + 448) * 256 bytes, 2.1 MiB:
  the server refuses the frame of its WRITE, and its READ ends the connection.
* commands.rs:453 promises the number of pages on the NAND; for the largest size
  a flash config can express the cut to u32 leaves 0, and every transfer is
  refused as out of range.

Of another kind is the failure to send `STOP_SMC`, which `with_smc_stopped`
drops on purpose: the transfer then runs on a live console.
`StoppedDuringTransfer` is proved for sessions without send failures only.

## Fairness

`PicoSession` assumes weak fairness of the host's steps, and of the programmer
nothing: the host is one thread that does not wait except in reads, and these
have a time limit (`Timeout` is a host step, `"timeout"` is among the faults).
`Die` is not in it. `ConsoleReleased` adds weak fairness of `Handle` as a
hypothesis, because a programmer that has stopped handling commands releases
nothing. `LpcServer` assumes weak fairness of the server's thread, all of whose
USB calls have time limits, and of each client's `Close`: there is no read
timeout on connections, so an idle client blocks the others for good, and
`EveryClientServed` says nothing about that case. `UsbCalls` states safety only:
all of its transfers have time limits, and a call is a straight sequence.

## What is proved

`RangesProofs`, from `U32Max \in Nat` and `None \notin Int` only:

* `RangeOkNoWrap`: no `start + i` of an accepted range wraps, and with a known
  size none leaves the device;
* `PlanReadSafe`, `PlanWriteSafe`: granted plans are accepted ranges, the ones
  asked for, with input for every block of a write.

`PicoSessionProofs`, from the assumptions on the constants in `PicoSession`,
for any number of blocks, words, calls and any set of faults, with or without
late answers:

* `TypeCorrect`: `Spec => []TypeOK`. `TypeOK` is not inductive, as `done <=
  blocks` needs to know that blocks are only counted inside the loop. `TypeInv`
  adds `LoopOK`: in the loop `done < blocks`, before it `done = 0`, the
  labels of the write loop belong to writes, and the plan of a write is no
  longer than its input (so that `file[done + 1]` exists).
* `PartialImageHeldAlways`: `Spec => []PartialImageHeld`. `SmcInv` says when
  `START_SMC` may have been sent (only by a call that is over, and that succeeded
  or never set `keep_stopped`), and that otherwise a delivered `STOP_SMC` is the
  last word on the line. The lemmas `SendKeepsStopped` and its sibling for the
  programmer's step carry `StaysStopped` over appends to and removals from
  `inbox`.
* `StoppedUnlessSendFails`: `StoppedDuringTransfer` for every instance without
  send failures; `StopSent` says that beyond the setup `STOP_SMC` was delivered.
* `OkWriteAlwaysMatches`, `OkReadAlwaysMatches`, `TransferImplemented`: a success
  speaks for the blocks, and `Spec => ImplementsTransfer`, for every instance in
  which no answer outlives its call (`~LateReplies`). The hypothesis is the one
  `pico_session` runs under, and what it excludes is said under "Abstractions".
  Commands may outlive their call all the same, and the refinement is about
  them too. Answers carry no tag; the inductive invariant `Inv` is what stands
  for one. `LineOK` says what may be on the two directions of the line at each
  label: nothing when the host is about to speak (`Quiet`, but for the SMC
  commands, which have no answer), and otherwise either the one command or the
  one answer that is waited for. With an answer goes what it means (`StatusOK`,
  `RetOK`, `DataOK`): a good status that the block is on the medium, data that
  it is what is stored there. `WritesPlanned` ties each write on the line to the
  plan of the call, `ContentOK` the flash or the output to the blocks counted.

`BlockTransferProofs`, from the assumptions on the constants in `BlockTransfer`:

* `TypeCorrect`, `OutcomeAlwaysHonest`, `OkReadAlwaysMatches`, from one inductive
  invariant `IInv`. `CourseOK` ties errors, files and `deinits` to the position of
  the call, `CountOK` says that the loop ends with `done = blocks` and stays in a
  range of the device (so `RangeOkNoWrap` applies to each block number), and
  `ImageOK` that what has been read so far is the flash.
* `TransferImplemented`: `Spec => ImplementsTransfer`. `RInv` adds that the block in
  hand is the next of the opened file and that the blocks counted hold what the
  file has for them, when success is to be trusted. Opening the file maps to
  `Plan`, `WriteBlock` to `Program`, the outcomes to `Succeed` and `Fail`, all else to
  stutters.

`UsbCallsProofs`, from the assumptions on the constants in `UsbClient` and
`DemonClient`, for any programmers, jobs, faults, number of calls and number of
answers left over:

* `DriverAlwaysGivenBack`: `Spec => []DriverGivenBack`. `DriverGivenBack` speaks of idle states only;
  `OwnInv` says where the driver is at every step: attached, or detached by the
  client that has the interface, or about to be claimed after detaching. The
  programmer leaving its bootloader in the middle of a claim is why `GoneIsFree`
  is in it. All transfers are one case, `Talks`.

* `TypesAlwaysKept`, `AnswersAlwaysTaken`, `AlwaysReleased`, `XsvfAlwaysRun`:
  `TypeOK`, `AnswersItsQuestion`, `ReleasedAfterInit` and `XsvfOkMeansRun`, from
  `CallInv`. Its parts are the types, `CourseOK` (what is known of a call in each
  stage), `LpcInv` and `DemonInv`. For LPC the argument is short: a call begins
  with a reset, and then at most one answer waits, that of the request in hand,
  unless the reset failed. For DemoN nothing is reset, and any number of
  answers may wait, of any number of calls. What keeps the calls apart is the
  order of the questions, which is what `Chain` says: behind the answer to a
  question waits the answer to the next one, or a byte, which only the mode
  query of a later call or a bad-block count can have left. `AtMode` to
  `AtRelease` say for each position in a script which of them can be first
  (`ReaderOK`) and last (`WriterOK`), and what the programmer takes the next
  byte for; a client that reads on over the seam between two calls meets a byte
  where it wants a word and fails. `AlwaysReleased` needs the same: only when
  the client has been answered to all four questions can it be known that the
  programmer has taken the acquire and release between them, and a programmer
  in the middle of a block (`Parser`) has the flash released already.

* `LeavesNothing`, `ReadsMatch`, `BlocksNotTaken`, `TransferImplemented`:
  `OkLeavesNothing`, `OkReadMatches`, `BlocksAreNotCommands` and
  `ImplementsTransfer` for any number of calls, under `FewWait`: every call from
  the fifth on begins with at most four answers waiting, the block that the next
  byte may bring counted with them. Without the hypothesis they are false, as
  said above. `FirstCallsFindFew` shows what it costs: a programmer on which
  there were four calls at most meets it, whatever failed in them. `Chain`
  does not help here, because an answer of the right kind to the right question
  may still be that of another call; the invariant `LagInv` counts instead.
  A call leaves at most one answer more than it found, a bad-blocks call that
  found none two (`Room`). The answers it
  reads up to the end of `probe_info` are a byte and four words, and it gets
  there only if it is in step with the programmer. Otherwise one of the answers
  it would have to read is a byte or a block (`Barred`), or the programmer takes
  its questions for the rest of a block and too few answers wait (`Swallowed`),
  and it fails: that is `AtQuestion`, and with the fourth answer only the first
  case is left (`ProbedIsInStep`). From then on `BlockLag` follows the loop
  block by block: the programmer is where the script is (`Following`), or takes
  what comes for the rest of a block that was cut short (`CutShort`), which a
  write that verifies notices at the next answer. The refinement maps
  `Initialized` to `Plan`, the transfer that completes a block to `Program`,
  dropping the client to `Succeed` or `Fail`, all else to stutters.

`LpcServerProofs`, from `ServerAssumption`:

* `TypesKept`: `Spec => []TypeOK`. `CourseOK` adds which of client, request and
  geometry the server has at each point, and that each bulk read finds an
  answer in the pipe.
* `WriteAnswersHonest`, `ReadAnswersHonest`: the two properties of the answers,
  for clients that leave after a failure (`Careful`, which `lpc_server` sets and
  `v_stale_status` does not: without it they are false). `TurnOK` says that such
  a client has one frame on its way at most; `OpeningOK`, `FrameOK` and
  `CommandOK` that on a connection with geometry the pipe holds just the answer
  to the command in progress, as the reset that came before the geometry has
  emptied it; a connection without geometry is refused both operations. The
  write property has one exception, a block of which the time limit let only a
  part out; `CommandOK` ties flash and status to the block for all others.

`DeviceSelectProofs`, from `PortAssumption`:

* `TakesAlwaysWhatWasMeant`, `AutoDetectAlwaysFinds`. `CourseOK` carries the
  arguments through the cascade; `SearchOK` says that an undisturbed search is
  on its way to a programmer that is there. `DetectPortMeant` is the lemma about
  `detect_port` and `drop_tty_duplicates`: a port that is detected belongs to a
  PicoFlasher or to the only candidate, under whichever of its names.

`CApiProofs`, from `ApiAssumption`, for any threads, calls and depth of callbacks:

* `LastErrorAlwaysCurrent`, `RefusedAlwaysWithoutEffect`. `NumbersOK` says that
  calls in progress have different numbers, growing with the nesting;
  `TextIsNewer` that an error text on a thread is newer than all of its calls in
  progress, so that the outer call overwrites the text of a nested one and not
  the other way round; `EffectsOK` that a call still checking its arguments has
  touched nothing.

`PlanningProofs`, from the assumptions of `Ranges` and `MCPlanning`:

* `PlansAlwaysSafe`, `PlansAlwaysExact`: `PlanIsSafe` and `PlanIsExact` for every
  width of u32, block size and length of input. `WholeBlocks` is the arithmetic:
  block `i` of an input ends within it if and only if `i` is less than the
  quotient.
* `CapacityAlwaysFollows`, `BackendsAlwaysAgree`: `CapacityFollowsFields` and
  `BackendsAgree`, the second for sizes whose pages a u32 can count, as the
  property says. The shifts are powers of two, which the provers cannot compute
  with symbolically: `ShiftLaw` and `ShiftPositive` have them for the nineteen
  exponents that the fields can give, and `ParsedSize` brings every parsed config
  down to one of them.
* `ImagesAlwaysInterchangeable`, `ChipsAlwaysAddressable`: the properties of the
  same name, by the rows of the chip table (`RecognizedIs`, `ChipSizes`).

All steps follow the disjuncts of `Next`.

What stays with TLC, and why:

* `CallReturns`, `ConsoleReleased` and `EveryClientServed` are liveness.
* `PartialImageHeld` and `StoppedDuringTransfer` are proved with late answers;
  what a success of `PicoSession` means is false with them.

## Abstractions

* A block, and each u32 or u8 answer, is one word on the serial line. Answers
  cut in the middle by a time limit, which would shift the bytes of all that
  follow, are left out; `pico_late` therefore uses unverified NAND writes, whose
  answers are all u32 words, so that its model of late answers is exact.
* A command goes out on the serial line whole or not at all. `write_all` may also
  fail after a part of it went out; the programmer then takes the rest from the
  bytes that follow, and no promise is made past that point.
* In `pico_session` nothing outlives a call. If it may, a success no longer
  speaks for the content: a call can take the late answers of the one before
  for its own. The time limit and not the protocol prevents that.
* A console has one medium. The programmer refuses commands for the other.
* The answer to `EMMC_GET_EXT_CSD` is the word that tells the size.
* Writes program one block each; a failing write leaves the block in any state.
* The LPC's bulk endpoint keeps an unread answer, and `device_reset` clears it;
  a read that finds a longer answer than it asked for fails and may or may not
  discard it. Any u32 the programmer sends counts as a good status if it was
  sent for version or config, which is more than it can do.
* A USB transfer of the server that is reported as failed may still have reached
  the programmer. Of a block that came in part the programmer may make anything,
  no change included, under any status, until the next command, on the control
  endpoint, ends its wait for the rest.
* In `BlockTransfer` an LPC block that was cut short and reported as written is a
  block of `SilentBlocks`: the caller cannot tell it from a silent medium.
* TCP connections lose nothing while they are open; a `write` after the client
  has closed may go unnoticed.
* Claiming is the same code in `demon/usb.rs` and `lpc/usb.rs`; one model stands
  for both, and the map points to either. That LPC's `open` also sets the
  configuration is left out, as its success is up to the platform.
* The DemoN firmware is not in the repository. It is modelled as far as the
  client can rely on it: commands are taken in order, a command byte is
  followed by its arguments, and a block is programmed when all of its bytes
  have come. There is no status, so a block counts as programmed with what
  the programmer makes of it, which `--verify` then reads back.
* After a part of a block has been taken for commands (`lost`), anything may
  happen; the programmer is then deaf in the model. No promise is made past that
  point; `BlocksAreNotCommands` is about not getting there.
* An unread answer is read as a whole or discarded as a whole. The kernel
  driver does not drain the endpoint. The count of bad blocks is never 0. Only
  bulk writes are cut short by their time limit, the byte and word transfers are
  single packets. DemoN and LPC programmers are not unplugged in the middle of
  a call; `DeviceSelect` has that between detection and opening.
* The status of the XSVF player is dropped by the code and has no value here.
* Logging, progress output and formatting are left out.

## Not modelled

* The command line and the device list: they dispatch and print, and keep no
  state. Progress output likewise; what callbacks may do is in `CApi`.
* Operations without a caller: erasing, power, the choice of the flash,
  firmware update and entering the bootloader of DemoN; `flash_erase`, power and
  `device_update` of LPC; `recv_stream_block` of PicoFlasher.
* The server over DemoN. Nothing resets that programmer between requests or
  clients: a block that came too late for one READ answers the next, and no
  promise holds once a request has failed. Until then `UsbCalls` covers the
  commands it would use.
* A chip changed under a running LPC server: the cached config only decides
  the constant that `GET_FLASH_CONFIG` is answered with.
* Time limits that expire inside an answer on PicoFlasher's serial line, and
  commands of which only a part could be written to it.

## What could come next

Every safety property that a passing run checks is stated by a theorem. Open are:

* the server over DemoN, which would be `UsbCalls` with one client for many
  requests; it makes no promise beyond the first failed request;
* answers on the serial line cut in the middle by a time limit;
* how many calls have to fail before `FewWait` does, as a theorem: a variable that
  counts failures since the last success would say it.
