# A verification of goya-on-windows

TLA+ modules for the user-mode runtime and the kernel driver of this
repository, TLC configurations that check them on small instances, and TLAPS
proofs of what matters most for every instance.

Paths below are relative to the repository: `src/goya/*.py` is the runtime,
`driver/goya_bar.{c,h}` the driver.

## 1. The system

| Component | State it keeps | Operations | Talks to |
|---|---|---|---|
| Device object, `device.py` | `_hw_caps`, `_initialized`, the accessor | `init`, `shutdown`, `status`, `dma_transfer`, `gemm`, `write_to_dram`, `read_from_dram`, `with` | init, packets, accessor |
| Init sequences, `init.py` | none (registers of the card) | queue managers and channels, id check, soft reset | accessor |
| Direct command path, `packets.py` | none (operand registers) | write operands, start, poll | accessor |
| Encodings, `packets.py`, `regs.py` | `CommandBuffer` bytes, header value | packet builders, descriptor fields | - |
| Firmware loader, `firmware.py` | none (mailbox and DRAM of the card) | read status, load file, write image, signal, poll, halt | accessor |
| Accessors, `pci.py` | file handle, or the simulated byte array | `read32`, `write32`, `get_bar_info`, `close` | driver |
| KMDF driver, `goya_bar.c` | device context `Bar[6]`, kernel mappings | add, prepare and release hardware, three IOCTLs | Windows framework, card |
| PCI discovery, `pci.py`, `pci_config.py` | CM handles while a call runs | enumerate, parse resource lists | Windows |
| Probe, `probe.py` | none | read registers, print | accessor |
| Scripts, `driver/*.bat`, `*.ps1` | - | build, sign, install | Windows |

Everything the runtime does is a sequence of single register accesses, each of
which is an IOCTL that may fail; nothing is undone when one does. The card
works on meanwhile. So what is hard is not concurrency inside the program (it
has one thread) but

* a call cut short between two register writes, by an exception, an interrupt
  or the end of the process, and what the next call finds on the card;
* polling with a bound: a job that outlives the call that started it;
* snapshots of several registers taken while the card changes them;
* initialization repeated on a card that is partly, or entirely, set up;
* in the driver, the card being stopped and moved while requests wait, and
  contexts reused over it;
* two languages agreeing on one binary interface without a shared header.

What makes each component correct, in short: *device and init*: no queue manager
is enabled half-programmed, the object's flag means a programmed card, success
means a whole job ended, the caller's own if it found its engine idle;
*firmware*: what the CPU boots is one whole image, and what is reported as
booted is; *driver*: accesses fall into the live mapping of the current window
and mappings are undone; *accessor*: the driver knows its requests; *encodings*:
no field spills into another; *resource parser*: it reads only bytes it has,
handles are freed on all paths. The hazards, each at its line, are listed in
`PROJECT.json`.

## 2. Modules

| Module | Models | Notes |
|---|---|---|
| `DeviceService` | what `device.py` promises its caller | abstract: calls, jobs, answers, no registers |
| `GoyaDevice` | `device.py`, `init.py`, the direct path of `packets.py` | the core |
| `GoyaDeviceService` | - | the refinement mapping from `GoyaDevice` to `DeviceService` |
| `GoyaDeviceClaims` | - | comments the code does not keep |
| `MCGoyaDevice` | - | symmetry for TLC |
| `FirmwareBoot` | `firmware.py`; the CPU and the link as environment | |
| `FirmwareClaims` | - | a comment the code does not keep |
| `GoyaBarDriver` | `goya_bar.c`, `goya_bar.h`; the framework as environment | |
| `MCGoyaBarDriver` | - | resource lists and requests for TLC |
| `KmdfAccessor` | `KMDFBARAccessor` as client of `GoyaBarDriver` | composes accessor and driver |
| `BitWords` | Python integers and `struct` as sets of bit positions and bytes | used by the next four modules |
| `MMEHeader` | the builder `MMEHeader` of `regs.py` | |
| `GemmDescriptor` | the words `write_gemm_descriptor` writes | over `MMEHeader` |
| `CommandBuffer` | the packet builders and `CommandBuffer` of `packets.py`; a reader of its docstring's format as environment | |
| `Probe` | `probe_bar` and `mme_is_idle`; the MME and the link as environment | |
| `BarMemory` | `SimBARAccessor`, `read64`, `write64`, `write_to_dram`, `read_from_dram` | |
| `MCWords` | - | `GemmDescriptor` (with `MMEHeader`), `CommandBuffer`, `Probe` and `BarMemory` in one run: values for TLC |
| `PciConfig` | the search for resources in `pci_config.py`; Windows as environment | |
| `PciConfigClaims` | - | a guard that does not do what the layout asks |
| `MCPciConfig` | - | configurations and registry values for TLC |

The theorems about a module are in modules named after it (`...Proofs`), listed
in section 4; those about the encodings and the probe, which meet in `MCWords`,
are together in `WordsProofs`, and the refinement is in
`GoyaDeviceResultProofs`. `ArithmeticLemmas` has what several of them need: the
least element of a set of numbers, division, and numbers as sets of bits. The
modules they are about declare no recursive operator.

### DeviceService and GoyaDeviceService

`DeviceService` is the object as its caller may think of it. One call is in
progress at a time; work is accepted only while the object is `ready`; a job is
handed to its engine once and as a whole (`Start`); success is answered only
when that engine has come to rest; a call that fails, times out or dies leaves
its engine in `givenUp` if it may still run. The only liberty it gives the card
is that an engine given up may keep its old job when it is started again.

`GoyaDeviceService` maps `GoyaDevice` to it: `ready` is `initialized`, `call` is
`op` with engine and operands if it is work, `started` is that the call polls,
`givenUp` is `abandoned`, `answer` is `result`. What an engine is `doing` is
computed from its registers: the operand set all of them agree on, and the value
"mixed", which is no job, if they do not. So the refinement says in particular
that no sequence of single register writes, cut short anywhere, starts anything
but one job of one caller. All operand writes, polls, register programs and
status reads are stutters.

### GoyaDevice

`initialized` and `hwCaps` are the fields of the object, `open` the handle of
its accessor, `inWith` that a `with` statement is active. `pc`, `op`, `eng`,
`arg`, `k`, `polls` are the call in progress: which method, on which engine,
with which operands, at which position of its register program. The card is
`qm` (registers of each queue manager programmed so far), `operand` and
`latched` (operand registers, and the descriptor a HEADER write loads), `busy`
and `job`. `result`, `clean` and `abandoned` are history.

One action is one group of register writes with one purpose (`DmaInit`,
`MmeInit`, `DmaSteps`, `GemmSteps` list them in the order of the source), or one
poll, or one status register. Between any two of them `EngineDone` may end a
job, `Raise` may end the call with an exception that leaves every field as it
is, and `Restart` may replace the process. Operand sets are tokens: a
descriptor is one value that each of its registers carries, so that a mixture
of two descriptors is visible. Engines are the DMA channels `0 .. NumChannels-1`
and the MME.

External, because no source of it is here: an engine takes the operands it
finds when it is started; one that is still running an abandoned job keeps that
job or takes the new one; it ends at some time, or never. MME_RESET stops the
MME.

Not in the module: an identifier that is wrong from the start (it reads wrong
only by a failing link, `VerifyFails`), nested `with` statements on one object,
a second object or process on the same card, and the values written by init.
What is inside an operand is in `GemmDescriptor`.

With `BarMayFail = FALSE` no access fails and the process lives. It is the
setting of `SimBARAccessor`, whose engines are idle at every read; the model
lets them take their time.

### FirmwareBoot

`LoadAndBoot` starts `load_and_boot_firmware`; `ReadRegister` is one of the
three accesses of `read_cpu_status` on behalf of the check before loading, of a
poll, or of the last reading after the deadline; `LoadFile`, `WriteWord`,
`SignalFitReady`, `PollLoop`, `Sleep` follow the code. The deadline is a number
of polls. The CPU goes through the boot stages named in `regs.py`, takes the
image word by word after FIT_RDY, may report an error at any time, and does
nothing it is not told. `LinkLost` ends the link between any two accesses, for
good: from then on every read gives all ones and every write goes nowhere. The
one accessor reaches mailbox and DRAM, as the simulated BAR does. The loop over
the words is line for line that of `write_to_dram`, whose padding of a last
chunk is in `BarMemory`; here a word is a whole one of its image. `overwritten`
is history: a call has replaced words of an image the CPU was taking, or had
been told to take, by those of another file. A call that times out, raises or
dies does not set it, so `BootsWholeImage` speaks of what the CPU takes after
the call has gone; `errorThen` is that the error flag was set, or the link lost,
at the moment the status was read.

### GoyaBarDriver and KmdfAccessor

`DeviceAdd`, `PrepareStep` (one descriptor of the list per step) and
`PrepareEnd`, `ReleaseHardware` and `IoDeviceControl` are the driver's
callbacks. `StartDevice`, `StopDevice`, `RemoveDevice` and `Submit` are the
framework's and the clients' doing: the queue is sequential and power-managed
(the default), so requests wait while the card is stopped and no callback runs
beside another. The interrupt descriptor is skipped as in the code. `bar` is
`Bar` of the device context with the addresses and lengths ReleaseHardware
leaves in it. `PresentBarsReported` is about the entries the card's list has
now; those past it may still hold what a longer list put there, and are
answered to the client all the same (section 3, "Also seen").
Control codes are computed by CTL_CODE without the device type, which both
sides have in common. `KmdfAccessor` gives the requests of `KMDFBARAccessor`.

### Encodings: BitWords, MMEHeader, GemmDescriptor, CommandBuffer, Probe

A word is the set of the positions of its ones, so a shift, a mask and an `|`
are what they are in Python and a value wider than its field is just a set with
large members. `MMEHeader` has one action for all setters, each called with any
value any number of times: clear the field, or in the argument, with the masks
of the code. `GemmDescriptor` writes one descriptor after the other over what
the last one has left in the registers (`WordsFor`, the header through the
setters as in the code) and reads it back by the layout of the docstrings. In
`CommandBuffer` calls append packets, or raise in `struct.pack` on an argument
that does not fit, while a reader takes packets off by the format at the top of
`packets.py`; headers are big-endian and operands little-endian as in the code.
The reader is not the card's command processor: `docs/register-map.md` has other
packets (section 3, "Also seen"), and no code here sends a buffer. What is
checked is that the builders keep to their own format: widths, byte order,
packet boundaries. `Probe` reads the identifier, the status of the MME and the
errors one after the other while ports, score buffers and sync manager of the
MME go their ways, each bit on its own, and the link may be lost. The docs have
two conditions for an idle MME. `docs/register-map.md:505` and
`docs/linux-driver-notes.md:44` ask for no busy port and SM_IDLE, which is what
`mme_is_idle` looks at and what `restThen` records of the card at the reading of
the status; `docs/register-map.md:172` asks for empty score buffers as well.
`IdleMeansPortsAndSyncRest` is the first condition: by it, as in the code, an
MME whose buffers hold something is reported idle. `GoyaDevice` has no such
bits: its polls take an idle status for the end of the job.

### BarMemory

`mem` is the byte array. `Begin`, `WriteChunk`, `WriteEnd` and their reading
counterparts are the two loops of the device object, one word per step;
`Write64` and `Read64` are the base class. A byte has `Base` values instead of
256; nothing depends on 256 but the width of a word, `W`. `before` and `kept`
are history: the array when the call began, and the last value written. The
guard on `_initialized` is in `GoyaDevice`.

### PciConfig

`source` runs over the four places in the order the code tries them. In the
first two, `live` is the set of open handles, `current` and `new` the two the
loop holds; `GetFirstLogConf` to `FreeLogConf` are the calls of
`_read_logconf`, each of which may fail. In the last two, `offset`, `lists` and
`parts` are the parser's position and what is left of its two `range`s. A
registry value is a sequence of four-byte cells cut short anywhere; every
offset and bound of the parser is a multiple of four, so 12 to 15 bytes left
are three cells left. `Encoded` lays a value out cell by cell and `Whole` is
the value before it was cut; `ParsesWholeDescriptors` compares what the parser
has taken with the descriptors whose last cell the cut has left.
`HeaderRaises` is the exception nobody catches. Windows
frees a handle only when told to, and does not reuse one that is open.

## 3. Runs

| Run | Bounds | Shows |
|---|---|---|
| `device_sim` | 2 channels, MME, 2 transfers, 1 GEMM, 1 poll, no failures | `FlagsMatchCard`, `StatusIdleIsIdle`, `TypeOK` |
| `device_kmdf_dma` | 2 channels, 2 transfers, 1 poll, failures | `QueueEnabledOnlyProgrammed`, `InitializedMeansProgrammed`, `OneEngineAtATime`, `SuccessMeansDone`, `ExitMeansDown`, `BusyEngineUndisturbed` |
| `device_kmdf_gemm` | 1 channel, 2 GEMMs with different optional operands, 2 polls, failures, fairness | `ServiceSpec` (the refinement), `RunsWholeDescriptor`, `SuccessMeansDone`, `CallAdvances`, `CallReturns` |
| `driver` | 3 entries, window of 16 bytes, 4 resource lists, 1 waiting request | `TypeOK`, `AccessInWindow`, `MappingsBalanced`, `PresentBarsReported` |
| `firmware` | 2 images of 2 words, at most 1 poll, errors, a lost link, fairness | `TypeOK`, `BootsWholeImage`, `GoodStatusHadNoError`, `BootAdvances`, `BootReturns` |
| `words` | 2 fields of a header not zero at a time; descriptors that vary in one group of parameters; 3 packets; an array of 9 bytes, 6 strings of up to 8 bytes, offsets on both sides of the end | `WordsTypeOK`, `HeaderIsItsFields`, `DescriptorArrives`, `PacketsReadBack`, `IdleMeansPortsAndSyncRest`, `WriteTouchesOnlyItsWords`, `RoundTrip` |
| `pci_config` | 4 configurations of up to 4 descriptors, 4 registry values of up to 2 lists cut at every cell | `TypeOK`, `HandlesFreed`, `HandlesLive`, `FromOneSource`, `ParsesWholeDescriptors`, `SearchAdvances`, `CallReturns` |

Why these bounds are enough to be of interest: two channels are the least for
which programming one queue manager can be confused with the next and an
abandoned channel differs from the one in use; the MME is always there as the
last engine. Two transfers or two descriptors are the least with which a mixture
can be told from a job. One poll has both outcomes and the race between the last
poll and the engine's end; `device_kmdf_gemm` has two for the loop. The driver's
three entries cover the mapped one, an unmapped one and the bound, with lists of
one memory range too many, of three, of one and of none, so a card is also
restarted with fewer ranges than before; the window is smaller than one BAR 0
and larger than the other, and offsets lie on both sides of both edges. Two
words of an image are a first and a last one. Nine bytes are two words and an
end that is no word boundary; the strings have every remainder modulo four.
Arguments of setters, descriptors and packets lie on both sides of the width of
each field (M = 65535 and 65537, an address with bit 64, a value of 33 bits);
the fields of a header spill, if at all, into one other field, so two not zero
at a time are enough; two packets are the least for which a boundary can be
lost, and the third follows one that was. The parts of `words` share no state,
and a behaviour exercises one of them. The configurations and lists have,
between them, bars, interrupts, ports, ranges without address or length, an
address above 4 GB, and an empty list. Operations may be repeated without limit,
packets of a buffer excepted: no run bounds their number.

Deadlock checking is on everywhere but in `words`, where a full buffer, read to
its end, is the end of a behaviour. Transfers are symmetric in the two largest
runs, which check no liveness.

**Fairness.** Calls are made by one thread of the interpreter, which goes on:
`WF_vars(Progress)`. An access through a closed handle is an error return of
DeviceIoControl, so the exception does come: `WF_vars(~CanAccess /\ Raise)`.
Nothing is assumed of the card, its CPU, new calls, other failures, or the
framework.

**Disagreements.** Five runs end in a counterexample on purpose; each states
what a comment says and shows the run of the code that departs from it.

* `claim_ioctl_codes` (a bug): `pci.py:254` says the control codes match
  `goya_bar.h`; all three differ, so the driver refuses every access.
* `claim_shutdown_stops`: `init.py:199` says the DMA engines are reset; only
  their queue managers are disabled.
* `claim_success_is_own`: `packets.py:265` executes "a DMA transfer" and
  `:268` returns True on its success; a channel is started without reading STS0
  first, so on a channel still at a job given up earlier that job's end passes
  for success, if the card ignores a commit on a channel at work. What the card
  does then is in no source; the model allows both, and the other properties
  hold for both.
* `claim_boot_ok`: `firmware.py:259` polls "until DRAM_RDY"; every later status
  *number* is accepted, and the early boot stages have later numbers.
* `claim_parser` (a bug): the parser of resource lists goes on with 12 bytes
  left and reads the 16 of the layout in its docstring (`pci_config.py:294`);
  `struct.error` goes through every handler and `get_goya_pci_info` fails.

Because of `claim_ioctl_codes` the failures and successes of the other modules
describe the accessor as it is meant: they take a register access as something
that works or raises.

Also seen, and not made a run. *Where two descriptions of the same thing
differ*, and nothing in the repository decides between them or the answer is
read off one line:

* `docs/register-map.md:364-401` gives LIN_DMA 24 bytes and WREG_32 and FENCE 8,
  with the opcode in bits 28:24 of a control word and DMA_DIR in 22:20;
  `packets.py` builds 32, 16 and 16 bytes with the opcode in the first byte and
  the direction in bits 3:1. `PacketsReadBack` is about the second format only,
  so its holding says nothing of the first.
* `docs/register-map.md:172` has empty score buffers in its idle condition, and
  line 505 has not; `mme_is_idle` follows the latter. `tests/test_regs.py:28` has
  no status in which only a buffer is in use. The properties of the probe and of
  the polls hold with the code's condition, so if the MME is at work while a
  buffer is not empty, an idle report and a success come too early.
* `goya_bar.h:30` numbers BARs 0, 2, 4; `PrepareHardware` numbers the memory
  ranges 0, 1, 2 as they come, so BarIndex 2 selects BAR 4.
* `pci.py:305` queries "BAR physical addresses and sizes"; ReleaseHardware clears
  neither (`goya_bar.c:252-258`) and the answer always has six entries, so after
  a restart with fewer memory ranges it still has those of the ranges that are
  gone, as entries not mapped. `PresentBarsReported` is about the others.
* `firmware.py:184` signals "that the FIT image is loaded in DRAM"; the signal is
  not taken back when a call times out, and the next call writes its image under
  it. If it is another file, a CPU that takes words meanwhile boots a mixture:
  that is the case `BootsWholeImage` excludes with `overwritten`.

*And in single lines:* `firmware.py:271` promises an exception on any
failure, but the check before loading does not look at the error flag of a
status it accepts; `firmware.py:262` wants the DRAM's BAR for an accessor that
also has to reach the mailbox, which is behind another one; the registry
fallback tries BootConfig before AllocConfig, the configuration manager is asked
in the opposite order; `device.py:172` and `:190` describe the DRAM methods in
terms of the kind of accessor, and the code does the same for all;
`docs/init-sequence.md:95` lists CP_LDMA registers for the MME queue manager
that `init_mme_qman` does not write; `shutdown()` after an `init()` that failed
half-way disables nothing, because the flag was never set, so queue managers
enabled so far stay enabled; a `with` statement whose shutdown raises does not
close the accessor. `packets.py:42` keeps 16 bits of `offset >> 2` and subtracts
no base, so MME_ARCH (0xD0000) and the queue manager of DMA channel 2
(0x410000), and MME_QM (0xD8000) and that of channel 3 (0x418000), are one
register to a command processor; M, N or K = 65536 becomes 0 without a word;
`probe.py:89` prints "MME BUSY:" and nothing if only SM_IDLE is clear;
`pci.py:63` compares a `c_void_p` handle with -1, which it never is, so a
failing SetupDiGetClassDevsW is not noticed and there are no devices;
`probe.py:163` reports every OSError as a driver that is not installed; the all
ones of a lost link pass the check before loading (`firmware.py:275`), which
returns them as booted.

## 4. Proofs

Checked by TLAPS, from nothing but the named `ASSUME`s of the modules, which TLC
evaluates in the runs, and the theorems of its own library. They hold for every
value of the constants: any number of channels, operand sets, polls, image
words, resource lists, requests, registry values, any array, any descriptor,
any sequence of packets and any argument of a setter. Every invariant and every
action property of a passing run is the property of a theorem, and so is the
refinement.

| Module | Theorem | States |
|---|---|---|
| `GoyaDeviceProofs` | `TypeCorrect` | `Spec => []TypeOK` |
| | `EngineOwnership` | `Spec => []OneEngineAtATime` |
| | `Undisturbed` | `Spec => BusyEngineUndisturbed` |
| | `EnabledAreProgrammed` | `Spec => []QueueEnabledOnlyProgrammed` |
| | `InitializedIsProgrammed` | `Spec => []InitializedMeansProgrammed` |
| | `Bounded` | `Spec => CallAdvances` |
| `GoyaDeviceResultProofs` | `WholeDescriptors` | `Spec => []RunsWholeDescriptor` |
| | `SuccessIsDone` | `Spec => []SuccessMeansDone` |
| | `IdleIsIdle` | `Spec => []StatusIdleIsIdle` |
| | `ExitIsDown` | `Spec => []ExitMeansDown` |
| | `FlagsAreTrue` | `Spec => []FlagsMatchCard`, if `~BarMayFail` |
| | `Implements` | `Spec => ServiceSpec`, the refinement |
| `FirmwareBootProofs` | `TypeCorrect` | `Spec => []TypeOK` |
| | `GoodStatus` | `Spec => []GoodStatusHadNoError` |
| | `WholeImages` | `Spec => []BootsWholeImage` |
| | `Bounded` | `Spec => BootAdvances` |
| `GoyaBarDriverProofs` | `TypeCorrect` | `Spec => []TypeOK` |
| | `AccessSafe` | `Spec => []AccessInWindow` |
| | `Balanced` | `Spec => []MappingsBalanced` |
| | `PresentBars` | `Spec => []PresentBarsReported` |
| `PciConfigProofs` | `Live` | `Spec => []HandlesLive` |
| | `Freed` | `Spec => []HandlesFreed` |
| | `TypeCorrect` | `Spec => []TypeOK` |
| | `ParsesWhole` | `Spec => []ParsesWholeDescriptors` |
| | `OneSource` | `Spec => []FromOneSource` |
| | `Advances` | `Spec => SearchAdvances` |
| `WordsProofs` | `HeaderTyped` | `HeaderSpec => []HeaderTypeOK` |
| | `HeaderExact` | `HeaderSpec => []HeaderIsItsFields` |
| | `DescriptorFound` | `DescriptorSpec => []DescriptorArrives` |
| | `ProbeExact` | `ProbeSpec => []IdleMeansPortsAndSyncRest` |
| | `PacketsRecovered` | `BufferSpec => []PacketsReadBack` |
| | `WordsTyped` | `AllSpec => []WordsTypeOK` |
| `BarMemoryProofs` | `TypeCorrect` | `Spec => []TypeOK` |
| | `WriteIsLocal` | `Spec => []WriteTouchesOnlyItsWords` |
| | `ReadsBack` | `Spec => []RoundTrip` |

**The device, first part.** *Types* need to know where the call is: `PositionOK`
bounds `k` by the program in hand, or the operand written at step `k` would not
be one. `TypeStep` has one step per action over lemmas about the four control
helpers (`Enter`, `Goto`, `Return`, `Refuse`). *Engines*: every action that
leaves `pc = "poll"` either has read the engine idle or adds it to `abandoned`
(`OneEngineStep`); the action property follows, as operands are written only at
`pc = "operands"` and engines started only at `pc = "start"`, when no live call
is polling. *Queue managers*: neither of the two invariants is inductive alone.
A half-finished `init()` proves nothing about the registers it has still to
write, so `ProgrammedSoFar` says that all engines before `eng`, and the first `k
- 1` registers of `eng`, are programmed; `ProgramOrder` says that in both
programs the enable bit stands behind all the registers a queue manager needs
and that all of them occur. Then writing the enable bit finds the others
written, and the end of the MME's program finds all engines programmed. `IInv`,
in `GoyaDeviceProofs`, is the conjunction.

**The device, results.** What a call has done so far has to be carried along to
its end. `OperandsWhole`: while a call writes operands, all fields before `k`
hold its operand set, and at the start all the engine will read do; lemma
`WorkStepsCover` says that the program of an operand set writes every field its
engine reads, and the header, which loads the descriptor, last. So a mixture
left by an earlier call is never started. `PollsWholeJob`: the engine a call
polls was started on one whole operand set, its own if the engine was idle at
the start; otherwise `RunsWholeDescriptor` says that what the engine was running
before is a whole one too, so a success is always the end of some whole job.
`IdleSoFar`: of the engines
status() has read, those found idle still are, as nothing is started meanwhile.
`DownTogether`: the capability mask never outlives the flag, and the accessor is
closed only under an object that is down. `AgreeSoFar`: with an accessor that
never fails, the programs of init() and shutdown() leave all engines they have
passed enabled, or disabled, and nothing else does.

**The refinement.** `BusyCarries`: an engine that runs carries a job its
registers agree on (`RunsWholeDescriptor` again), so `doing` never is "mixed".
Then each action is mapped: lemma by lemma, a new call is `Call` or
`AnswerAtOnce`, the start is `Start` because `OneEngineAtATime` leaves only
engines given up to be found busy, returns are `Succeed`, `Fail`, `BecomeReady`,
`GoDown`, `Leave`, `ReportStatus`, and all else changes nothing the mapping
sees.

**The firmware.** `TicksLeft` bounds the polls. *Good status*: the status is
read before the error flag; `ErrorSeen` says that an error, or the loss of the
link, at the first of the two reads is there at the second, as neither is ever
taken back. *Whole images*: `Written` says that the words before `w` are in
DRAM, those of the call's image, unless the link is lost; `Pending` that while
the CPU has words to take (`Awaited`), and none of them has been overwritten
since, DRAM holds one whole image and what the CPU has taken is of the same. No
call need be in progress for that: FIT_RDY is only ever written behind a whole
image, and what comes after a timeout or a crash changes DRAM only by writing
words, where `overwritten` looks.

**The driver.** `MappedInv`: the live kernel mappings are exactly the one
recorded in entry 0, and no other entry is mapped. `WindowInv`: before the first
memory descriptor nothing is mapped, and what is mapped later begins where that
descriptor does and is no longer. `AccessInv` ties a register access to that
entry. *BAR information*: `RecordedInv` counts the memory descriptors of the
list passed so far (`MemoryIn`): that many entries are taken, up to the size of
`Bar`, the entry of each descriptor is the number of those before it, and it
holds the descriptor's address and its length, cut to the mapping for BAR0
(`Describes`). Entries past the list are not covered; `AnswerInv` ties an answer
to the context of the started card, because no callback changes the context
between an answer and the card's being stopped.

**The handles.** `WalkInv`: at each place of the walk the open handles are
exactly those the code holds there (the configuration, `current`, and `new`
between getting it and freeing its predecessor); outside it there is none.

**The parser.** First what a value looks like, for any number of lists of any
length: `FlattenSeq` is unfolded list by list (`FlatStep`, `FlatPlaces`), so
that the header of a list and each descriptor have a known place
(`HeaderCell`, `DescriptorCells`) and the descriptors left whole by a cut are a
prefix (`CompleteIs`). `ParserAt(k, q)` says where the parser is: it has taken
the first `q` descriptors and the headers of `k` lists, its offset is that many
cells, the cell it reads next is the header or the descriptor it takes it for,
and the rest of its two `range`s is what the value still has, or it is at the
end of the data. `Counted` ties `bars` and `ints` to the descriptors taken, and
`WalkCount` says on the walk that those come from descriptors it has reached.
Since each source starts with nothing (`Fresh`), what is returned is from one.

**The header.** `FieldsApart`, from the table `Layout` of positions and widths:
no two fields share a bit. Then a setter changes its own field only, and the
header is the union of the places of what was set last.

**The GEMM descriptor.** `FieldOf` reads a field out of any header word; by the
masks' being disjoint a setter changes that field only (`SetterFields`), so the
chain of setters leaves in each field the value the descriptor has for it, cut
to its width (`HeaderFieldsOf`). An address is the two halves written
(`AddressWhole`), a dimension its low 16 bits. `DescriptorInv`: the registers a
descriptor writes hold its words, and the others may hold what an earlier one
left, which no field of this descriptor reads.

**The packets.** A packet is its parts, and parts read back as they were packed,
big-endian or little-endian (`LittleBack`, `BigBack`, `PartRead`); so the
reader that stands at a packet reads the request of its call (`PacketRead`).
`BufferInv`: the buffer is the packets of the calls that returned, each at its
place (`Places`), and the reader stands between two of them. A call that
raises leaves it as it was, since the parts are packed before they are appended.

**The probe.** `ProbeInv`: the later registers are read only of a card that
answered as a Goya, and the report is idle if and only if ports and sync manager
were at the reading of the status. The all ones of a link lost between the
readings is not an idle status (`IdleStatus`).

**The byte array.** Arithmetic first: `DigitsLemma`, `PackUnpack`, `UnpackPack`
say that four digits to any base and a word determine each other. Then `ReadInv`
(what a reading loop has gathered is what the array holds), `KeptInv` (what was
written is still there) and `ResultInv`, each up to the end of the array, where
the code drops words that do not fit (`Inside`).

**Bounded calls.** `StepsLeft` is a natural number in every state of a call,
and each of the call's own steps lowers it: the card, its CPU and failing
accesses can end a call early, but never keep it going. Here the invariants
above come back: `k` within its program, `ticks` within the deadline, the walk
within its descriptors and the parser's offset within the data. This is the safe
half of termination, proved for every value of the constants; that the steps are
taken is the fairness of section 3.

**Induction.** The induction theorems of the library take an operator as a
parameter, which the provers cannot instantiate. Where a proof needs induction
over the length of a list or of a program it takes the least counterexample
instead: lemma `Least` of `ArithmeticLemmas`, from the well-foundedness of
strict inclusion of finite sets.

**Only model-checked.** The liveness properties `CallReturns` (of the device and
of the search) and `BootReturns`, as fairness and ENABLED are out of the
prover's reach. The properties of the five runs that end in a counterexample are
false, so there is nothing to prove of them. Proofs about several components at
once are not needed: they meet in single register accesses, which work or raise.

## 5. Not modelled

* The enumeration with SetupAPI and the reads of single device properties: calls
  into Windows without state of their own or a decision that depends on more
  than one answer.
* `main` of the probe and all printing; the scripts that build, sign and install
  the driver.
* The addresses and values of registers beyond those the encodings compute:
  registers appear by purpose. The progress callback, the wording of messages.
* Two objects, or two processes, on one card. The code has no lock and no
  document promises two clients anything, so there is nothing to check them
  against.
* What the card does where no source says it: an engine whose configuration is
  rewritten while it runs, a DRAM offset that is a register, a command processor
  that is given one of the packets.

The notes of the components and hazards in `PROJECT.json` say the same, part by
part.

## 6. What could come next

A lock between processes would give two clients a specification, and
`DeviceService` is the place to state it. With the control codes of the accessor
corrected, `KmdfAccessor` could carry the register accesses of `GoyaDevice`
through the driver instead of taking them as steps that work or raise.
