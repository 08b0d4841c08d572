# A verification development for uscope_driver

`uscope_driver` is the process that runs on a Zynq board next to an FPGA which
simulates power electronics in real time ("hardware in the loop", HIL).  A
server connects to it over TCP and sends commands; the driver turns them into
writes to memory-mapped registers, loads of fCore programs, bitstream loads and
reads of captured data.  These modules model what the driver does to that
hardware and to its own tables, TLC checks them on small instances, and TLAPS
proves some of the results for every instance.

Paths are relative to the repository as it is checked out under `src/`: the C++
sources are `src/src/...`, the headers `src/includes/...`, the tests
`src/testing/...`.

## 1. The system

| part | state it keeps | operations | talks to |
|---|---|---|---|
| `server_connector` | the socket and the buffers of `receive_command` | accept, receive a command, acknowledge, send a response | clients; `command_processor` |
| `command_processor` | none | dispatch of a command by name | the four endpoints |
| `control_endpoints` | none | register_write, register_read, apply_filter, load_bitstream | `fpga_bridge` |
| `cores_endpoints` | owns a `hil_deployer`, a `custom_deployer`, an emulator and the toolchain | apply_program, deploy_hil, hil_hardware_sim, hil_start, hil_stop, hil_select_out, hil_set_in, hil_debug, emulate_hil, compile_program, address map | those |
| `scope_endpoints`, `scope_manager`, `scope_accessor` | `scope_base_address`, `scaling_factors`, `channel_status`, `first_load` | read_data, set_acquisition, set_scope_address, disable_scope_dma, ... | `fpga_bridge`, `scope_accessor` |
| `platform_endpoints`, `timing_manager` | `ps_pl_clk_f`, `generated_clocks`, the log level | set and get clocks, versions, log level | `fpga_bridge`, the kernel module's attributes |
| `hil_deployer` (over `deployer_base`) | `deployed_hash`, the address map, `ivs`, `inputs`, `bus_labels`, `inputs_labels`, counters, timebase, `bus_map` | deploy, hardware simulation, start, stop, select_output, set_input, set and get the address map, get the sampling frequency | `fpga_bridge`, the fCore dispatcher |
| `custom_deployer` | its own `deployer_base` | deploy of a hand-made design, whose specification gives the addresses | `fpga_bridge` |
| `hil_emulator` | an interactive emulation session | emulate, disassemble, debug commands | the fCore toolchain |
| `fpga_bridge` | static `fpga_loaded` | gated register access, ungated program loads, bitstream loads | `bus_accessor` |
| `bus_accessor` | the log `operations`, static `sink_mode`, `previous_sink_mode` | write, read, load a program, render the log | the two mapped windows |
| kernel module (the mock's is in the repository) | the rates of the clocks, whether a bitstream was taken | write, ioctl and read of the bitstream device, clock attributes | - |

**Scheduling.**  The driver is one thread: the acceptor, the connection and the
handler of a command run one after the other, so no two commands overlap.  What
does interleave with a command is SIGINT and SIGTERM, whose handler exits
(`src/src/uscope_driver.cpp:28`), and the hardware, which keeps its state when
the process goes.  A handler is therefore one action, except `deploy()`, which
is long, writes the hardware step by step and can throw between any two writes.

**Exceptions.**  Only `process_deploy_hil` and `process_compile_program` catch,
and only `runtime_error`.  Everywhere else an exception leaves `main` and the
process ends.  So does an access outside a mapped window, by `exit(-1)` below it
and by SIGSEGV past its end.

**What is hard to get right** is not concurrency but state that outlives a command:
the log a simulation is rendered from, the sink mode of the bus, the tables of the
deployer of which some are emptied by each deploy and some never, a cached hash, the
hardware after a deploy that stopped half way, the rates reported of a kernel module
that was replaced since.  Beside it there is the one thing that does run at the same
time as the driver, its clients: a command arrives in pieces the network chooses,
and a client may leave in any state of the exchange.  And there is arithmetic on
packed words: the deployer writes a metadata word per slot which comes back to the
scope with every sample, and it takes the timebase of the cores as a least common
multiple whose products wrap and whose sign an int decides.  Two deployers share the
bus, its log and the address map, and only one of them resets what it counts.  And
the process has a limited number of file descriptors, some of which it never gives
back.  The list under "hazards" in `PROJECT.json` has each at its line with the
property that is about it.

What makes each part correct:

- *bus*: the hardware does what the log says, in its order, and nothing in sink
  mode; the rendered log loses nothing of it; no register access before the FPGA
  is loaded.
- *deployer*: a completed deploy has written what its specification calls for,
  nothing else, and enabled the cores only after their programs, interconnect,
  memories and inputs (`setup_cores` follows the enable, `hil_deployer.cpp:105-106`);
  the tables it keeps are about the specification it names; a simulation never
  touches the hardware and always gives the bus back; commands act on what is
  deployed.
- *sequencer*: the cores take turns in their execution order and run at the
  frequencies they are specified for.
- *platform*: what the driver reports of a clock is what the kernel module took,
  while that module stays; what it leaks is never what the next client needs.
- *server*: a client's command is executed at most once and answered with its
  own answer; a disconnection between commands costs only the connection; the
  next client is served.
- *scope*: samples reach their channel in order and with its scaling; the
  metadata the deployer writes is what the scope decodes.

## 2. Modules

| module | models | how it corresponds to the code |
|---|---|---|
| `FpgaBridge` | `bus_accessor`, `fpga_bridge`, launch and exit | one operator per method, named as it; the variables are the members, with `registers`, `fCore` and `operating` for the hardware and `up` for the process |
| `ControlEndpoints` | the commands that act on the bus directly | extends `FpgaBridge`; `process_...` operators are the handlers with their validation in the code's order, actions choose their arguments; `response` is the code answered, or what the process died of |
| `MCControlEndpoints` | | windows, addresses and programs for TLC |
| `HilDeployer` | `hil_deployer`, `deployer_base`, `hil_bus_map` and the HIL commands of `cores_endpoints` | extends `FpgaBridge`; `pc` is the place in `deploy()`: its phase, the program, slot or input its loop is at, and the counter that loop keeps; `addresses` is `logic_layout` |
| `HilProperties` | | what a deployment promises, stated as sets and ranks without the code's counters and loops, and the properties |
| `MCHilDeployer` | | a register layout and thirteen specifications for TLC |
| `CustomDeployer` | `custom_deployer`, beside `hil_deployer` in `cores_endpoints` | extends `HilProperties`: its actions are those of `HilDeployer` and the deployment of a custom design; `CustomCalls` lists the calls of `deployer_base` that `deploy()` makes, each of them a step; the counters its own `deployer_base` has are `custom_random_inputs` and `custom_waveforms` |
| `MCCustomDeployer` | | two custom designs, one of which throws half way, and two address maps |
| `KernelModule` | the mock kernel module as far as the driver's commands reach it | one operator per file operation, and insertion and removal with what they may leave missing; what a board's module does otherwise (refuse a rate, lose a bitstream) stands beside it |
| `Platform` | `platform_endpoints`, `timing_manager`, and the operations of `fpga_bridge` on files | one action per command; `leaked` counts the descriptors never closed, `kernel` is the module, which outlives the process and may be removed and inserted again under it |
| `MCPlatform` | | clocks, rates and levels for TLC |
| `CommandService` | what `server_connector` promises | abstract: a request is asked for, performed, answered; no bytes, buffers or connections |
| `ServerConnector` | `server_connector` and its clients | `pc` is the call the thread is in (`accept`, the read of a length, the read of a text, `wait_ack`, and `handle` for what lies between); the variables of `receive_command` keep their names; `inbox` is the byte stream, of which a `read_some` gets any part; implements `CommandService` |
| `MCServerConnector` | | four commands and their bytes for TLC |
| `ChannelMetadata` | `get_metadata_value`, `channel_metadata`, `sign_extend`, `scale_data` | pure operators, with the code's names; used by `HilDeployer` for what it writes and by `ScopeManager` for what it reads |
| `ScopeManager` | `scope_endpoints`, `scope_manager`, `scope_accessor` | extends `FpgaBridge`; one action per command; `kernel` is what the kernel module has captured |
| `MCScopeManager` | | acquisitions, scalings and captures for TLC |
| `FpgaBridge_proofs`, `FiniteFolds` | | lemmas about the operations of the bus, and about folds and ranks |
| `ControlEndpoints_proofs`, `HilDeployer_proofs`, `CustomDeployer_proofs`, `Platform_proofs`, `ScopeManager_proofs`, `ServerConnector_proofs` | | the theorems |

**Addresses and data.**  Addresses are byte addresses as in the code; a window has a
first byte and a number of words.  Register values are words modulo `WordModulus`
(2^32 in the code).  Inputs, initial values and samples that are floating point are
words: nothing here depends on more than that they are passed on.  `deploy()`'s
consecutive writes by one helper are one step; a write that faults ends the process
at that write, with the earlier ones done.

**The fCore dispatcher** is a submodule, not part of the repository.  `SpecData`
gives what it returns for each specification - programs, interconnect slots,
inputs, memory initialisations, or the exception `set_specs` throws - in the
form `deploy()` uses it.

**The timing of the sequencer** is computed with the conversions of the code.
`Timebase` folds `lcm`, the least common multiple modulo a word, over the
frequencies, and reads the result as an int (`Signed`, `hil_deployer.cpp:73`): a
specification without a common multiple that an int holds gets another timebase,
a negative one perhaps.  The member `timebase_frequency` is a double that holds
it exactly; the dividers convert it to an unsigned word first (`:399`), the
period converts a quotient by it (`:126`), and a negative double has no defined
conversion to an unsigned type: `Saturates` chooses between what Arm (0) and what
x86-64 (the low bits) makes of it.  A core that runs freely makes the timebase 0,
the period then is the run time of all cores, and the dividers of the others wrap
from 0 to the largest word.  `get_sampling_frequency` answers a float (`AsFloat`),
which has every whole number only up to `FloatDigits`, 2^24.  The loop that
raises `timebase_divider` (`:396-398`) is `RaiseTimebaseDivider`, a step per turn;
the member is never reset, so a deployment starts where the last left it, and
nothing else reads it.  `RunsTooOften` compares exactly what the code compares with
three rounded doubles.  The loop does not end where no divider is
enough: with a clock frequency of 0, or when adding 1 no longer changes the
double, at `DividerLimit`, 2^53.  `std::ranges::sort` may leave cores of
equal order in any order, one after the other all the same: `Place` is that order,
the same for every deploy of a specification.

**Undefined behaviour.**  Reading an initial value past the end of its vector
(`deployer_base.cpp:90`) yields any word of `Garbage`; `calculate_timebase_shift`
on a specification without programs (`hil_deployer.cpp:433`) either ends the
process or goes on.  The status byte of `load_bitstream`, uninitialised when the
read fails, makes its report independent of what happened to the FPGA.

A scaling factor read past the end of its list (`scope_manager.cpp:91`, `:115`)
is any member of `Garbage`, or ends the process.

**The other side of the socket** is not in the repository.  A client of
`ServerConnector` does what the driver's reads and sends wait for: it sends a
length, waits for the byte, sends the text, waits for the response's length,
sends the byte, takes the body.  It may leave at any point.  The driver keeps a
socket per exchange in `served`; what `send` does on a connection whose other
end is gone (the first one is lost, the next one fails) is modelled.

**The capture.**  A sample carries its channel and the metadata the deployer
stamped on its slot.  `Captures` gives samples as they were taken, with a
channel, a slot and a value, and the model packs them as the hardware does; the
properties compare what `read_data` answers with those values.  A read may hand
over less than the `NChannels * BufferSize` samples of the buffer: what it leaves is
zeros (`scope_accessor.cpp:32`), which are samples of channel 0 as any others are
(`Filled`); after a read that failed the whole buffer is.  A read that stops
within a sample is left out.

**Requests to the scope.**  A client may send as the address of the scope one of
a scope, of something else, or 0, and any offset for the buffer register
(`Bases`, `BufferOffsets`).  What it asks may write over the settings of a scope;
`RequestsApart` excludes only those requests that do, and says which.

**The kernel module** can be inserted and removed at any time, also while the
driver has its files open: `file_ops` (`mock_module.c:227-235`) has no owner.  The
auxiliary variable `reloaded` remembers that it was, in the life of a process.  A
failing `cdev_add` leaves the module without the device, a failing
`device_create_file` without that clock's attribute and those after it, and
`ucube_lkm_init` returns 0 all the same; with fewer than three attributes its removal
may stop at a null device.  The state file of a board belongs to its FPGA manager,
so it survives.  What the kernel itself does where a file of a module that is gone is
released, and the devices that a failure at `mock_module.c:291-296` leaves behind,
are left out.

**Auxiliary variables** are `configured`, the specification the hardware holds,
`logged`, the one the log holds the whole of, and `spent`, which counts what the
bounds bound (`HilDeployer`); `settings`, `starved` and `reloaded`, the commands
that asked for a file, whether one found no descriptor, and whether the module was
reloaded under the process (`Platform`); `acquired`, the acquisition each scope was
last set to (`ScopeManager`); `performed`, `journal` and `asked`
(`ServerConnector`).

## 3. Runs

| run | question | states |
|---|---|---|
| `ControlEndpoints` | does the hardware follow the log, does rendering keep its effect, is an unloaded FPGA's register file left alone | 830 000 |
| `HilDeploy` | is what a deploy logs what its specification calls for and in the hardware, DMA tables included, are the cores enabled after it, are the tables its own, do the cores take turns, equal orders included, and run at their frequencies | 420 000 |
| `HilFaults` | however `deploy()` ends, before an address map came or after, is the bus enabled afterwards, is the hardware spared by simulations, is the frequency reported that of the last call; does every command end for which a timebase divider exists | 230 000 |
| `HilCommands` | are hil_set_in and hil_select_out about the deployed specification | 960 000 |
| `HilStale` | *violation*: does a simulation depend on its request only | |
| `CustomDeploy` | does a custom deployment arrive, programs, interconnect, memories, random inputs and constants, whatever was deployed before; is a simulation answered from the log complete, programs included, although custom deployments add to it | 400 000 |
| `Platform` | is a reported clock rate the one the module took, does a loaded FPGA have a bitstream, with the module reloaded under the driver or not; is a leaked descriptor never the one the next client needs | 2 250 000 |
| `ServerService` | does the connector implement the abstract service, does every exchange end, is a departed client let go | 160 000 |
| `ServerSplit` | is only what was asked for performed, lengths in pieces included | 120 000 |
| `ScopeAcquisition` | do acquisitions reach the scope they are for, as a whole, whatever addresses clients send | 310 000 |
| `ScopeData` | does read_data answer what was sampled, and zeros for what was not | 130 000 |
| `ScopeWide` | *violation*: the same of a 32 bit integer slot | |

**Bounds.** `MaxOperations` (2) bounds the log in `ControlEndpoints`: its
properties relate a log to the two or three accesses of one step, and two
entries are enough for an order, an overwrite and a partial rendering.  The
windows have two registers and one program word, so an address below, inside,
unaligned, at the last word and past the end are all among four addresses.
`MaxInputs` bounds `inputs`, which the code never clears: a deploy may begin
while at most that many entries are there.  It is 3 where deploys and commands
that succeed matter, so that the list reaches two deploys' entries for the same
input, and 1 in `HilFaults`, where they end early.  `MaxCommands` bounds the
commands logged after a deploy, `MaxSignals` the signals.  `WordModulus` is 4096
in the deployer's runs but `HilFaults`, large enough that addresses and packed words differ,
with `IoLimit`, `ChannelLimit`, `BusShift`, `MemoryShift` and `DmaChannels`
scaled down alike (`DmaChannels` is 2, so that three slots overflow it); an int
then ends at 2047, just below the multiple of the frequencies 45 and 46.  In
`HilFaults` it is 1024, and `FloatDigits` 16, so that the frequencies
reported are rounded; `DividerLimit` (4) is a divider past the 3 that `brisk` needs and
not enough for `frantic`.  `Saturates` is FALSE in `HilDeploy`, which has the negative
timebase.
`InitialLayouts` is what the address map may hold before a client sends one,
`Layouts` the maps clients send.  `HilDeploy`, `HilCommands` and `HilStale`
start where a map is set and none follows; `HilFaults` and `CustomDeploy` start
with a map of zeros, under which every register access of a deployment faults,
and one map is sent, at any time between two commands.  In `CustomDeploy`
`MaxRandomInputs` (2) lets the noise slots of one deployment come after those of
another, `MaxCommands` (1) a custom deployment between a simulation and the one
answered from its log, and no signal comes: `HilDeploy` has one.  `Platform` has two
log levels,
four descriptors, a clock number in range, one past the last clock and one that
wraps to a clock, and a rate on each side of the largest a word holds.

In the server's runs a length has the four bytes of the code.  `ChunkSize` is 2 and
`BufferSize` 5 against texts of one to three bytes: a text fits a chunk, fills it
or needs two, and every copy of a chunk has stale bytes behind it.
`MaxRequests` (3) lets one client ask twice, around a request of the other, with
the buffers of the first command still there; it is also what ends the asking,
so the liveness properties are about the exchanges begun until then.
`WholeHeaders` is TRUE where lengths arrive in one piece and FALSE in
`ServerSplit`: `receive_command` reads a length that comes in pieces into the
same four bytes from the start each time, gets a wrong number, and the exchange
may stall or the driver end.  What still holds then is that nothing is performed
that was not asked for.

The scope's runs have two scopes of twelve registers, two channels and a buffer of
two samples for each, with captures that fill it and one that does not, values at
both ends of the widths 8, 12 and 23 and
samples of channel 2, which equals `n_channels`, and 3, which is past it.
In `ScopeAcquisition` clients also send the address 0, which means no scope, and one
of which only the first register is in the window, each with either of two offsets of
the buffers' addresses.
`WordModulus` is 64 where registers matter and 2^24 where samples do, whose
values need 23 bits.  `MaxOperations` is 0: a command begins on an empty log, and
the action that empties it, `deploy()`'s first, may occur between any two.

**Specifications.**  `pair` and `solo` share a core, an output and an input name but
differ in order, channels and initial values; a core of `pair` has as many slots as
the DMA has channels, that of `crowded` one more, and its two cores one order and
frequencies whose least common multiple no int of the run holds; `gather` reads an
initial value past its end and has a core that runs freely, which makes the timebase
0; `brisk` is `sine` with a core that needs a third of the timebase, `frantic` with
one for which no divider is enough; `sine`, `wide`, `refused`, `malformed` and
`many` throw in `setup_waveform`, in `setup_output_entry`, in `set_specs` (caught
and not) and for their number of cores; `empty` has no programs.

**Fairness.**  In `HilDeployer`, weak fairness of `DeployStep` alone: the one thread
that serves a command is never blocked by another, and each of its steps is a loop
body or a write.  It does not make the loop of `timebase_divider` end: `CommandsEnd`
is about deployments for which a divider below the limit is enough
(`DividersExist`), and in `HilFaults` one of `frantic` really turns for ever. In
`ServerConnector`, weak fairness of `DriverStep`, for the same reason, and of each
client's `ClientStep`, by which a client in an exchange goes on with it unless it
leaves.  The second is not the driver's to guarantee: the reads have no timeout
(`server_connector.cpp:82`), so a client that stays connected and says nothing holds
the driver for ever, and the liveness of the server is conditional on clients that
answer or leave.  Nothing is assumed of the beginning of a request, of leaving, of
signals or of whoever launches the driver again.

**Deadlock** is checked in every run but `Platform`, in which a driver without
descriptors really stops: a driver that is up can always be sent a command or a
signal, and one that is down can be launched.

## 4. What the violations show

- `HilStale`: initial values of an earlier specification are written for a
  later one with a slot of the same name.
- `ScopeWide`: the metadata word has four bits for the width less 8, and the
  deployer does not limit what it packs; a 32 bit signed integer slot reads as
  one of 16 bits and its samples are cut to 16.  Two tests expect the same
  metadata for the two widths.

More disagreements have no run of their own; the models have them as the code does.
A direct `register_write` without `proxy_address` passes the schema, which asks for
it only if the type is "proxied" (`command.hpp:234-254`), and then ends the driver:
`check_float_intness` converts the null that is found instead to a number
(`control_endpoints.cpp:52`).  `deploy` records its hash before anything can fail
(`hil_deployer.cpp:37`), so after one that threw the next simulation of the same
specification is answered `ok` with the part of the log written until then, where
the test `deployed_hil_sim_data` (`testing/endpoints/cores_endpoints.cpp:130`)
expects the whole configuration; `CachedSimulationIsComplete` says what does hold.
`custom_deployer` writes the values of only half the channels of an input, because
it shortens the list it loops over; its test ends in an early return
(`testing/deployment/custom_deployer_test.cpp:378`).  The constructor of
`fpga_bridge` says that all AXI accesses are disabled until the FPGA is loaded
(`fpga_bridge.cpp:40`), and `apply_program` is not gated.  The comment of
`process_read_data` (`scope_endpoints.cpp:47`) announces success or failure
depending on the data being ready, and `read_data` answers `ok` with no data.
`process_set_acquisition` prepares `invalid_arg` for missing arguments
(`scope_endpoints.cpp:114`), does not return it, and the conversion of the missing
one ends the driver.

## 5. Proofs

For all windows, word widths, layouts, specifications and requests, from the
assumptions `BusAssumption`, `EndpointsAssumption`, `HilAssumption`, `SpecAssumption`,
`CustomAssumption`, `PlatformAssumption`, `ScopeAssumption`, `ScopeDataAssumption`,
`ServerAssumption` and
those named below (windows are not empty, what clients send is in range, a
specification has the fields the code reads, the names of HIL and custom
specifications differ):

- `TypeCorrect` (`ControlEndpoints_proofs`): `Spec => []TypeOK`.  The lemmas of
  `FpgaBridge_proofs` show that each bus operation preserves the bus's types;
  the step proof has a case per action and per branch of a handler.
- `RegistersGated`: `UnloadedRegistersUntouched`, action by action.
- `BracketInvariant` (`HilDeployer_proofs`): `AccessRestored` is not inductive,
  because it says nothing while a simulation runs.  The invariant `Bracket`
  adds what holds inside it: `sink_mode` is on exactly when the command is a
  simulation, and what `enable_access` restores then is "off".  It is kept
  because every exit of the bracket is either `FinishSimulation`, which restores,
  or the end of the process, since no handler of a simulation catches.
- `AccessIsRestored` and `SimulationSparesHardware` follow from it; the second
  needs besides that each bus operation leaves the hardware alone in sink mode.
- `LogIsInvariant` (`HilDeployer_proofs`): what the log of a deployment holds at
  each step of it, from `AddressesFit` (a memory address that is spread over the
  channels, and the address of a waveform, leave the bits of the channel alone).
  What the properties say of the end is not inductive, and what a deployment has
  written is decided by counters that its loops keep, while the properties count
  ranks in the specification.  The invariant `LogAt` therefore says, for the
  position of `deploy()`'s loops: the log holds every write in `Due`, the writes
  the position has behind it; every write in it is `Explained` by the
  specification at that position or is an initial value left by an earlier
  specification or read past an end; and `CountedSoFar`, the loops' counters (the
  entries of a DMA, the slots of constants, noise and waves) are the ranks of
  what comes next.  One lemma per helper shows that what it writes is what the
  next position has due more than this one.  The ranks are cardinalities; that
  one more use makes them one greater, and that the loops end with all of them,
  is proved from the library's facts about finite sets.
- `LogIsOfSpecification` is `LogIsSpecification`: at the last position, `Due` is
  all that the specification calls for and nothing else is `Explained`.
- `CachedSimulationIsWhole` is `CachedSimulationIsComplete`, control and memory
  writes and program words: besides what the log holds, no command
  takes anything out of it between a deployment and the next, and the rendering has a
  line for each word of a program.
- `CoresEnabledAfterConfiguration` is `EnabledAfterConfiguration` where
  `ControllerApart` holds, that is, the address map does not give the sequencer's
  enable register to something else as well.
- `DeployReachesHardware` is `ConfigurationInHardware` of a layout and a
  specification for which `RegistersApart` holds: registers are word-aligned and in
  the window, and the programs and the DMAs of two cores do not overlap.  A log
  alone does not say what the hardware holds, as a later write may go to the same
  register; the invariant `HardwareFollows` says that each logged write's register
  holds what the last write to it stored, and of program memory the same.  So a
  write no other write of the specification hides is there, and the entries
  of a DMA of at most `DmaChannels` slots are apart, also from what is written
  to the DMAs of other cores.  `AddressesFit` is an assumption of the run's module
  (`SpecDataFits`); that `ControllerApart` and `RegistersApart` hold for the layout
  and specifications of `HilDeploy` was checked with TLC.
- `TablesAreInvariant` (`HilDeployer_proofs`), from `AddressesFit`: what `hil_set_in`
  and `hil_select_out` read after a deploy is that deploy's.  `deploy()` never clears
  the list `inputs`, so the engines of earlier deployments stay in it, and a failed
  deployment leaves some of its own.  The invariant `TablesFollow` therefore says
  that `bus_map` is that of the specification last given to `set_specs`, if it was
  accepted; that what is configured was accepted; and that every constant which the
  loops have behind them is the last entry of its name in `inputs`, during a
  deployment and after it until something else is deployed.
- `SelectionFollowsDeployment` is `SelectionIsOfDeployed` while the multiplexer of
  the scope is in the window (`ScopeMuxMapped`).
- `SetInputFollowsDeployment` is `SetInputDrivesDeployedInput` while the engines
  listed are in the window (`EnginesMapped`; `set_input` writes to the old ones of
  the same name first, and a fault there ends the process) and
  for specifications that `NamesApart` holds for: no two constants of one share the
  name of their core, their name and their channel, as clients have nothing else to
  choose by.  `NamesApart` is an assumption of the run's module
  (`ConstantsNamedApart`); that `ScopeMuxMapped` and `EnginesMapped` hold was checked
  with TLC for the layout and specifications of `HilCommands`.
- `SimulationTablesFollowSpecification` (`HilDeployer_proofs`) is
  `SimulationTablesAreSpecification`, from `AddressesFit` and `NamesApart` (the input
  table is indexed by the same names).  What the answer holds is only right at the
  end; the invariant of `LabelsAreInvariant` says of each position of the loops that
  the labels are those of the slots and inputs behind it and no others.  A simulation
  or a deployment starts with none, and only `setup_output_entry` and `setup_input`
  change them or what is behind; an exception leaves the tables half built, but no
  answer is made from them before the next `deploy()` empties them, unless it is one
  from the cache, of which the property does not speak.
- `FrequencyFollowsDeployment` is `FrequencyIsOfDeployed`.  The timebase is a fold of
  `lcm` over the cores, read as an int.  A fold is defined by a recursion
  over the subsets of the programs' indices, of which `SetRecursion` shows, by
  induction over their number, that there is exactly one; so `TimebaseSteps` can
  say what it computes, one frequency after the other.  If an int holds a common multiple
  of the frequencies, the least of those seen so far divides it at every step, so no
  product wraps and the last is the least of all (`TimebaseIsLeast`);
  `LcmIsLeast` rests on division with remainder.  The
  invariant of `FrequencyIsInvariant` is that the timebase is that of the specification
  `deploy()` was last called with, once that call is past the programs and after it
  ended in any way, if `set_specs` accepted it.
- `CoresRunInTurn` is `CoresTakeTurns`: a program's phase shift is the sum, another
  fold, of the cycles of those that the sort put before it, so when it starts, each of
  them has had the cycles it needs, and of any two one is before the other.  It
  needs that `Place` tells cores apart (`CoresAreInOrder`), and that all of them together
  take less than a word of cycles.  `CoresRunAtTheirFrequency` is
  `CoresAtTheirFrequency`: the divider of a core times its frequency is the timebase
  where an int holds a common multiple.  Both speak of the registers of the sequencer
  after a deploy, so they rest on the log and on `HardwareFollows`, like
  `DeployReachesHardware`, and hold where `RegistersApart` does and `SequencerApart`:
  nothing else in the specification is written to the sequencer's registers, and its
  two ranges are apart.  The last was checked with TLC too, for `HilDeploy`.
- `HardwareChangesAsLogged` (`ControlEndpoints_proofs`) is `HardwareFollowsLog`.
  Performing a log is a fold of `Perform` over it; `ReplaySteps` shows that it is one
  access after another, so `ReplayWrites` and `ReplayProgram` can say what the last
  entries of a log do.  Each operation of the bus adds to the log what it does to the
  hardware (`AsLogged`): a run of stores, of which the last to each register stays, a
  proxied write its two stores, a program its words (the lemmas of `FpgaBridge_proofs`
  that end in `Follow` and `Follows`).  It has no assumption but those on the constants.
- `RenderingFollowsLog` is `RenderingKeepsEffect`, for a log of any length: performing
  its `rom` lines, which the rendering puts first, leaves the program memory as the log
  does (`RomLinesLoad`), and performing its control lines leaves the registers so
  (`ControlLinesStore`); since the two kinds write different memories, it does not matter that
  the rendering takes them apart (`RenderingOfLog`).  It needs the invariant that the
  log is made of accesses that can be performed, `operations \in Seq(Performable)`.
- `CoresAccessIsRestored` and `CoresSimulationSparesHardware`
  (`CustomDeployer_proofs`): the same two with custom deployments on the bus.  The
  invariant is that `Bracket` holds or a custom deployment runs, with the bus
  enabled.  While one runs the only other step is a signal; otherwise the step
  lemma of `HilDeployer_proofs` applies as it is.
- `CustomDeployReachesHardware` (`CustomDeployer_proofs`) is
  `CustomConfigurationInHardware` where `CustomApart` holds: what is expected is
  word-aligned and apart from the registers of the one constant engine and of the
  noise generator, and the programs are apart.  First the calls: the five flattened
  loops of `CustomCalls` make exactly the calls `CalledFor` each core, and what those
  write is `CustomExpected`.  Then the hardware: the invariant `CoresReached` says of a
  deployment that runs that every call behind `pc.j` is `Made`, its unambiguous
  writes in their registers, its program loaded, its random destination in some slot
  below the counter; a call hides nothing of this that an earlier one made, because
  two writes to one register of which both are unambiguous are one write.  The counter
  of random inputs is never reset, so that slots apart for it now were apart before
  (`FewerApart`).  It assumes `CustomAddressesFit`, an assumption of the run's module
  (`CustomSpecDataFits`); that `CustomApart` holds for the designs of the run was
  checked as an invariant of it.
- `CoresCachedSimulationIsWhole` (`CustomDeployer_proofs`) is `CachedSimulationIsComplete`
  with custom deployments among the other commands.  The invariant `CoresLog` says that
  the log a simulation trusts has every program, memory and control write of the
  specification `logged` names: a custom deployment only extends the log (`CallKeepsLog`), and
  it leaves `logged` alone, as the code leaves its hash.
- `CustomDeployHoldsConstants` (`CustomDeployer_proofs`) is `CustomConstantsInEngine`
  where `ConstantsApart` holds: `CustomApart`; each core has no more inputs than
  `BusShift`, so that no two channels share a selector; and a constant has a value,
  which without one the code takes from an empty list.  The lines of the log come in
  threes to the engine: selector, destination, value.  A constant is `Settled` when from
  its own three on whatever sets its selector sets it to the same, and then
  the engine holds it (`SettledHolds`).  The invariant `CoresConstants` says
  that every constant whose call has been made is settled.  A call only adds the lines
  it writes (`LinesOfConcat`); it leaves the engine alone (`Quiet`), or it sets another
  selector (`SelectorsDiffer`), or it is the call of that constant; and writes that do
  not begin with a value or a destination cannot complete what an earlier call began
  (`SetAlone`).  That `ConstantsApart` holds for the designs of the run, and that some have
  constants, was checked on it.
- `PlatformTypeCorrect`, `ReportedRateSound`, `LoadedSound` and `NextClientSound`
  (`Platform_proofs`), from one inductive invariant: each of the three needs that
  the process is told of a rate, a bitstream or a descriptor in the same step in
  which the module or the system changes it, that a relaunch forgets all, and that a
  reload, which it is not told of, leaves the module without any rate or, the mock's,
  any bitstream.
- `StarvedSound` is `StarvedBySettingsOnly`: only clock settings and loads use up a
  process's descriptors, so before it has been asked for enough of them no open fails
  for want of one, and no board whose module is there gets a DMA address that is not
  its own.  Files that are missing fail at any time.  The invariant `Asking` is that
  a live process has been asked at least as often as it leaks.
- `AcquisitionStays` (`ScopeManager_proofs`): `AcquisitionInHardware`, from
  `ScopesApart` (the registers of all scopes are in the window and no two are the
  same word) and `AcquisitionsAreWords`.  It needs besides that the driver is never in
  sink mode, or a write the model counts as arrived would not have, and that the
  scope's address is always one of those clients send.  At an address of a scope no
  write of `set_acquisition` can fault half way, and each of its stores is the only
  one to its word.  Every other command, the DMA control before any scope is chosen
  included, stores to words with which no acquisition is compared, and so does an
  acquisition at another address, by `RequestsApart`, an assumption of `ScopeManager`.
- `ServerTypeCorrect` and `ServerImplementsService`
  (`ServerConnector_proofs`), from `WholeHeaders`: `Spec => []TypeOK` and
  `Spec => ServiceProvided`.  They rest on one
  invariant: every connection is unused, waits in the backlog or is the one served,
  and for each call the driver can be in, it says what is in transit on the one
  served, in both directions, and how much of it the buffers hold.  It needs that
  a length is what its four bytes say (`LengthRoundTrip`), that a text is whole when
  as many bytes have been copied as its length says, whatever the pieces, and that a
  client that left did so with nothing unread ("closed") or something ("reset").
  The refinement then has a case per call of the driver and per step of a client.
- `ScopeTypeCorrect` (`ScopeManager_proofs`): `Spec => []TypeOK`, with what a
  capture holds and what `read_data` answers in the invariant (`ScopeTypesHold`).
- `CapturesAnswered` is `ReadDataAnswersCapture`, for any number of channels, lengths
  of captures and lists of factors.  The code's two loops are folds; a fold over a
  sequence of n is the last of n + 1 values of which each comes from the one before
  (`ShuntSteps`, `AnsweredSteps`), so what the loops leave is shown by induction over
  how far they are.  `ListsOfChannels`: the list of a channel has as its k-th value
  the k-th sample of that channel.  `SampleMeant`: that value is what the sample stands
  for, because `MetadataRoundTrip` gives back the width and the sign, the low bits of
  the low bits of a number are its low bits (`RemainderOfRemainder`), and
  `SignExtendRoundTrip` gives it back from those.  `AnswerOfChannels`: the answer has
  the channels that are on, in order, with their lists.  Only a read that did not fail
  takes a capture from the kernel (`ReadAnswers`).  It assumes `CapturesFit`, an
  assumption of the run's module (`SamplesFit`): integers fit the width of their slot,
  and words are a multiple of 2^23, the widest of the widths that metadata tell apart.
- `MetadataRoundTrip` (`ScopeManager_proofs`): for widths from 8 to 23 the
  scope's `get_size`, `is_signed` and `is_float` undo the deployer's
  `get_metadata_value`, because the width less 8 stays below the two control
  bits.  `ScopeWide` is what happens past 23.
- `SignExtendRoundTrip`: `sign_extend` recovers every value from its low bits, by
  its sign.

Only model-checked:

- the types of both deployers (`HilProperties.TypeOK`, `CoresTypeOK`): for all
  specifications they would follow from little more than that these hold words;
- liveness (`CommandsEnd`, `RequestEnds`, `DepartedReleased`), which TLAPS cannot do;
- the properties of `ServerConnector` where lengths come in pieces (`ServerSplit`): a
  length that is misread there may make other bytes of a text pass for a command, so
  that the property depends on what clients write.

## 6. Not modelled

The fCore compiler, emulator and dispatcher (a submodule), and with them the
commands emulate_hil, hil_disassemble, compile_program and hil_debug, which only
pass on what those return; JSON schemas but for the decision they make; logging; the
command line; the emulated data generator and the stand-alone deployer.  Of the mock
kernel module, beside what section 2 says, the memory window, one page for all
addresses, and the sample device are left out: `FpgaBridge` and `ScopeManager` have
the windows and the captures of a board.  `ServerConnector` leaves out signals,
which `FpgaBridge` has, and `server_stop_req`, which nothing sets; what a handler
does is its name in `journal` there, and the handlers are the other modules'.
Sampling frequencies are whole numbers, as the dispatcher gives them.  Scaling
factors are integers, and a float sample is the word it came as.  The initial
values, labels and input list of `custom_deployer` are left out, as nothing fills or
reads them. PROJECT.json lists every part with what is left out of it.

## 7. Plan

What remains, the most important first:

1. `Driver`: dispatch of every command over the modules there are, with one
   process, one log and one descriptor table behind all of them.
2. `DeploymentService`: an abstract deployer (a specification is either in the
   hardware or it is not) that `HilDeployer` implements while no exception and
   no signal comes.
3. Proofs: the refinement of 2.
