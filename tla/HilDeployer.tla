---------------------------- MODULE HilDeployer ----------------------------
(***************************************************************************)
(* hil_deployer, with the parts of deployer_base and hil_bus_map it runs:  *)
(* it turns a deployment specification into program loads and register     *)
(* writes, either for real (deploy_hil) or with the bus disabled, to       *)
(* collect the log a hardware simulation is made from (hil_hardware_sim).  *)
(*                                                                         *)
(* deploy() is long, makes every write separately and can throw half way.  *)
(* Here each call of a helper in it (load_core, setup_output_entry, one    *)
(* memory value, one setup_input, ...) is an action, and `pc` says which   *)
(* comes next, so that SIGTERM and exceptions fall between any two.  The   *)
(* other commands are one action each.  Only deploy_hil catches            *)
(* runtime_error; anywhere else an exception ends the process.             *)
(*                                                                         *)
(* What the fcore dispatcher makes of a specification is external:         *)
(* SpecData[s] is a record of                                              *)
(*   set_specs  "ok", or the exception set_specs throws                    *)
(*   programs   sequence of [name, index, order, n_channels, binary,       *)
(*              sampling_frequency, fixed_portion, per_channel_portion,    *)
(*              inputs: sequence of [name, data]]                          *)
(*   slots      the interconnect, sequence of [source_id, source_name,     *)
(*              source_io, source_channel, destination_id,                 *)
(*              destination_name, destination_bus, destination_channel,    *)
(*              is_float, width, is_signed]                                *)
(*   inputs     for each program, sequence of [name, source_type, address, *)
(*              data, shape, wave]                                         *)
(*   memories   for each program, sequence of [address, value]             *)
(***************************************************************************)
EXTENDS FpgaBridge, FiniteSets, FiniteSetsExt, Functions, TLC

CONSTANTS
  Specs, SpecData,
  Layouts,          \* address maps clients send
  InitialLayouts,   \* what the address map may hold before one is sent
  IoLimit,          \* 0x1000: io and bus addresses a DMA slot can hold
  ChannelLimit,     \* 0x10: channels it can hold
  BusShift,         \* 2^16: place of the channel in a bus address
  MemoryShift,      \* 2^8: place of the channel in a core memory address
  DmaChannels,      \* 16: n_dma_channels
  MaxCores,         \* 32: cores the sequencer enables
  HilClock,         \* hil_clock_frequency
  DividerLimit,     \* 2^53: the double timebase_divider grows no further
  FloatDigits,      \* 2^24: below it a float has every whole number
  Saturates,        \* what the build makes of a double no unsigned word has
  Garbage,          \* words a read past the end of a vector may return
  Values,           \* values clients set inputs to
  ScopeChannels,    \* scope channels clients select outputs for
  MaxInputs,        \* bound on `inputs`, which the code never clears
  MaxCommands,      \* bound on the logged commands after a deploy
  MaxSignals        \* bound on the signals that end the process

NoSpec == "no spec"

ASSUME HilAssumption ==
  /\ NoSpec \notin Specs
  /\ Values \subseteq Word /\ Garbage \subseteq Word
  /\ ScopeChannels \subseteq Nat
  /\ BusShift \in Nat \ {0} /\ MemoryShift \in Nat \ {0} /\ DmaChannels \in Nat
  /\ HilClock \in Word /\ DividerLimit \in Nat \ {0} /\ FloatDigits \in Nat \ {0}
  /\ Saturates \in BOOLEAN
  /\ WordModulus >= 64     \* a metadata word has six bits
  /\ MaxInputs \in Nat /\ MaxCommands \in Nat /\ MaxSignals \in Nat

IsSequence(x) == x \in Seq(Range(x))

\* The dispatcher returns vectors, and addresses, numbers of channels, frequencies
\* and lengths of programs that are unsigned.
ASSUME SpecAssumption ==
  \A s \in Specs :
    /\ IsSequence(SpecData[s].programs) /\ IsSequence(SpecData[s].slots)
    /\ \A e \in Range(SpecData[s].slots) : e.source_channel \in Nat
    /\ \A p \in Range(SpecData[s].programs) :
         /\ p.n_channels \in Nat /\ IsSequence(p.binary)
         /\ p.sampling_frequency \in Nat /\ p.order \in Nat
         /\ p.fixed_portion \in Nat /\ p.per_channel_portion \in Nat
         /\ \A in \in Range(p.inputs) : IsSequence(in.data)
         /\ IsSequence(SpecData[s].inputs[p.name]) /\ IsSequence(SpecData[s].memories[p.name])
         /\ \A in \in Range(SpecData[s].inputs[p.name]) :
              in.address \in Nat /\ IsSequence(in.data)
         /\ \A m \in Range(SpecData[s].memories[p.name]) :
              m.address \in Nat /\ IsSequence(m.value)

VARIABLES
  addresses,              \* logic_layout, one and the same in both deployers
  deployed_hash,          \* the specification deploy() was last called with
  bus_map,                \* interconnect slots of the last accepted one
  ivs,                    \* <<source_id, source_name>> -> initial values
  inputs,                 \* metadata of every input ever set up
  bus_labels,             \* bus address -> signal name
  inputs_labels,          \* input path -> where it is set
  active_random_inputs,
  active_waveforms,
  timebase_frequency,
  timebase_divider,       \* what keeps the cores' length within the timebase, never reset
  pc,                     \* where deploy() is, and for which command
  reply,                  \* the last response
  configured,             \* auxiliary: the specification the hardware holds
  logged,                 \* auxiliary: the specification the log holds the whole of
  spent                   \* auxiliary: what MaxCommands and MaxSignals count

deployerVars == <<addresses, deployed_hash, bus_map, ivs, inputs, bus_labels, inputs_labels,
                  active_random_inputs, active_waveforms, timebase_frequency, timebase_divider>>
vars == <<busVars, deployerVars, pc, reply, configured, logged, spent>>

NothingSpent == [commands |-> 0, signals |-> 0]

Idle == [phase |-> "idle", cmd |-> "none", spec |-> NoSpec, i |-> 1, j |-> 1, k |-> 0, n |-> 0]

Bases   == addresses.bases
Offsets == addresses.offsets

At(phase) == up /\ pc.phase = phase

Slots(s)    == SpecData[s].slots
Programs    == SpecData[pc.spec].programs
InProgram   == pc.i <= Len(Programs)
P           == Programs[pc.i]              \* the program the loop is at
CoreInputs  == SpecData[pc.spec].inputs[P.name]
CoreMemory  == SpecData[pc.spec].memories[P.name]
FULL_CORES  == 11                          \* check_reciprocal, full_cores_override

----------------------------------------------------------------------------
(* Addresses and register values *)

RomAddress(p)  == Bases.cores_rom + Offsets.cores_rom * p.index
CoreControl(p) == Bases.cores_control + Offsets.cores_control * p.index
DmaAddress(p)  == CoreControl(p) + Offsets.dma
ConstEngine(p) == CoreControl(p) + Bases.cores_inputs
Controller     == Bases.controller + Offsets.controller
HilTimebase    == Bases.controller + Offsets.hil_tb

INSTANCE ChannelMetadata

SlotMetadata(e) ==
  IF e.is_float THEN get_metadata_value(32, TRUE, TRUE)
                ELSE get_metadata_value(e.width, e.is_signed, FALSE)

SlotFits(e) ==
  /\ e.source_io < IoLimit /\ e.destination_bus < IoLimit
  /\ e.source_channel < ChannelLimit /\ e.destination_channel < ChannelLimit

SlotMapping(e) ==
  (e.destination_bus + IoLimit * e.destination_channel) * (IoLimit * ChannelLimit)
    + e.source_io + IoLimit * e.source_channel

MappingAddress(dma, io)  == dma + 3 * 4 + io * 4
MetadataAddressEarly(dma, io) == dma + 4 * (DmaChannels + 2) + io * 4
MetadataAddress(dma, io) == dma + 4 * (DmaChannels + 3) + io * 4

\* A table of labels with one more, or with another one for a key it has.
Labelled(table, key, label) ==
  [x \in DOMAIN table \union {key} |-> IF x = key THEN label ELSE table[x]]

SlotLabel(e, n_channels) ==
  IF n_channels = 1 THEN <<e.source_id, e.source_name>>
                    ELSE <<e.source_id, e.source_name, e.source_channel>>

\* selector, destination, then the value, which triggers the constant engine
ConstantStores(engine, selector, dest, value) ==
  <<<<engine + 12, selector>>, <<engine + 8, dest>>, <<engine, value>>>>

\* The ten writes of setup_waveform for a square wave, of which `active` are there
\* already; `wave` has the parameters of each channel.
WaveStores(base, active, wave, dest) ==
  LET w == wave[(dest \div BusShift) + 1]
  IN <<<<base + 8, active>>, <<base + 12, w.v_on>>, <<base + 16, w.v_off>>,
       <<base + 20, w.t_delay>>, <<base + 24, w.t_on>>, <<base + 28, w.period>>,
       <<base + 32, dest>>, <<base + 4, 0>>, <<base + 36, get_metadata_value(32, TRUE, TRUE)>>,
       <<base, active + 1>>>>

----------------------------------------------------------------------------
(* Conversions: unsigned words to int, doubles to unsigned words and to float *)

\* An int of the width of a word.
Signed(x) == IF x < WordModulus \div 2 THEN x ELSE x - WordModulus

\* A negative double, or one past the last word, has no defined conversion: Arm
\* gives the nearest word, x86-64 the low bits.
ToUnsigned(x) ==
  IF ~Saturates THEN x % WordModulus
  ELSE IF x < 0 THEN 0 ELSE IF x < WordModulus THEN x ELSE WordModulus - 1

\* The fraction of a quotient is dropped towards zero.
Truncated(a, b) == IF b > 0 THEN a \div b ELSE -(a \div (-b))

\* A float has every whole number up to FloatDigits; beyond, the nearest of those
\* it has, the even one of two.
Spacing(x) == 2 ^ Min({e \in 0 .. 16 : x <= FloatDigits * 2 ^ e})
Nearest(x, u) ==
  LET below  == x \div u
      beyond == 2 * (x % u)
  IN u * (IF beyond > u \/ (beyond = u /\ below % 2 = 1) THEN below + 1 ELSE below)
AsFloat(x) ==
  IF -FloatDigits <= x /\ x <= FloatDigits THEN x
  ELSE Nearest(x, Spacing(IF x < 0 THEN -x ELSE x))

----------------------------------------------------------------------------
(* Timebase *)

Lcm(a, b) ==
  IF a = 0 \/ b = 0 THEN 0
  ELSE CHOOSE m \in 1 .. a * b : /\ m % a = 0 /\ m % b = 0
                                 /\ \A l \in 1 .. m - 1 : l % a # 0 \/ l % b # 0

\* std::lcm of two unsigned words, whose product wraps.
lcm(a, b) == Lcm(a, b) % WordModulus

\* The accumulator is an int.
TimebaseOfFastest(ps) == FoldLeft(LAMBDA f, p : Max({f, p.sampling_frequency}), 1, ps)
Timebase(ps) == Signed(FoldLeft(LAMBDA f, p : lcm(f, p.sampling_frequency), 1, ps))

\* 0 when another core runs freely, which makes the timebase 0
Divider(p, timebase) ==
  IF p.sampling_frequency = 0 THEN 1 ELSE ToUnsigned(timebase) \div p.sampling_frequency

program_length(p) == (p.fixed_portion + FULL_CORES * p.per_channel_portion) % WordModulus
inter_core_buffer == 90

\* timebase_frequency / timebase_divider > max_frequency, without the fractions.
RunsTooOften(p, timebase, divider) ==
  p.sampling_frequency # 0 /\ timebase * program_length(p) > HilClock * divider

\* What std::sort makes of the cores of equal order is not specified: it leaves
\* them in the order of some number each has.
Place(ps) ==
  CHOOSE place \in [DOMAIN ps -> DOMAIN ps] :
    \A m, n \in DOMAIN ps : place[m] = place[n] => m = n
RunsBefore(ps, m, n) ==
  \/ ps[m].order < ps[n].order
  \/ ps[m].order = ps[n].order /\ Place(ps)[m] < Place(ps)[n]

RunTime(ps, cores) == MapThenSumSet(LAMBDA n : program_length(ps[n]) + inter_core_buffer, cores)

\* Cores start one after the other in execution order, from cycle 2.
ShiftByPosition(ps, n) == (2 + RunTime(ps, 1 .. n - 1)) % WordModulus
Shift(ps, n) == (2 + RunTime(ps, {m \in DOMAIN ps : RunsBefore(ps, m, n)})) % WordModulus
MinTimebase(ps) == RunTime(ps, DOMAIN ps) % WordModulus

TimebasePeriod(ps, timebase) ==
  IF timebase = 0 THEN MinTimebase(ps) ELSE ToUnsigned(Truncated(HilClock, timebase))

EnableBits(n) == 2 ^ n - 1

SequencerStoresUnwrapped(ps, timebase) ==
  [n \in 1 .. Len(ps) |-> <<Controller + 4 * n, Divider(ps[n], timebase) - 1>>]
SequencerStores(ps, timebase) ==
  [n \in 1 .. 2 * Len(ps) |->
     LET m == (n + 1) \div 2
     IN IF n % 2 = 1
          THEN <<Controller + 4 * m, (Divider(ps[m], timebase) - 1) % WordModulus>>
          ELSE <<HilTimebase + 4 + 4 * m, Shift(ps, m)>>]
    \o <<<<HilTimebase + 4, TimebasePeriod(ps, timebase)>>, <<Controller, EnableBits(Len(ps))>>>>

\* setup_interconnect_iv: the initial value of a slot is the default of the
\* input it feeds, once for each channel of that input's core; of the slots that
\* leave from one output, the last decides.
SlotKey(e) == <<e.source_id, e.source_name>>

FedBy(s, e) ==   \* the <<program, input>> slot e feeds, if it is an input with a default
  UNION {{<<p, x>> : x \in {y \in Range(p.inputs) : y.name = e.destination_name}}
           : p \in {q \in Range(SpecData[s].programs) : q.name = e.destination_id}}

DefaultOf(f) ==
  IF Len(f[2].data) = 1 /\ f[1].n_channels > 1
    THEN [c \in 1 .. f[1].n_channels |-> f[2].data[1]] ELSE f[2].data

InitialValues(s) ==
  LET feeding == {j \in DOMAIN Slots(s) : FedBy(s, Slots(s)[j]) # {}}
  IN [key \in {SlotKey(Slots(s)[j]) : j \in feeding} |->
        LET last == Max({j \in feeding : SlotKey(Slots(s)[j]) = key})
        IN DefaultOf(CHOOSE f \in FedBy(s, Slots(s)[last]) : TRUE)]

----------------------------------------------------------------------------
(* Responses, exceptions and the end of the process *)

Reply(kind, s, data) == [kind |-> kind, spec |-> s, data |-> data]
NoReply == Reply("none", NoSpec, <<>>)

\* An exception leaves deploy() at once: memory and hardware keep what was done.
ThrowCaught ==
  /\ UNCHANGED busVars
  /\ reply' = Reply("deployment_error", pc.spec, <<>>)
  /\ pc' = Idle
Throw ==
  /\ UNCHANGED <<fpga_loaded, sink_mode, previous_sink_mode, operations, hardwareVars>>
  /\ up' = (pc.cmd = "deploy")
  /\ reply' = Reply(IF up' THEN "deployment_error" ELSE "died", pc.spec, <<>>)
  /\ pc' = Idle

\* Writes of deploy(), after which it goes on at `next` unless one faulted.
WriteThen(stores, next) ==
  /\ write_direct_all(stores)
  /\ IF up' THEN pc' = next /\ UNCHANGED reply
            ELSE pc' = Idle /\ reply' = Reply("died", pc.spec, <<>>)

\* load_core, and the same of a fault in it.
LoadThen(address, program, next) ==
  /\ apply_program(address, program)
  /\ IF up' THEN pc' = next /\ UNCHANGED reply
            ELSE pc' = Idle /\ reply' = Reply("died", pc.spec, <<>>)

SkipTo(next) == pc' = next /\ UNCHANGED <<busVars, reply>>

\* The loop of a phase at its i-th program, with nothing of it done.
AtProgram(phase, i) ==
  [phase |-> phase, cmd |-> pc.cmd, spec |-> pc.spec, i |-> i, j |-> 1, k |-> 0, n |-> 0]

NextProgram == AtProgram(pc.phase, pc.i + 1)

PhasesSequencerFirst == <<"load_cores", "timebase", "dividers", "sequencer", "output_dma",
                          "memories", "inputs", "setup_cores", "finish">>
Phases == <<"load_cores", "timebase", "dividers", "output_dma", "memories", "inputs",
            "sequencer", "setup_cores", "finish">>
NextPhase ==
  LET here == CHOOSE n \in DOMAIN Phases : Phases[n] = pc.phase
  IN AtProgram(Phases[here + 1], 1)

----------------------------------------------------------------------------
(* deploy() *)

clear_input_labels == inputs_labels' = <<>> /\ UNCHANGED bus_labels
clear_labels == inputs_labels' = <<>> /\ bus_labels' = <<>>

append_map(s) == bus_map' = bus_map \o Slots(s)
set_map(s)    == bus_map' = Slots(s)

\* Up to and including dispatcher.set_specs and bus_map.set_map; the hash is
\* recorded before anything can fail.
Prologue(cmd, s) ==
  LET accepted == SpecData[s].set_specs = "ok"
      fits     == accepted /\ Len(SpecData[s].programs) <= MaxCores
      caught   == cmd = "deploy" /\ (accepted \/ SpecData[s].set_specs = "runtime_error")
  IN /\ deployed_hash' = s
     /\ active_waveforms' = 0 /\ active_random_inputs' = 0
     /\ clear_labels
     /\ IF accepted THEN set_map(s) ELSE UNCHANGED bus_map
     /\ UNCHANGED <<addresses, ivs, inputs, timebase_frequency, timebase_divider>>
     /\ operations' = <<>> /\ logged' = NoSpec
     /\ spent' = [spent EXCEPT !.commands = 0]
     /\ up' = (fits \/ caught)
     /\ pc' = IF fits THEN [Idle EXCEPT !.phase = Phases[1], !.cmd = cmd, !.spec = s] ELSE Idle
     /\ reply' = IF fits THEN NoReply
                 ELSE Reply(IF caught THEN "deployment_error" ELSE "died", s, <<>>)
     /\ UNCHANGED <<fpga_loaded, hardwareVars>>

process_deploy_hil(s) ==
  /\ Prologue("deploy", s)
  /\ configured' = NoSpec
  /\ UNCHANGED <<sink_mode, previous_sink_mode>>

\* The other half of disable_bus_access, clearing the log, is in Prologue.
SimulateAnew(s) ==
  /\ Prologue("sim", s)
  /\ previous_sink_mode' = sink_mode
  /\ sink_mode' = TRUE
  /\ UNCHANGED configured

LoadCore ==
  /\ At("load_cores") /\ InProgram
  /\ LoadThen(RomAddress(P), P.binary, NextProgram)
  /\ UNCHANGED deployerVars

\* A defect: the timebase starts from that of the last deployment.
ComputeTimebaseGrowing ==
  /\ At("timebase")
  /\ timebase_frequency' = FoldLeft(LAMBDA f, p : lcm(f, p.sampling_frequency),
                                    Max({1, timebase_frequency}), Programs)
  /\ SkipTo(NextPhase)
  /\ UNCHANGED <<addresses, deployed_hash, bus_map, ivs, inputs, bus_labels, inputs_labels,
                 active_random_inputs, active_waveforms, timebase_divider>>
ComputeTimebase ==
  /\ At("timebase")
  /\ timebase_frequency' = Timebase(Programs)
  /\ SkipTo(NextPhase)
  /\ UNCHANGED <<addresses, deployed_hash, bus_map, ivs, inputs, bus_labels, inputs_labels,
                 active_random_inputs, active_waveforms, timebase_divider>>

\* calculate_timebase_divider: the loop for one core, which does not end where
\* adding 1 leaves the divider as it was.
RaiseTimebaseDividerFromOne ==
  /\ At("dividers") /\ InProgram /\ RunsTooOften(P, timebase_frequency, timebase_divider)
  /\ timebase_divider' = 2
  /\ SkipTo(pc)
  /\ UNCHANGED <<addresses, deployed_hash, bus_map, ivs, inputs, bus_labels, inputs_labels,
                 active_random_inputs, active_waveforms, timebase_frequency>>
RaiseTimebaseDivider ==
  /\ At("dividers") /\ InProgram /\ RunsTooOften(P, timebase_frequency, timebase_divider)
  /\ timebase_divider' = Min({timebase_divider + 1, DividerLimit})
  /\ SkipTo(pc)
  /\ UNCHANGED <<addresses, deployed_hash, bus_map, ivs, inputs, bus_labels, inputs_labels,
                 active_random_inputs, active_waveforms, timebase_frequency>>

NextDivider ==
  /\ At("dividers") /\ InProgram /\ ~RunsTooOften(P, timebase_frequency, timebase_divider)
  /\ SkipTo(NextProgram)
  /\ UNCHANGED deployerVars

\* calculate_timebase_shift, and setup_interconnect_iv.  The former reads the
\* first of its programs without testing that there is one: without, anything
\* may happen, and the process dies or goes on.
SetupInterconnectIv ==
  /\ At("dividers") /\ ~InProgram
  /\ \/ /\ LET new == InitialValues(pc.spec)
           IN ivs' = [key \in DOMAIN ivs \union DOMAIN new |->
                        IF key \in DOMAIN new THEN new[key] ELSE ivs[key]]
        /\ SkipTo(NextPhase)
     \/ /\ Programs = <<>>
        /\ process_exit /\ pc' = Idle /\ reply' = Reply("died", pc.spec, <<>>)
        /\ UNCHANGED ivs
  /\ UNCHANGED <<addresses, deployed_hash, bus_map, inputs, bus_labels, inputs_labels,
                 active_random_inputs, active_waveforms, timebase_frequency, timebase_divider>>

\* setup_output_dma: setup_output_entry for every slot that leaves from this
\* core, then their number.
SlotStores(e, dma, io, fills) ==
  <<<<MappingAddress(dma, io), SlotMapping(e)>>>> \o fills
     \o <<<<MetadataAddress(dma, io), SlotMetadata(e)>>>>

SetupOutputEntry ==
  LET e   == bus_map[pc.j]
      dma == DmaAddress(P)
      label == e.destination_bus + BusShift * e.destination_channel
      initial ==
        IF SlotKey(e) \notin DOMAIN ivs THEN {<<>>}
        ELSE {<<<<dma + 8, pc.n>>, <<dma + 4, v>>>> :
                v \in IF e.source_channel + 1 \in DOMAIN ivs[SlotKey(e)]
                        THEN {ivs[SlotKey(e)][e.source_channel + 1]} ELSE Garbage}
  IN /\ At("output_dma") /\ InProgram /\ pc.j <= Len(bus_map)
     /\ \/ /\ e.source_id # P.name
           /\ SkipTo([pc EXCEPT !.j = @ + 1]) /\ UNCHANGED bus_labels
        \/ /\ e.source_id = P.name /\ ~SlotFits(e)
           /\ Throw /\ UNCHANGED bus_labels
        \/ /\ e.source_id = P.name /\ SlotFits(e)
           /\ \E fills \in initial :
                WriteThen(SlotStores(e, dma, pc.n, fills), [pc EXCEPT !.j = @ + 1, !.n = @ + 1])
           /\ bus_labels' = Labelled(bus_labels, label, SlotLabel(e, P.n_channels))
     /\ UNCHANGED <<addresses, deployed_hash, bus_map, ivs, inputs, inputs_labels,
                    active_random_inputs, active_waveforms, timebase_frequency, timebase_divider>>

FinishOutputDmaAllSlots ==
  /\ At("output_dma") /\ InProgram /\ pc.j > Len(bus_map)
  /\ WriteThen(<<<<DmaAddress(P), Len(bus_map)>>>>, NextProgram)
  /\ UNCHANGED deployerVars
FinishOutputDma ==
  /\ At("output_dma") /\ InProgram /\ pc.j > Len(bus_map)
  /\ WriteThen(<<<<DmaAddress(P), pc.n>>>>, NextProgram)
  /\ UNCHANGED deployerVars

\* A value for each channel, or one for the address as it is.
MemoryStores(base, n_channels, m) ==
  IF Len(m.value) = n_channels
    THEN [c \in 1 .. n_channels |->
            <<base + 4 * ((m.address % MemoryShift) + MemoryShift * (c - 1)), m.value[c]>>]
    ELSE <<<<base + 4 * m.address, m.value[1]>>>>

SetupMemory ==
  /\ At("memories") /\ InProgram
  /\ IF pc.j <= Len(CoreMemory)
       THEN WriteThen(MemoryStores(CoreControl(P), P.n_channels, CoreMemory[pc.j]),
                      [pc EXCEPT !.j = @ + 1])
       ELSE SkipTo(NextProgram)
  /\ UNCHANGED deployerVars

----------------------------------------------------------------------------
(* deploy(): setup_inputs.  pc.j is the input, pc.k its channel, pc.n the   *)
(* number of constant engine slots this core has used                       *)

IsConstant(in) == in.source_type \in {"constant", "time_series"}
IsGenerated(in) == in.source_type \in {"random", "waveform"}

\* How many times setup_input is called for an input.
InputChannels(p, in) ==
  IF p.n_channels <= 1 THEN 1
  ELSE IF Len(in.data) > 1 THEN Len(in.data)
  ELSE IF IsGenerated(in) THEN p.n_channels
  ELSE IF IsConstant(in) THEN Len(in.data) * p.n_channels ELSE 0

InputValue(in, channel) == IF Len(in.data) > 1 THEN in.data[channel + 1] ELSE in.data[1]

SignalPath(p, in, channel) ==
  IF p.n_channels > 1 THEN <<p.name, in.name, channel>> ELSE <<p.name, in.name>>

InputDest(in, channel) == in.address + BusShift * channel

NoNoise == UNCHANGED active_random_inputs
NoWave  == UNCHANGED active_waveforms

setup_constant(in, channel, next) ==
  LET selector == pc.n + BusShift * channel
      dest     == InputDest(in, channel)
      path     == SignalPath(P, in, channel)
  IN /\ inputs_labels' = Labelled(inputs_labels, path, <<ConstEngine(P), dest, selector, P.index>>)
     /\ inputs' = Append(inputs, [core |-> P.name, name |-> in.name, channel |-> channel,
                                  engine |-> ConstEngine(P), selector |-> selector, dest |-> dest])
     /\ WriteThen(ConstantStores(ConstEngine(P), selector, dest, InputValue(in, channel)), next)
     /\ NoNoise /\ NoWave /\ UNCHANGED bus_labels

setup_random(in, channel, next) ==
  LET dest == InputDest(in, channel)
  IN /\ WriteThen(<<<<Bases.noise_generator + 4 * (active_random_inputs + 1), dest>>>>, next)
     /\ active_random_inputs' = active_random_inputs + 1
     /\ bus_labels' = Labelled(bus_labels, dest, SignalPath(P, in, channel))
     /\ NoWave /\ UNCHANGED <<inputs, inputs_labels>>

\* Only square waves exist in hardware; the others throw, after the label.
setup_waveform(in, channel, next) ==
  LET dest == InputDest(in, channel)
  IN /\ bus_labels' = Labelled(bus_labels, dest, SignalPath(P, in, channel))
     /\ \/ /\ in.shape = "square"
           /\ WriteThen(WaveStores(Bases.waveform_generator, active_waveforms, in.wave, dest), next)
           /\ active_waveforms' = active_waveforms + 1
        \/ in.shape # "square" /\ Throw /\ NoWave
     /\ NoNoise /\ UNCHANGED <<inputs, inputs_labels>>

SetupInput ==
  LET in   == CoreInputs[pc.j]
      next == [pc EXCEPT !.k = @ + 1]
  IN /\ At("inputs") /\ InProgram /\ pc.j <= Len(CoreInputs)
     /\ pc.k < InputChannels(P, in)
     /\ \/ IsConstant(in) /\ setup_constant(in, pc.k, next)
        \/ in.source_type = "random" /\ setup_random(in, pc.k, next)
        \/ in.source_type = "waveform" /\ setup_waveform(in, pc.k, next)
        \/ /\ ~IsConstant(in) /\ ~IsGenerated(in) /\ SkipTo(next)
           /\ NoNoise /\ NoWave /\ UNCHANGED <<inputs, inputs_labels, bus_labels>>
     /\ UNCHANGED <<addresses, deployed_hash, bus_map, ivs, timebase_frequency, timebase_divider>>

FinishInput ==
  /\ At("inputs") /\ InProgram /\ pc.j <= Len(CoreInputs)
  /\ pc.k >= InputChannels(P, CoreInputs[pc.j])
  /\ SkipTo([pc EXCEPT !.j = @ + 1, !.k = 0,
                       !.n = IF IsConstant(CoreInputs[pc.j]) THEN @ + 1 ELSE @])
  /\ UNCHANGED deployerVars

FinishCoreInputs ==
  /\ At("inputs") /\ InProgram /\ pc.j > Len(CoreInputs)
  /\ IF active_random_inputs > 0
       THEN WriteThen(<<<<Bases.noise_generator, active_random_inputs>>>>, NextProgram)
       ELSE SkipTo(NextProgram)
  /\ UNCHANGED deployerVars

----------------------------------------------------------------------------
(* deploy(): the sequencer, the cores, and the end *)

SetupSequencer ==
  /\ At("sequencer")
  /\ WriteThen(SequencerStores(Programs, timebase_frequency), NextPhase)
  /\ UNCHANGED deployerVars

SetupCore ==
  /\ At("setup_cores") /\ InProgram
  /\ WriteThen(<<<<CoreControl(P), FULL_CORES>>>>, NextProgram)
  /\ UNCHANGED deployerVars

\* A loop over the programs that has seen them all.
EndOfLoop ==
  /\ up /\ pc.phase \in {"load_cores", "output_dma", "memories", "inputs", "setup_cores"}
  /\ ~InProgram
  /\ SkipTo(NextPhase)
  /\ UNCHANGED deployerVars

FinishDeploy ==
  /\ At("finish") /\ pc.cmd = "deploy"
  /\ pc' = Idle /\ reply' = Reply("deployed", pc.spec, <<>>)
  /\ configured' = IF fpga_loaded THEN pc.spec ELSE NoSpec
  /\ logged' = configured'
  /\ UNCHANGED <<busVars, deployerVars, spent>>

\* What get_hardware_sim_data answers with.
SimData(bus) == [code |-> RomLines(bus), control |-> ControlLines(bus),
                 outputs |-> bus_labels, inputs |-> inputs_labels]

\* start(), still without the bus, and enable_bus_access.
FinishSimulationEnabled ==
  /\ At("finish") /\ pc.cmd = "sim"
  /\ operations' = Append(operations, BusOp(<<Bases.hil_control>>, <<1>>, "control_plane_write"))
  /\ sink_mode' = previous_sink_mode
  /\ registers' = Stored(<<<<Bases.hil_control, 1>>>>)
  /\ pc' = Idle /\ reply' = Reply("simulated", pc.spec, SimData(operations'))
  /\ UNCHANGED <<up, fpga_loaded, previous_sink_mode, operating, fCore, deployerVars,
                 configured, logged, spent>>
FinishSimulation ==
  /\ At("finish") /\ pc.cmd = "sim"
  /\ operations' = IF fpga_loaded
                     THEN Append(operations, BusOp(<<Bases.hil_control>>, <<1>>, "control_plane_write"))
                     ELSE operations
  /\ sink_mode' = previous_sink_mode
  /\ logged' = IF fpga_loaded THEN pc.spec ELSE NoSpec
  /\ pc' = Idle /\ reply' = Reply("simulated", pc.spec, SimData(operations'))
  /\ UNCHANGED <<up, fpga_loaded, previous_sink_mode, hardwareVars, deployerVars,
                 configured, spent>>

----------------------------------------------------------------------------
(* The other commands *)

CanServe == At("idle") /\ spent.commands < MaxCommands

DeployHil ==
  /\ At("idle") /\ Len(inputs) <= MaxInputs
  /\ \E s \in Specs : process_deploy_hil(s)

SimulateDeployed(s) ==
  /\ deployed_hash = s
  /\ reply' = Reply("simulated_deployed", s, SimData(operations))
  /\ UNCHANGED <<busVars, deployerVars, pc, configured, logged, spent>>

HilHardwareSim ==
  /\ At("idle") /\ Len(inputs) <= MaxInputs
  /\ \E s \in Specs : IF deployed_hash = s THEN SimulateDeployed(s) ELSE SimulateAnew(s)

Command(stores) ==
  /\ write_direct_all(stores)
  /\ reply' = IF up' THEN NoReply ELSE Reply("died", NoSpec, <<>>)
  /\ spent' = [spent EXCEPT !.commands = @ + 1]
  /\ UNCHANGED <<deployerVars, pc, configured, logged>>

HilStart == CanServe /\ Command(<<<<Bases.hil_control, 1>>>>)
HilStop  == CanServe /\ Command(<<<<Bases.hil_control, 0>>>>)

\* The first slot of bus_map that carries an output; translate_output throws if
\* none does.
select_output(channel, out) ==
  LET carrying == {j \in DOMAIN bus_map : out = <<bus_map[j].source_id, bus_map[j].source_name,
                                                  bus_map[j].source_channel>>}
      e == bus_map[Min(carrying)]
  IN \/ /\ carrying = {} /\ process_exit
        /\ reply' = Reply("died", NoSpec, <<>>)
        /\ UNCHANGED <<deployerVars, pc, configured, logged, spent>>
     \/ /\ carrying # {}
        /\ Command(<<<<Bases.scope_mux + 4 * channel + 4,
                       e.destination_bus + BusShift * e.destination_channel>>>>)

Outputs == UNION {{<<e.source_id, e.source_name, e.source_channel>> : e \in Range(Slots(s))}
                    : s \in Specs}

HilSelectOut ==
  CanServe /\ \E c \in ScopeChannels, out \in Outputs : select_output(c, out)

\* update_input_value goes over every input ever set up.
set_first_input(core, name, channel, value) ==
  \E n \in DOMAIN inputs :
    LET same(i) == inputs[i].core = core /\ inputs[i].name = name /\ inputs[i].channel = channel
    IN /\ same(n) /\ \A i \in 1 .. n - 1 : ~same(i)
       /\ Command(ConstantStores(inputs[n].engine, inputs[n].selector, inputs[n].dest, value))
set_input(core, name, channel, value) ==
  LET same == {i \in DOMAIN inputs : inputs[i].core = core /\ inputs[i].name = name
                                        /\ inputs[i].channel = channel}
  IN Command([n \in 1 .. 3 * Cardinality(same) |->
       LET in == inputs[Nth(same, (n + 2) \div 3)]
       IN ConstantStores(in.engine, in.selector, in.dest, value)[((n - 1) % 3) + 1]])

HilSetIn ==
  CanServe /\ \E in \in Range(inputs), v \in Values : set_input(in.core, in.name, in.channel, v)

LoadBitstream ==
  /\ At("idle")
  /\ \E reported \in BOOLEAN, fate \in {"kept", "programmed", "lost"} :
       /\ load_bitstream(reported, fate)
       /\ configured' = IF fate = "kept" THEN configured ELSE NoSpec
  /\ reply' = NoReply /\ UNCHANGED <<deployerVars, pc, logged, spent>>

\* One map for both deployers; a field that is not a number is a type_error nobody
\* catches.  What the hardware and the log hold is under the old map.
SetAddressMap ==
  /\ At("idle")
  /\ \E layout \in Layouts :
       \/ /\ addresses' = layout /\ reply' = NoReply
          /\ configured' = NoSpec /\ logged' = NoSpec
          /\ UNCHANGED busVars
       \/ /\ process_exit /\ reply' = Reply("died", NoSpec, <<>>)
          /\ UNCHANGED <<addresses, configured, logged>>
  /\ UNCHANGED <<deployed_hash, bus_map, ivs, inputs, bus_labels, inputs_labels,
                 active_random_inputs, active_waveforms, timebase_frequency, timebase_divider,
                 pc, spent>>

Answer(kind, data) ==
  /\ At("idle") /\ reply' = Reply(kind, NoSpec, data)
  /\ UNCHANGED <<busVars, deployerVars, pc, configured, logged, spent>>

GetAddressMap == Answer("address_map", [map |-> addresses])
GetSamplingFrequency ==
  Answer("sampling_frequency", [frequency |-> AsFloat(timebase_frequency)])

\* SIGTERM or SIGINT, at any point of a command.
Terminate ==
  /\ up /\ spent.signals < MaxSignals
  /\ process_exit /\ pc' = Idle /\ reply' = NoReply
  /\ spent' = [spent EXCEPT !.signals = @ + 1]
  /\ UNCHANGED <<deployerVars, configured, logged>>

DeployerInit ==
  /\ addresses \in InitialLayouts
  /\ deployed_hash = NoSpec
  /\ bus_map = <<>> /\ ivs = <<>> /\ inputs = <<>>
  /\ bus_labels = <<>> /\ inputs_labels = <<>>
  /\ active_random_inputs = 0 /\ active_waveforms = 0
  /\ timebase_frequency = 0 /\ timebase_divider = 1

Relaunch ==
  /\ ~up /\ launch
  /\ addresses' \in InitialLayouts
  /\ deployed_hash' = NoSpec
  /\ bus_map' = <<>> /\ ivs' = <<>> /\ inputs' = <<>>
  /\ bus_labels' = <<>> /\ inputs_labels' = <<>>
  /\ active_random_inputs' = 0 /\ active_waveforms' = 0
  /\ timebase_frequency' = 0 /\ timebase_divider' = 1
  /\ pc' = Idle /\ reply' = NoReply
  /\ spent' = [spent EXCEPT !.commands = 0]
  /\ logged' = NoSpec /\ UNCHANGED configured

----------------------------------------------------------------------------
Init ==
  /\ BusInit /\ DeployerInit /\ pc = Idle /\ reply = NoReply
  /\ configured = NoSpec /\ logged = NoSpec /\ spent = NothingSpent

\* One step of the deploy() in progress.
DeployStep ==
  \/ /\ \/ LoadCore \/ ComputeTimebase \/ RaiseTimebaseDivider \/ NextDivider
        \/ SetupInterconnectIv \/ SetupOutputEntry \/ FinishOutputDma
        \/ SetupMemory \/ SetupInput \/ FinishInput \/ FinishCoreInputs
        \/ SetupSequencer \/ SetupCore \/ EndOfLoop
     /\ UNCHANGED <<configured, logged, spent>>
  \/ FinishDeploy \/ FinishSimulation

ServerStep ==
  \/ DeployHil \/ HilHardwareSim \/ DeployStep
  \/ HilStart \/ HilStop \/ HilSelectOut \/ HilSetIn \/ LoadBitstream
  \/ SetAddressMap \/ GetAddressMap \/ GetSamplingFrequency
  \/ Terminate

Next == ServerStep \/ Relaunch

Spec == Init /\ [][Next]_vars

\* The thread that serves a command runs on; nothing makes clients send one, a
\* signal arrive or anyone launch the driver again.
FairSpec == Spec /\ WF_vars(DeployStep)
=============================================================================
