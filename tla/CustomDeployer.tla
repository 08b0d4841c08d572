--------------------------- MODULE CustomDeployer ---------------------------
(***************************************************************************)
(* custom_deployer beside hil_deployer, as cores_endpoints owns them:      *)
(* process_deploy_hil calls the one or the other.  They share the bus with *)
(* its log, and the address map; each has its own deployer_base, so its    *)
(* own counters, tables and dispatcher.                                    *)
(*                                                                         *)
(* A custom deployment takes the addresses of a core from its              *)
(* specification (`options` of a program: rom_address, control_address,    *)
(* has_reciprocal), has no sequencer, and neither resets a counter nor     *)
(* clears the log.  Its initial values, labels and input list are left     *)
(* out: the first are never filled, the others never read.                 *)
(*                                                                         *)
(* CustomCalls lists the calls of deployer_base that its deploy() makes;   *)
(* each is a step, so that a signal falls between any two.                 *)
(***************************************************************************)
EXTENDS HilProperties

CONSTANTS
  CustomSpecs,        \* specifications with deployment_mode true
  MaxRandomInputs     \* bound on custom_random_inputs, which is never reset

ASSUME CustomAssumption ==
  CustomSpecs \intersect (Specs \union {NoSpec}) = {} /\ MaxRandomInputs \in Nat

\* The dispatcher returns vectors and numbers, for them too.
ASSUME CustomSpecAssumption ==
  \A s \in CustomSpecs :
    /\ IsSequence(SpecData[s].programs) /\ IsSequence(SpecData[s].slots)
    /\ \A p \in Range(SpecData[s].programs) :
         /\ p.n_channels \in Nat /\ IsSequence(p.binary)
         /\ IsSequence(SpecData[s].inputs[p.name]) /\ IsSequence(SpecData[s].memories[p.name])
         /\ \A in \in Range(SpecData[s].inputs[p.name]) : in.address \in Nat /\ IsSequence(in.data)
         /\ \A m \in Range(SpecData[s].memories[p.name]) : m.address \in Nat /\ IsSequence(m.value)

VARIABLES
  custom_random_inputs,   \* active_random_inputs of the custom_deployer
  custom_waveforms        \* its active_waveforms

customVars == <<custom_random_inputs, custom_waveforms>>
coresVars  == <<vars, customVars>>

----------------------------------------------------------------------------
(* The calls of custom_deployer::deploy *)

Call(function, address, data) == [function |-> function, address |-> address, data |-> data]
WriteAll(stores) == Call("write", 0, stores)
ThrowCall == Call("throw", 0, <<>>)

Options(s, i) == ProgramSeq(s)[i].options

LoadCalls(s, i) ==
  <<Call("load_core", Options(s, i).rom_address, ProgramSeq(s)[i].binary)>>

CustomDma(i) == Bases.cores_control + Offsets.cores_control * (i - 1) + Offsets.dma
DmaCalls(s, i) ==
  LET leaving == {j \in DOMAIN Slots(s) : Slots(s)[j].source_id = ProgramSeq(s)[i].name}
      entry(n) == LET e == Slots(s)[Nth(leaving, n)]
                  IN IF SlotFits(e) THEN WriteAll(SlotStores(e, CustomDma(i), n - 1, <<>>))
                                    ELSE ThrowCall
  IN [n \in 1 .. Cardinality(leaving) |-> entry(n)]
       \o <<WriteAll(<<<<CustomDma(i), Cardinality(leaving)>>>>)>>

MemoryCalls(s, i) ==
  LET p == ProgramSeq(s)[i]
      memory == SpecData[s].memories[p.name]
  IN [n \in DOMAIN memory |->
        WriteAll(MemoryStores(p.options.control_address, p.n_channels, memory[n]))]

\* The loop over the channels of an input also shortens the list it loops over.
CustomChannelsDown(p, in) == IF p.n_channels > 1 /\ Len(in.data) > 1 THEN Len(in.data) \div 2 ELSE 1
CustomChannels(p, in) ==
  IF p.n_channels > 1 /\ Len(in.data) > 1 THEN (Len(in.data) + 1) \div 2 ELSE 1

\* One constant engine for all cores, and one number for each input of a core.
CustomSelectorBelow(x, channel) == x - 2 + BusShift * channel
CustomSelector(x, channel) == x - 1 + BusShift * channel

\* complex_base_addr is 1, which leaves the register the same.
CustomInputBase(in) ==
  1 + (IF in.source_type = "random" THEN Bases.noise_generator ELSE Bases.cores_inputs)

\* setup_input, for a channel of the x-th input.
InputCall(s, i, x, channel) ==
  LET in   == InputsAt(s, i)[x]
      base == CustomInputBase(in)
      dest == InputDest(in, channel)
  IN CASE IsConstant(in) ->
            <<WriteAll(ConstantStores(base, CustomSelector(x, channel), dest,
                                      InputValue(in, channel)))>>
       [] in.source_type = "random" -> <<Call("random", base, dest)>>
       [] in.source_type = "waveform" ->
            <<IF in.shape = "square" THEN Call("waveform", base, <<in.wave, dest>>)
                                     ELSE ThrowCall>>
       [] OTHER -> <<>>

ChannelCalls(s, i, x) ==
  FlattenSeq([c \in 1 .. CustomChannels(ProgramSeq(s)[i], InputsAt(s, i)[x]) |->
                InputCall(s, i, x, c - 1)])

InputCalls(s, i) == FlattenSeq([x \in DOMAIN InputsAt(s, i) |-> ChannelCalls(s, i, x)])

CoreCalls(s, i) ==
  LET least == IF Options(s, i).has_reciprocal THEN 11 ELSE 8
  IN <<WriteAll(<<<<Options(s, i).control_address, Max({ProgramSeq(s)[i].n_channels, least})>>>>)>>

CustomCalls(s) ==
  LET cores == DOMAIN ProgramSeq(s)
  IN FlattenSeq([i \in cores |-> LoadCalls(s, i)])
       \o FlattenSeq([i \in cores |-> DmaCalls(s, i)])
       \o FlattenSeq([i \in cores |-> MemoryCalls(s, i)])
       \o FlattenSeq([i \in cores |-> InputCalls(s, i)])
       \o FlattenSeq([i \in cores |-> CoreCalls(s, i)])

----------------------------------------------------------------------------
(* process_deploy_hil with deployment_mode true *)

empty_operations == operations' = <<>>
keep_operations  == UNCHANGED operations

process_deploy_custom(s) ==
  LET set_specs == SpecData[s].set_specs
  IN /\ pc' = IF set_specs = "ok"
                THEN [Idle EXCEPT !.phase = "custom", !.cmd = "deploy", !.spec = s] ELSE Idle
     /\ up' = (set_specs \in {"ok", "runtime_error"})
     /\ reply' = IF set_specs = "ok" THEN NoReply
                 ELSE Reply(IF up' THEN "deployment_error" ELSE "died", s, <<>>)
     /\ configured' = NoSpec
     /\ keep_operations
     /\ spent' = [spent EXCEPT !.commands = @ + 1]
     /\ UNCHANGED <<fpga_loaded, sink_mode, previous_sink_mode, hardwareVars, deployerVars,
                    logged, customVars>>

DeployCustom ==
  /\ CanServe /\ custom_random_inputs < MaxRandomInputs
  /\ \E s \in CustomSpecs : process_deploy_custom(s)

\* Slot 0 of the noise generator is the number of them, which is never written.
NoiseSlotFromZero(base) == base + 4 * custom_random_inputs
NoiseSlot(base) == base + 4 * (custom_random_inputs + 1)

Counted(random, waves) ==
  /\ custom_random_inputs' = custom_random_inputs + random
  /\ custom_waveforms' = custom_waveforms + waves

CustomCall(c) ==
  LET next == [pc EXCEPT !.j = @ + 1]
  IN \/ c.function = "load_core" /\ LoadThen(c.address, c.data, next) /\ Counted(0, 0)
     \/ c.function = "write" /\ WriteThen(c.data, next) /\ Counted(0, 0)
     \/ /\ c.function = "random"
        /\ WriteThen(<<<<NoiseSlot(c.address), c.data>>>>, next) /\ Counted(1, 0)
     \/ /\ c.function = "waveform"
        /\ WriteThen(WaveStores(c.address, custom_waveforms, c.data[1], c.data[2]), next)
        /\ Counted(0, 1)
     \/ c.function = "throw" /\ Throw /\ Counted(0, 0)

FinishCustom ==
  /\ pc' = Idle /\ reply' = Reply("deployed_custom", pc.spec, <<>>)
  /\ UNCHANGED <<busVars, customVars>>

CustomStep ==
  /\ At("custom")
  /\ LET calls == CustomCalls(pc.spec)
     IN \/ pc.j \in DOMAIN calls /\ CustomCall(calls[pc.j])
        \/ pc.j \notin DOMAIN calls /\ FinishCustom
  /\ UNCHANGED <<deployerVars, configured, logged, spent>>

CoresInit == Init /\ custom_random_inputs = 0 /\ custom_waveforms = 0

CoresNext ==
  \/ ServerStep /\ UNCHANGED customVars
  \/ DeployCustom \/ CustomStep
  \/ Relaunch /\ custom_random_inputs' = 0 /\ custom_waveforms' = 0

CoresSpec == CoresInit /\ [][CoresNext]_coresVars

----------------------------------------------------------------------------
(* What a custom deployment calls for, without its loops and counters *)

CustomUses(s) ==
  UNION {UNION {{<<i, x, c>> : c \in {d \in 0 .. Len(InputsAt(s, i)[x].data) - 1 :
                                d = 0 \/ (ProgramSeq(s)[i].n_channels > 1
                                          /\ 2 * d < Len(InputsAt(s, i)[x].data))}}
                : x \in DOMAIN InputsAt(s, i)}
         : i \in DOMAIN ProgramSeq(s)}
CustomConstants(s) == {u \in CustomUses(s) : IsConstant(UsedInput(s, u))}

\* What is written for the slots that leave from a core, and for its memories.
CustomDmaWrites(s, i) ==
  LET p == ProgramSeq(s)[i]
      dma == Bases.cores_control + Offsets.cores_control * (i - 1) + Offsets.dma
  IN {<<dma, Cardinality(SlotsOf(s, p))>>} \union
       UNION {{<<MappingAddress(dma, SlotRank(s, p, j)), SlotMapping(Slots(s)[j])>>,
               <<MetadataAddress(dma, SlotRank(s, p, j)), SlotMetadata(Slots(s)[j])>>}
              : j \in SlotsOf(s, p)}
CustomMemoryWrites(s, p) ==
  UNION {{<<p.options.control_address + 4 * (m.address + MemoryShift * c), m.value[c + 1]>>
            : c \in IF Len(m.value) = p.n_channels THEN 0 .. p.n_channels - 1 ELSE {0}}
         : m \in Range(SpecData[s].memories[p.name])}
CustomChannelsSet(p) ==
  IF p.n_channels > 11 THEN p.n_channels
  ELSE IF p.options.has_reciprocal THEN 11
  ELSE IF p.n_channels > 8 THEN p.n_channels ELSE 8

CustomExpected(s) ==
  UNION {CustomDmaWrites(s, i) \union CustomMemoryWrites(s, ProgramSeq(s)[i])
           \union {<<ProgramSeq(s)[i].options.control_address, CustomChannelsSet(ProgramSeq(s)[i])>>}
         : i \in DOMAIN ProgramSeq(s)}

\* A memory of a value for each channel leaves a place for the channel in its
\* address.
CustomAddressesFit ==
  \A s \in CustomSpecs : \A p \in ProgramsOf(s) :
    \A m \in Range(SpecData[s].memories[p.name]) :
      Len(m.value) = p.n_channels => m.address < MemoryShift

\* The constants an engine holds after the writes `lines`: what followed its
\* selector and destination registers when the value register was written.
EngineHolds(lines, engine, selector, dest, value) ==
  LET sets(n) == /\ n + 2 \in DOMAIN lines
                 /\ lines[n] = <<engine + 12, selector>>
                 /\ lines[n + 1][1] = engine + 8 /\ lines[n + 2][1] = engine
  IN \E n \in DOMAIN lines :
       /\ sets(n) /\ lines[n + 1][2] = dest /\ lines[n + 2][2] = value
       /\ \A m \in n + 1 .. Len(lines) : ~sets(m)

----------------------------------------------------------------------------
(* Properties *)

CoresTypeOK ==
  /\ BusTypeOK /\ addresses \in Layouts \union InitialLayouts
  /\ custom_random_inputs \in Nat /\ custom_waveforms \in Nat
  /\ pc.spec \in Specs \union CustomSpecs \union {NoSpec} /\ pc.j \in Nat \ {0}

\* A completed custom deployment is in the hardware: programs, interconnect,
\* memories and cores at the addresses the specification and the map give them,
\* and the destination of each random input in a slot of the noise generator,
\* whatever was deployed, thrown or counted before.
CustomConfigurationInHardware ==
  up /\ reply.kind = "deployed_custom" /\ fpga_loaded =>
    LET s == reply.spec
    IN /\ \A p \in ProgramsOf(s) : \A n \in DOMAIN p.binary :
            fCore[fcore_address_to_index(p.options.rom_address) + n - 1] = p.binary[n]
       /\ \A w \in Unambiguous(CustomExpected(s)) : InRegisters(w)
       /\ \A u \in {v \in CustomUses(s) : UsedInput(s, v).source_type = "random"} :
            \E slot \in 1 .. custom_random_inputs :
              InRegisters(<<Bases.noise_generator + 4 * slot, UseDest(s, u)>>)

\* The constant engine holds the constants of a completed custom deployment, if
\* only one of its cores has any; of those with a value for each channel, the
\* lower half of the channels.
CustomConstantsInEngine ==
  up /\ reply.kind = "deployed_custom" /\ fpga_loaded =>
    LET s == reply.spec
    IN Cardinality({u[1] : u \in CustomConstants(s)}) = 1 =>
         \A u \in CustomConstants(s) :
           EngineHolds(ControlLines(operations), 1 + Bases.cores_inputs,
                       u[2] - 1 + BusShift * u[3], UseDest(s, u), InputValue(UsedInput(s, u), u[3]))
=============================================================================
