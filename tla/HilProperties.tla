--------------------------- MODULE HilProperties ---------------------------
(***************************************************************************)
(* What a deployment promises: the writes a specification calls for,       *)
(* stated as sets and ranks and without the counters and loops deploy()    *)
(* makes them with, and the properties of HilDeployer about them.          *)
(***************************************************************************)
EXTENDS HilDeployer

ProgramSeq(s) == SpecData[s].programs
ProgramsOf(s) == Range(ProgramSeq(s))

ControlWrites(ops) ==
  {<<o.address[1], o.data[1]>> : o \in {x \in Range(ops) : x.type = "control_plane_write"}}
RomWrites(ops) ==
  {<<o.address[1], o.data>> : o \in {x \in Range(ops) : x.type = "rom_plane_write"}}

ExpectedRoms(s) == {<<RomAddress(p), p.binary>> : p \in ProgramsOf(s)}

\* The DMA of a core has an entry for each slot that leaves from it, in order.
SlotsOf(s, p) == {j \in DOMAIN Slots(s) : Slots(s)[j].source_id = p.name}
SlotRank(s, p, j) == Cardinality({i \in SlotsOf(s, p) : i < j})

ExpectedDma(s) ==
  UNION {{<<DmaAddress(p), Cardinality(SlotsOf(s, p))>>} \union
         UNION {{<<MappingAddress(DmaAddress(p), SlotRank(s, p, j)), SlotMapping(Slots(s)[j])>>,
                 <<MetadataAddress(DmaAddress(p), SlotRank(s, p, j)), SlotMetadata(Slots(s)[j])>>}
                : j \in SlotsOf(s, p)}
         : p \in ProgramsOf(s)}

\* The slots with an initial value, and those for whose channel there is none
\* in the vector, so that deploy() reads past its end.
Initialised(s) == {j \in DOMAIN Slots(s) : SlotKey(Slots(s)[j]) \in DOMAIN InitialValues(s)}
InitialOf(s, j) == InitialValues(s)[SlotKey(Slots(s)[j])]
PastEnd(s) == {j \in Initialised(s) : Slots(s)[j].source_channel >= Len(InitialOf(s, j))}

ExpectedFills(s) ==
  UNION {UNION {{<<DmaAddress(p) + 8, SlotRank(s, p, j)>>,
                 <<DmaAddress(p) + 4, InitialOf(s, j)[Slots(s)[j].source_channel + 1]>>}
                : j \in (SlotsOf(s, p) \intersect Initialised(s)) \ PastEnd(s)}
         : p \in ProgramsOf(s)}

ExpectedMemory(s) ==
  UNION {UNION {IF Len(m.value) = p.n_channels
                  THEN {<<CoreControl(p) + 4 * (m.address + MemoryShift * c), m.value[c + 1]>>
                         : c \in 0 .. p.n_channels - 1}
                  ELSE {<<CoreControl(p) + 4 * m.address, m.value[1]>>}
                : m \in Range(SpecData[s].memories[p.name])}
         : p \in ProgramsOf(s)}

\* The uses of inputs: <<position of the program, of the input, channel>>.
InputsAt(s, i) == SpecData[s].inputs[ProgramSeq(s)[i].name]
Uses(s) ==
  UNION {UNION {{<<i, x, c>> : c \in 0 .. InputChannels(ProgramSeq(s)[i], InputsAt(s, i)[x]) - 1}
                : x \in DOMAIN InputsAt(s, i)}
         : i \in DOMAIN ProgramSeq(s)}
UsedInput(s, u) == InputsAt(s, u[1])[u[2]]
UseDest(s, u)   == InputDest(UsedInput(s, u), u[3])
Before(u, v) ==
  \/ u[1] < v[1]
  \/ u[1] = v[1] /\ u[2] < v[2]
  \/ u[1] = v[1] /\ u[2] = v[2] /\ u[3] < v[3]

UsesOf(s, type) == {u \in Uses(s) : UsedInput(s, u).source_type = type}
ConstantUses(s) == {u \in Uses(s) : IsConstant(UsedInput(s, u))}
UseRank(s, u) ==
  Cardinality({v \in UsesOf(s, UsedInput(s, u).source_type) : Before(v, u)})

UseEngine(s, u) == ConstEngine(ProgramSeq(s)[u[1]])
UseSelector(s, u) ==
  Cardinality({x \in 1 .. u[2] - 1 : IsConstant(InputsAt(s, u[1])[x])}) + BusShift * u[3]

ExpectedConstants(s) ==
  UNION {{<<UseEngine(s, u) + 12, UseSelector(s, u)>>,
          <<UseEngine(s, u) + 8, UseDest(s, u)>>,
          <<UseEngine(s, u), InputValue(UsedInput(s, u), u[3])>>} : u \in ConstantUses(s)}

\* Noise slots are numbered across cores, and the count grows core by core.
NoiseCounts(s) ==
  {Cardinality({u \in UsesOf(s, "random") : u[1] <= i}) : i \in DOMAIN ProgramSeq(s)} \ {0}

ExpectedNoise(s) ==
  {<<Bases.noise_generator + 4 * (UseRank(s, u) + 1), UseDest(s, u)>> : u \in UsesOf(s, "random")}
    \union {<<Bases.noise_generator, n>> : n \in NoiseCounts(s)}

ExpectedWaves(s) ==
  LET base == Bases.waveform_generator
      writes(u) ==
        LET w == UsedInput(s, u).wave[u[3] + 1]
        IN {<<base + 8, UseRank(s, u)>>, <<base + 12, w.v_on>>, <<base + 16, w.v_off>>,
            <<base + 20, w.t_delay>>, <<base + 24, w.t_on>>, <<base + 28, w.period>>,
            <<base + 32, UseDest(s, u)>>, <<base + 4, 0>>, <<base + 36, 56>>,
            <<base, UseRank(s, u) + 1>>}
  IN UNION {writes(u) : u \in UsesOf(s, "waveform")}

ExpectedSequencer(s) == Range(SequencerStores(ProgramSeq(s), Timebase(ProgramSeq(s))))
ExpectedCores(s) == {<<CoreControl(p), FULL_CORES>> : p \in ProgramsOf(s)}

BeforeEnable(s) ==
  ExpectedDma(s) \union ExpectedFills(s) \union ExpectedMemory(s) \union ExpectedConstants(s)
    \union ExpectedNoise(s) \union ExpectedWaves(s)
Expected(s) == BeforeEnable(s) \union ExpectedSequencer(s) \union ExpectedCores(s)

Unambiguous(writes) == {w \in writes : \A x \in writes : x[1] = w[1] => x[2] = w[2]}

\* An initial value left in ivs by an earlier specification, for a slot of s.
StaleInitialValue(s) ==
  \E j \in DOMAIN Slots(s) : SlotKey(Slots(s)[j]) \in DOMAIN ivs \ DOMAIN InitialValues(s)

\* What the program memory of a core holds per channel has a place for it in
\* the address, and so has the channel of a waveform: the code masks, or shifts,
\* what is left of an address that takes more.
AddressesFit ==
  \A s \in Specs : \A p \in ProgramsOf(s) :
    /\ \A m \in Range(SpecData[s].memories[p.name]) :
         Len(m.value) = p.n_channels => m.address < MemoryShift
    /\ \A in \in Range(SpecData[s].inputs[p.name]) :
         in.source_type = "waveform" => in.address < BusShift

\* The constants that clients can tell apart: no other of the specification has
\* the name of the core, of the input, and the channel.
NamedUses(s) ==
  {u \in ConstantUses(s) : \A v \in ConstantUses(s) :
     /\ ProgramSeq(s)[v[1]].name = ProgramSeq(s)[u[1]].name
     /\ UsedInput(s, v).name = UsedInput(s, u).name /\ v[3] = u[3]
     => v = u}
NamesApart == \A s \in Specs : NamedUses(s) = ConstantUses(s)

\* The frequencies that keep the cores in step: each core's divides them.
Common(ps) == {f \in 1 .. WordModulus \div 2 - 1 : \A n \in DOMAIN ps : f % ps[n].sampling_frequency = 0}
Timed(ps)  == \A n \in DOMAIN ps : ps[n].sampling_frequency # 0

\* The cores one after the other take less than a word of cycles.
RunsFit(ps) == 2 + RunTime(ps, DOMAIN ps) < WordModulus

\* set_specs and the number of cores let deploy() pass, so that it sets the timebase.
Passes(s) == SpecData[s].set_specs = "ok" /\ Len(SpecData[s].programs) <= MaxCores

\* A divider there is brings the timebase below what each timed core can keep up with.
DividersExist(s) ==
  LET ps == ProgramSeq(s)
  IN \A n \in DOMAIN ps : ~RunsTooOften(ps[n], Timebase(ps), DividerLimit)

InRegisters(w) == registers[register_address_to_index(w[1])] = w[2]

----------------------------------------------------------------------------
(* Properties *)

TypeOK ==
  /\ BusTypeOK
  /\ addresses \in Layouts \union InitialLayouts
  /\ deployed_hash \in Specs \union {NoSpec}
  /\ active_random_inputs \in Nat /\ active_waveforms \in Nat
  /\ timebase_frequency \in -(WordModulus \div 2) .. WordModulus \div 2 - 1
  /\ timebase_divider \in 1 .. DividerLimit
  /\ pc.phase \in Range(Phases) \union {"idle"}
  /\ pc.cmd \in {"none", "deploy", "sim"}
  /\ pc.spec \in Specs \union {NoSpec}
  /\ pc.i \in Nat \ {0} /\ pc.j \in Nat \ {0} /\ pc.k \in Nat /\ pc.n \in Nat
  /\ configured \in Specs \union {NoSpec} /\ logged \in Specs \union {NoSpec}

\* Between two commands the bus is enabled: whatever happened while a
\* hardware simulation was being collected, exceptions included, no later
\* command finds its accesses swallowed.  Covers the unguarded bracket of
\* disable_bus_access and enable_bus_access in get_hardware_sim_data.
AccessRestored == up /\ pc.phase = "idle" => ~sink_mode

\* Collecting a hardware simulation never changes the hardware, at no step and
\* however it ends: every access deploy() and start() make is in sink mode.
SimulationLeavesHardware ==
  [][pc'.cmd = "sim" \/ pc.cmd = "sim" => UNCHANGED <<operating, registers, fCore>>]_vars

\* A deploy or a fresh simulation that completes has logged exactly what its
\* specification calls for, every write and no other, unless an earlier
\* specification left an initial value behind or one was read past its end.
LogIsSpecification ==
  /\ up /\ reply.kind \in {"deployed", "simulated"} /\ fpga_loaded
  /\ ~StaleInitialValue(reply.spec) /\ PastEnd(reply.spec) = {}
  => /\ RomWrites(operations) = ExpectedRoms(reply.spec)
     /\ ControlWrites(operations) =
          Expected(reply.spec) \union
            (IF reply.kind = "simulated" THEN {<<Bases.hil_control, 1>>} ELSE {})

\* A completed deploy has reached the hardware: the programs are in program
\* memory, and so is every write no other write of the specification hides in
\* the registers, or, of an initial value, one that it does not call for; none of
\* the DMA tables is hidden while no core has more slots than DmaChannels.
ConfigurationInHardware ==
  up /\ reply.kind = "deployed" /\ fpga_loaded =>
    LET s == reply.spec
    IN /\ \A p \in ProgramsOf(s) : \A n \in DOMAIN p.binary :
            fCore[fcore_address_to_index(RomAddress(p)) + n - 1] = p.binary[n]
       /\ \A w \in Unambiguous(Expected(s)) :
            (w \in ExpectedFills(s) => PastEnd(s) = {} /\ ~StaleInitialValue(s))
              => InRegisters(w)
       /\ (\A p \in ProgramsOf(s) : Cardinality(SlotsOf(s, p)) <= DmaChannels)
            => \A w \in ExpectedDma(s) : InRegisters(w)

\* The sequencer gets its enable bits only when all the cores have their
\* programs, interconnect, memory and inputs: setup_sequencer comes after them.
EnabledAfterConfiguration ==
  LET enabled == \E w \in ControlWrites(operations) : w[1] = Controller
  IN up /\ pc.phase # "idle" /\ enabled =>
       /\ ExpectedRoms(pc.spec) \subseteq RomWrites(operations)
       /\ BeforeEnable(pc.spec) \subseteq ControlWrites(operations)

\* The signal table of a simulation names an address for each slot and each
\* generated input of its specification and for nothing else, and its input
\* table every constant input: both tables are rebuilt by each deploy.
SimulationTablesAreSpecification ==
  reply.kind = "simulated" =>
    LET s == reply.spec
        carried == {Slots(s)[j].destination_bus + BusShift * Slots(s)[j].destination_channel
                      : j \in UNION {SlotsOf(s, p) : p \in ProgramsOf(s)}}
        generated == {UseDest(s, u) : u \in UsesOf(s, "random") \union UsesOf(s, "waveform")}
    IN /\ DOMAIN reply.data.outputs = carried \union generated
       /\ Range(reply.data.inputs) =
            {<<UseEngine(s, u), UseDest(s, u), UseSelector(s, u), ProgramSeq(s)[u[1]].index>>
               : u \in ConstantUses(s)}

\* What the sequencer's registers say of the n-th core.
SequencerRegister(address) == registers[register_address_to_index(address)]
RunFrom(n)    == SequencerRegister(HilTimebase + 4 + 4 * n)
RunEnd(ps, n) == RunFrom(n) + program_length(ps[n])
RunsEvery(n)  == SequencerRegister(Controller + 4 * n) + 1
PeriodSet     == SequencerRegister(HilTimebase + 4)

\* No two cores of a completed deploy run at the same time, and none before the
\* interconnect has had the 90 cycles it needs after the one before; they run in
\* execution order, those of equal order in some order; and where a core that
\* runs freely leaves no common frequency, all of them within the period.  Of
\* cores that take less than a word of cycles together.  Covers
\* calculate_timebase_shift and setup_sequencer.
CoresTakeTurns ==
  up /\ reply.kind = "deployed" /\ fpga_loaded /\ RunsFit(ProgramSeq(reply.spec)) =>
    LET ps == ProgramSeq(reply.spec)
        before(m, n) == RunEnd(ps, m) + 90 <= RunFrom(n)
    IN /\ \A m, n \in DOMAIN ps :
            /\ ps[m].order < ps[n].order => before(m, n)
            /\ m # n => before(m, n) \/ before(n, m)
       /\ \A m, n \in DOMAIN ps :
            ps[m].sampling_frequency = 0 => RunEnd(ps, n) <= PeriodSet

\* Its cores run at the frequencies they are specified for, to within what the
\* period is rounded down by, if an int holds a frequency they have in common:
\* one run every so many periods of the clock.  Where none does, the product
\* in std::lcm wraps and they run at others.  Covers the timebase,
\* calculate_timebase_divider and the order of the sequencer's registers.
CoresAtTheirFrequency ==
  up /\ reply.kind = "deployed" /\ fpga_loaded =>
    LET ps == ProgramSeq(reply.spec)
    IN Timed(ps) /\ Common(ps) # {} =>
         \A n \in DOMAIN ps :
           LET perSecond(period) == RunsEvery(n) * ps[n].sampling_frequency * period
           IN perSecond(PeriodSet) <= HilClock /\ HilClock < perSecond(PeriodSet + 1)

\* The driver's tables are about what the hardware runs.
InStep(s) == s # NoSpec /\ configured = s /\ deployed_hash = s /\ fpga_loaded

\* hil_set_in on an input of the deployed specification leaves its constant
\* engine with that input's selector, destination and the new value, although
\* update_input_value also replays the entries of every earlier deploy.
SetInputDrivesDeployedInput ==
  [][\A s \in Specs : InStep(s) /\ CanServe =>
       \A u \in ConstantUses(s), v \in Values :
         set_input(ProgramSeq(s)[u[1]].name, UsedInput(s, u).name, u[3], v) =>
           /\ InRegisters(<<UseEngine(s, u) + 12, UseSelector(s, u)>>)'
           /\ InRegisters(<<UseEngine(s, u) + 8, UseDest(s, u)>>)'
           /\ InRegisters(<<UseEngine(s, u), v>>)']_vars

\* get_sampling_frequency answers for the specification deploy() was last called
\* with, if that passed set_specs, whether it came to its end, threw later or was
\* a simulation: with 0 if one of its cores runs freely, else with the least
\* frequency that every core divides, as a float, if an int holds one.  It is that
\* of what the hardware runs while nothing else was deployed or simulated since,
\* and 0 after a relaunch.
FrequencyIsOfDeployed ==
  [][GetSamplingFrequency =>
       LET f  == reply'.data.frequency
           ps == ProgramSeq(deployed_hash)
           common == Common(ps)
       IN IF deployed_hash = NoSpec THEN f = 0
          ELSE Passes(deployed_hash) =>
                 IF ~Timed(ps) THEN f = 0
                 ELSE \A least \in common :
                        (\A l \in common : least <= l) => f = AsFloat(least)]_vars

\* hil_select_out routes to the scope the bus address that carries the output
\* in the deployed specification, not in one deployed or simulated before.
SelectionIsOfDeployed ==
  [][\A s \in Specs : InStep(s) /\ CanServe =>
       \A c \in ScopeChannels : \A j \in DOMAIN Slots(s) :
         LET e == Slots(s)[j]
             address(x) == x.destination_bus + BusShift * x.destination_channel
             same == {x \in Range(Slots(s)) : SlotKey(x) = SlotKey(e)
                                                /\ x.source_channel = e.source_channel}
         IN select_output(c, <<e.source_id, e.source_name, e.source_channel>>) =>
              \E x \in same : InRegisters(<<Bases.scope_mux + 4 * c + 4, address(x)>>)']_vars

\* Every command ends, answered or with the process: deploy() does not hang in
\* one of its loops, if there is a divider that the loop of
\* calculate_timebase_divider can end with.
CommandsEnd ==
  pc.phase # "idle" /\ DividersExist(pc.spec) ~> pc.phase = "idle"

\* A simulation of the specification deployed or simulated last, once that came to
\* its end, is answered with the whole of its configuration, programs included,
\* whatever accesses have been logged since.  Covers get_hardware_sim_data, which
\* trusts deployed_hash, and the log, which other commands add to and one starts
\* anew.
CachedSimulationIsComplete ==
  reply.kind = "simulated_deployed" /\ logged = reply.spec /\ PastEnd(reply.spec) = {} =>
    /\ Expected(reply.spec) \subseteq Range(reply.data.control)
    /\ \A p \in ProgramsOf(reply.spec) : \A n \in DOMAIN p.binary :
         <<RomAddress(p) + 4 * (n - 1), p.binary[n]>> \in Range(reply.data.code)

\* What the test cache_invalidation_hil_sim_data says: the answer depends on the
\* specification in the request and not on one deployed before.
SimulationDependsOnRequestOnly ==
  reply.kind = "simulated" =>
    Range(reply.data.control) \subseteq Expected(reply.spec) \union {<<Bases.hil_control, 1>>}
=============================================================================
