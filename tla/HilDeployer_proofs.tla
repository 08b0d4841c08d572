-------------------------- MODULE HilDeployer_proofs --------------------------
(***************************************************************************)
(* What HilDeployer guarantees for every specification, layout and         *)
(* interleaving of commands, exceptions and signals.                       *)
(*                                                                         *)
(* First, of the bracket disable_bus_access .. enable_bus_access of a      *)
(* hardware simulation.  That access is restored when nothing runs is not  *)
(* inductive: it needs that sink mode is on exactly while a simulation is  *)
(* being collected, which needs that what enable_bus_access restores is    *)
(* always FALSE, and that deploy() never loses the command it runs for.    *)
(*                                                                         *)
(* Then, of the log of a deployment.  The properties speak of its end, so  *)
(* the invariant says what has to be in the log at every step before: Due  *)
(* is the set of writes that a position of deploy()'s loops has behind it, *)
(* Explained says what may be there at all, and CountedSoFar relates the   *)
(* counters the loops keep (DMA entries, constant slots, noise and wave    *)
(* slots) to the ranks the specification's writes are stated with.  One    *)
(* lemma for each helper of deploy() shows that what it writes is what the *)
(* next position has due more than this one.                               *)
(*                                                                         *)
(* Last, of the hardware: while a deployment runs, each register holds     *)
(* what the last write logged to it stored (HardwareFollows), so what is   *)
(* logged at the end is there unless a later write went to its register.   *)
(* And of the tables that hil_set_in and hil_select_out read after it:     *)
(* TablesFollow says what they hold at each step of the deployment.  The   *)
(* tables a simulation is answered with are built along the same loops:    *)
(* LabelsFollow says which slots and inputs they have labels for so far.   *)
(*                                                                         *)
(* And of the sequencer: the timebase is the least common multiple of the  *)
(* cores' frequencies and the phase shifts are sums of their run times.    *)
(* Both are folds over the programs; that these exist and what one more    *)
(* program does to them is proved first, so that the period, dividers and  *)
(* shifts the hardware holds can be compared with what the cores need.     *)
(***************************************************************************)
EXTENDS HilProperties, FpgaBridge_proofs

RunningPc ==
  [phase : Range(Phases), cmd : {"deploy", "sim"}, spec : Specs,
   i : Nat, j : Nat, k : Nat, n : Nat]

Running == pc \in RunningPc

Bracket ==
  /\ up \in BOOLEAN /\ sink_mode \in BOOLEAN
  /\ previous_sink_mode = FALSE
  /\ pc = Idle \/ Running
  /\ Running => up
  /\ up => (sink_mode <=> pc.cmd = "sim")

\* The phases of deploy() are nine, and none is the idle one.
LEMMA PhaseNames ==
  /\ Range(Phases) = {"load_cores", "timebase", "dividers", "output_dma", "memories", "inputs",
                      "sequencer", "setup_cores", "finish"}
  /\ "idle" \notin Range(Phases)
BY DEF Phases, Range

\* A server between commands is in no phase and for no command.
LEMMA IdleIsNotRunning ==
  Idle \notin RunningPc /\ Idle.cmd = "none" /\ Idle.phase = "idle"
BY PhaseNames DEF Idle, RunningPc

\* Whether deploy() runs can be told from the phase alone.
LEMMA IdleOrRunning ==
  ASSUME Bracket
  PROVE  /\ pc.phase = "idle" <=> pc = Idle
         /\ Running <=> pc # Idle
         /\ pc.cmd = "sim" => Running
BY PhaseNames DEF Bracket, Running, RunningPc, Idle

\* deploy() goes on for the command it runs for.
Continues(next) == next \in RunningPc /\ next.cmd = pc.cmd

\* A loop that goes on to the next program.
LEMMA NextProgramContinues == ASSUME Running PROVE Continues(NextProgram)
BY DEF Running, RunningPc, Continues, NextProgram, AtProgram

\* deploy() going on to its next phase, which exists before the last.
LEMMA NextPhaseContinues ==
  ASSUME Running, pc.phase # "finish" PROVE Continues(NextPhase)
<1> DEFINE here == CHOOSE n \in DOMAIN Phases : Phases[n] = pc.phase
<1>1. DOMAIN Phases = 1 .. 9 /\ Phases[9] = "finish"
  BY DEF Phases
<1>2. \E n \in DOMAIN Phases : Phases[n] = pc.phase
  BY DEF Running, RunningPc, Range
<1>3. here \in 1 .. 9 /\ Phases[here] = pc.phase
  BY <1>1, <1>2
<1>4. NextPhase = AtProgram(Phases[here + 1], 1)
  BY DEF NextPhase
<1> HIDE DEF here
<1>5. here + 1 \in DOMAIN Phases
  <2>1. here # 9
    BY <1>1, <1>3
  <2> QED BY <1>1, <1>3, <2>1
<1>6. Phases[here + 1] \in Range(Phases)
  BY <1>5 DEF Range
<1> QED BY <1>4, <1>6 DEF Running, RunningPc, Continues, AtProgram

\* Register writes do not touch the bracket.
LEMMA DirectWritesKeepBracket ==
  ASSUME up \in BOOLEAN, NEW stores, write_direct_all(stores)
  PROVE  up' \in BOOLEAN /\ UNCHANGED <<sink_mode, previous_sink_mode>>
<1>1. CASE fpga_loaded /\ ~sink_mode
  <2>1. up' = (Performed(stores) = DOMAIN stores)
    BY <1>1 DEF write_direct_all, write_registers
  <2> QED BY <1>1, <2>1 DEF write_direct_all, write_registers
<1>2. CASE ~fpga_loaded \/ sink_mode
  BY <1>2 DEF write_direct_all, write_registers, busVars
<1> QED BY <1>1, <1>2

\* A step of deploy() keeps the bracket, and of a simulation the hardware.
Sound ==
  /\ Bracket' /\ (pc' = Idle \/ pc'.cmd = pc.cmd)
  /\ (pc.cmd = "sim" => UNCHANGED hardwareVars)

\* A helper of deploy() that writes registers and may fault.
LEMMA WriteSound ==
  ASSUME Bracket, Running, NEW stores, NEW next, Continues(next), WriteThen(stores, next)
  PROVE  Sound
<1>1. up' \in BOOLEAN /\ UNCHANGED <<sink_mode, previous_sink_mode>>
  BY DirectWritesKeepBracket DEF WriteThen, Bracket
<1>2. pc.cmd = "sim" => UNCHANGED hardwareVars
  BY SunkWrites DEF WriteThen, Bracket
<1>3. CASE up'
  BY <1>1, <1>2, <1>3, PhaseNames
  DEF WriteThen, Continues, Sound, Bracket, Running, RunningPc, Idle
<1>4. CASE ~up'
  BY <1>1, <1>2, <1>4, PhaseNames DEF WriteThen, Sound, Bracket, Running, RunningPc, Idle
<1> QED BY <1>3, <1>4

\* load_core, which may fault too.
LEMMA LoadSound ==
  ASSUME Bracket, Running, NEW address, NEW program, NEW next, Continues(next),
         LoadThen(address, program, next)
  PROVE  Sound
<1>1. up' \in BOOLEAN /\ UNCHANGED <<sink_mode, previous_sink_mode>>
  BY DEF LoadThen, apply_program, load_program
<1>2. pc.cmd = "sim" => UNCHANGED hardwareVars
  BY SunkProgram DEF LoadThen, Bracket, Running
<1>3. pc' = IF up' THEN next ELSE Idle
  BY <1>1 DEF LoadThen
<1> QED BY <1>1, <1>2, <1>3, PhaseNames DEF Sound, Bracket, Running, RunningPc, Continues, Idle

\* A step of deploy() that reaches no register.
LEMMA SkipSound ==
  ASSUME Bracket, Running, NEW next, Continues(next), SkipTo(next)
  PROVE  Sound
BY PhaseNames DEF SkipTo, busVars, hardwareVars, Continues, Sound, Bracket, Running, RunningPc, Idle

\* Throw ends the process unless deploy_hil catches, and then the bus is enabled.
LEMMA ThrowSound ==
  ASSUME Bracket, Running, Throw
  PROVE  Sound
BY PhaseNames DEF Throw, hardwareVars, Sound, Bracket, Running, RunningPc, Idle

\* Every step of deploy(), one helper call each.
LEMMA DeployStepSound ==
  ASSUME Bracket, DeployStep
  PROVE  Sound
<1>0. Running
  BY PhaseNames, IdleOrRunning
  DEF DeployStep, LoadCore, ComputeTimebase, RaiseTimebaseDivider, NextDivider,
      SetupInterconnectIv, SetupOutputEntry, FinishOutputDma, SetupMemory,
      SetupInput, FinishInput, FinishCoreInputs, SetupSequencer, SetupCore, EndOfLoop,
      FinishDeploy, FinishSimulation, At, Idle
<1>n. Continues(NextProgram)
  BY <1>0, NextProgramContinues
<1>1. CASE LoadCore
  BY <1>0, <1>n, <1>1, LoadSound DEF LoadCore
<1>2. CASE ComputeTimebase
  BY <1>0, <1>2, NextPhaseContinues, SkipSound DEF ComputeTimebase, At
<1>14. CASE RaiseTimebaseDivider
  <2>1. Continues(pc)
    BY <1>0 DEF Continues, Running
  <2> QED BY <1>0, <1>14, <2>1, SkipSound DEF RaiseTimebaseDivider
<1>15. CASE NextDivider
  BY <1>0, <1>n, <1>15, SkipSound DEF NextDivider
<1>16. CASE SetupInterconnectIv
  <2>1. CASE SkipTo(NextPhase)
    BY <1>0, <1>16, <2>1, NextPhaseContinues, SkipSound DEF SetupInterconnectIv, At
  <2>2. CASE process_exit /\ pc' = Idle
    BY <1>0, <2>2, PhaseNames
    DEF process_exit, hardwareVars, Sound, Bracket, Running, RunningPc, Idle
  <2> QED BY <1>16, <2>1, <2>2 DEF SetupInterconnectIv
<1>3. CASE SetupOutputEntry
  <2>1. Continues([pc EXCEPT !.j = @ + 1]) /\ Continues([pc EXCEPT !.j = @ + 1, !.n = @ + 1])
    <3>1. pc.j + 1 \in Nat /\ pc.n + 1 \in Nat
      BY <1>0 DEF Running, RunningPc
    <3>2. ASSUME NEW j \in Nat, NEW n \in Nat
          PROVE  Continues([pc EXCEPT !.j = j]) /\ Continues([pc EXCEPT !.j = j, !.n = n])
      BY <1>0 DEF Continues, Running, RunningPc
    <3> QED BY <3>1, <3>2
  <2>2. \/ SkipTo([pc EXCEPT !.j = @ + 1])
        \/ Throw
        \/ \E stores : WriteThen(stores, [pc EXCEPT !.j = @ + 1, !.n = @ + 1])
    BY <1>3, Zenon DEF SetupOutputEntry
  <2> QED BY <1>0, <2>1, <2>2, SkipSound, ThrowSound, WriteSound
<1>4. CASE FinishOutputDma
  BY <1>0, <1>n, <1>4, WriteSound DEF FinishOutputDma
<1>5. CASE SetupMemory
  <2>1. Continues([pc EXCEPT !.j = @ + 1])
    BY <1>0 DEF Continues, Running, RunningPc
  <2> QED BY <1>0, <1>n, <1>5, <2>1, WriteSound, SkipSound DEF SetupMemory
<1>6. CASE SetupInput
  <2>1. Continues([pc EXCEPT !.k = @ + 1])
    BY <1>0 DEF Continues, Running, RunningPc
  <2> QED BY <1>0, <1>6, <2>1, WriteSound, SkipSound, ThrowSound
          DEF SetupInput, setup_constant, setup_random, setup_waveform
<1>7. CASE FinishInput
  <2> DEFINE m == IF IsConstant(CoreInputs[pc.j]) THEN pc.n + 1 ELSE pc.n
  <2>1. m \in Nat /\ pc.j + 1 \in Nat
    BY <1>0 DEF Running, RunningPc
  <2>2. SkipTo([pc EXCEPT !.j = @ + 1, !.k = 0, !.n = m])
    BY <1>7 DEF FinishInput
  <2> HIDE DEF m
  <2>3. Continues([pc EXCEPT !.j = @ + 1, !.k = 0, !.n = m])
    <3>1. ASSUME NEW j \in Nat PROVE Continues([pc EXCEPT !.j = j, !.k = 0, !.n = m])
      BY <1>0, <2>1 DEF Continues, Running, RunningPc
    <3> QED BY <2>1, <3>1
  <2> QED BY <1>0, <2>2, <2>3, SkipSound
<1>8. CASE FinishCoreInputs
  BY <1>0, <1>n, <1>8, WriteSound, SkipSound DEF FinishCoreInputs
<1>9. CASE SetupSequencer
  BY <1>0, <1>9, NextPhaseContinues, WriteSound DEF SetupSequencer, At
<1>10. CASE SetupCore
  BY <1>0, <1>n, <1>10, WriteSound DEF SetupCore
<1>11. CASE EndOfLoop
  BY <1>0, <1>11, NextPhaseContinues, SkipSound DEF EndOfLoop
<1>12. CASE FinishDeploy
  BY <1>0, <1>12, PhaseNames
  DEF FinishDeploy, At, busVars, hardwareVars, Sound, Bracket, Running, RunningPc, Idle
<1>13. CASE FinishSimulation
  BY <1>0, <1>13, PhaseNames
  DEF FinishSimulation, At, hardwareVars, Sound, Bracket, Running, RunningPc, Idle
<1> QED BY <1>1, <1>2, <1>3, <1>4, <1>5, <1>6, <1>7, <1>8, <1>9, <1>10, <1>11, <1>12, <1>13,
          <1>14, <1>15, <1>16
        DEF DeployStep

\* Init, the steps of deploy(), the other commands, the signal and the relaunch.
LEMMA BracketInit == Init => Bracket
BY IdleIsNotRunning DEF Init, BusInit, Bracket, Running

\* deploy() starts for the command it is called by, or ends in an exception,
\* which kills the process unless the command is deploy_hil.
LEMMA PrologueRuns ==
  ASSUME NEW cmd \in {"deploy", "sim"}, NEW s \in Specs, Prologue(cmd, s)
  PROVE  \/ pc' \in RunningPc /\ pc'.cmd = cmd /\ up'
         \/ pc' = Idle /\ up' \in BOOLEAN /\ (cmd = "sim" => ~up')
<1> DEFINE fits == SpecData[s].set_specs = "ok" /\ Len(SpecData[s].programs) <= MaxCores
<1>1. pc' = IF fits THEN [Idle EXCEPT !.phase = Phases[1], !.cmd = cmd, !.spec = s] ELSE Idle
  BY DEF Prologue
<1>2. up' = (fits \/ (cmd = "deploy" /\ (SpecData[s].set_specs = "ok"
                                         \/ SpecData[s].set_specs = "runtime_error")))
  BY DEF Prologue
<1> HIDE DEF fits
<1>3. Phases[1] = "load_cores" /\ "load_cores" \in Range(Phases)
  BY PhaseNames DEF Phases
<1>4. CASE fits
  BY <1>1, <1>2, <1>3, <1>4 DEF RunningPc, Idle
<1>5. CASE ~fits
  BY <1>1, <1>2, <1>5
<1> QED BY <1>4, <1>5

\* The commands that only write registers.
LEMMA CommandKeepsBracket ==
  ASSUME Bracket, up, pc = Idle, NEW stores, Command(stores)
  PROVE  Bracket'
<1>1. up' \in BOOLEAN /\ UNCHANGED <<sink_mode, previous_sink_mode>>
  BY DirectWritesKeepBracket DEF Command, Bracket
<1> QED BY <1>1, IdleIsNotRunning DEF Command, Bracket, Running

\* The inductive step: the bracket is kept, and a simulation spares the hardware.
LEMMA BracketNext ==
  ASSUME Bracket, [Next]_vars
  PROVE  /\ Bracket'
         /\ (pc'.cmd = "sim" \/ pc.cmd = "sim") => UNCHANGED hardwareVars
<1>0. pc.phase = "idle" => pc = Idle /\ ~Running
  BY IdleOrRunning, PhaseNames
<1>1. CASE DeployHil
  <2>1. PICK s \in Specs : process_deploy_hil(s)
    BY <1>1 DEF DeployHil
  <2>2. pc = Idle /\ up
    BY <1>0, <1>1 DEF DeployHil, At
  <2>3. /\ \/ pc' \in RunningPc /\ pc'.cmd = "deploy" /\ up'
           \/ pc' = Idle /\ up' \in BOOLEAN
        /\ UNCHANGED <<sink_mode, previous_sink_mode>>
    BY <2>1, PrologueRuns DEF process_deploy_hil
  <2>4. Bracket'
    BY <2>2, <2>3, IdleIsNotRunning DEF Bracket, Running
  <2>5. pc'.cmd # "sim" /\ pc.cmd # "sim"
    BY <2>2, <2>3, IdleIsNotRunning
  <2> QED BY <2>4, <2>5
<1>2. CASE HilHardwareSim
  <2>1. PICK s \in Specs : SimulateDeployed(s) \/ SimulateAnew(s)
    BY <1>2 DEF HilHardwareSim
  <2>2. pc = Idle /\ up
    BY <1>0, <1>2 DEF HilHardwareSim, At
  <2>3. CASE SimulateDeployed(s)
    BY <2>2, <2>3 DEF SimulateDeployed, busVars, hardwareVars, Bracket, Running
  <2>4. CASE SimulateAnew(s)
    <3>1. /\ \/ pc' \in RunningPc /\ pc'.cmd = "sim" /\ up'
             \/ pc' = Idle /\ up' \in BOOLEAN /\ ~up'
          /\ previous_sink_mode' = sink_mode /\ sink_mode' = TRUE
          /\ UNCHANGED hardwareVars
      BY <2>4, PrologueRuns DEF SimulateAnew, Prologue
    <3>2. ~sink_mode
      BY <2>2, IdleIsNotRunning DEF Bracket
    <3>3. Bracket'
      BY <3>1, <3>2, IdleIsNotRunning DEF Bracket, Running
    <3> QED BY <3>1, <3>3
  <2> QED BY <2>1, <2>3, <2>4
<1>3. CASE DeployStep
  <2>1. Sound
    BY <1>3, DeployStepSound
  <2>2. pc'.cmd = "sim" => pc.cmd = "sim"
    BY <2>1 DEF Sound, Idle
  <2> QED BY <2>1, <2>2 DEF Sound
<1>4. CASE HilStart \/ HilStop \/ HilSelectOut \/ HilSetIn
  <2>1. up /\ pc = Idle /\ pc' = pc
    BY <1>0, <1>4 DEF HilStart, HilStop, HilSelectOut, HilSetIn, CanServe, At, Command,
                      select_output, set_input
  <2>2. \/ \E stores : Command(stores)
        \/ process_exit
    BY <1>4 DEF HilStart, HilStop, HilSelectOut, HilSetIn, select_output, set_input
  <2>3. Bracket'
    BY <2>1, <2>2, CommandKeepsBracket, IdleIsNotRunning DEF process_exit, Bracket, Running
  <2> QED BY <2>1, <2>3 DEF Idle
<1>5. CASE LoadBitstream
  BY <1>0, <1>5 DEF LoadBitstream, At, load_bitstream, Bracket, Running, Idle
<1>6. CASE Terminate
  BY <1>6 DEF Terminate, process_exit, hardwareVars, Bracket, Running, RunningPc, Idle
<1>7. CASE Relaunch
  BY <1>7 DEF Relaunch, launch, hardwareVars, Bracket, Running, RunningPc, Idle
<1>8. CASE UNCHANGED vars
  BY <1>8 DEF vars, busVars, hardwareVars, Bracket, Running
<1>9. CASE SetAddressMap
  <2>1. /\ up /\ pc = Idle /\ pc' = pc
        /\ UNCHANGED busVars \/ process_exit
    BY <1>0, <1>9 DEF SetAddressMap, At
  <2>2. /\ up' \in BOOLEAN /\ UNCHANGED <<sink_mode, previous_sink_mode>>
        /\ up' => up
    BY <2>1 DEF busVars, process_exit, Bracket
  <2>3. ~sink_mode
    BY <2>1, IdleIsNotRunning DEF Bracket
  <2>4. Bracket'
    BY <2>1, <2>2, <2>3, IdleIsNotRunning DEF Bracket, Running
  <2> QED BY <2>1, <2>4, IdleIsNotRunning
<1>10. CASE GetAddressMap \/ GetSamplingFrequency
  BY <1>0, <1>10, IdleIsNotRunning
  DEF GetAddressMap, GetSamplingFrequency, Answer, CanServe, At, busVars, hardwareVars, Bracket,
      Running
<1> QED BY <1>1, <1>2, <1>3, <1>4, <1>5, <1>6, <1>7, <1>8, <1>9, <1>10 DEF Next, ServerStep

\* Sink mode is on exactly while a simulation is collected, and what
\* enable_bus_access restores is always FALSE.
THEOREM BracketInvariant == Spec => []Bracket
BY BracketInit, BracketNext, PTL DEF Spec

\* No command ever finds the bus disabled by a simulation collected before it.
THEOREM AccessIsRestored == Spec => []AccessRestored
<1>1. Bracket => AccessRestored
  BY IdleOrRunning DEF Bracket, AccessRestored, Idle
<1> QED BY <1>1, BracketInvariant, PTL

\* Collecting a simulation never changes the hardware.
THEOREM SimulationSparesHardware == Spec => SimulationLeavesHardware
<1>1. ASSUME Bracket, [Next]_vars
      PROVE  pc'.cmd = "sim" \/ pc.cmd = "sim" => UNCHANGED <<operating, registers, fCore>>
  BY <1>1, BracketNext DEF hardwareVars
<1> QED BY <1>1, BracketInvariant, PTL DEF Spec, SimulationLeavesHardware

----------------------------------------------------------------------------
(* What a deployment has to have written before a position c of deploy(),  *)
(* which has the fields of pc.                                             *)

Untimed        == {"load_cores", "timebase"}
Beginning      == {"load_cores", "timebase", "dividers"}
AfterDma       == {"memories", "inputs", "sequencer", "setup_cores", "finish"}
AfterMemories  == {"inputs", "sequencer", "setup_cores", "finish"}
AfterInputs    == {"sequencer", "setup_cores", "finish"}
AfterSequencer == {"setup_cores", "finish"}

\* The loop of a phase, which the phases in `later` follow, is done with program i.
Passed(c, phase, later, i) == c.phase \in later \/ (c.phase = phase /\ i < c.i)

\* The fill is that of an initial value the specification gives.
SlotWrites(s, p, j) ==
  {<<MappingAddress(DmaAddress(p), SlotRank(s, p, j)), SlotMapping(Slots(s)[j])>>,
   <<MetadataAddress(DmaAddress(p), SlotRank(s, p, j)), SlotMetadata(Slots(s)[j])>>}
  \union IF j \in Initialised(s) \ PastEnd(s)
         THEN {<<DmaAddress(p) + 8, SlotRank(s, p, j)>>,
               <<DmaAddress(p) + 4, InitialOf(s, j)[Slots(s)[j].source_channel + 1]>>} ELSE {}

MemoryOf(s, p) == SpecData[s].memories[p.name]
MemoryWrites(p, m) ==
  IF Len(m.value) = p.n_channels
    THEN {<<CoreControl(p) + 4 * (m.address + MemoryShift * c), m.value[c + 1]>>
           : c \in 0 .. p.n_channels - 1}
    ELSE {<<CoreControl(p) + 4 * m.address, m.value[1]>>}

ConstantWrites(s, u) ==
  {<<UseEngine(s, u) + 12, UseSelector(s, u)>>, <<UseEngine(s, u) + 8, UseDest(s, u)>>,
   <<UseEngine(s, u), InputValue(UsedInput(s, u), u[3])>>}
NoiseWrites(s, u) == {<<Bases.noise_generator + 4 * (UseRank(s, u) + 1), UseDest(s, u)>>}
WaveWrites(s, u) ==
  LET base == Bases.waveform_generator
      w == UsedInput(s, u).wave[u[3] + 1]
  IN {<<base + 8, UseRank(s, u)>>, <<base + 12, w.v_on>>, <<base + 16, w.v_off>>,
      <<base + 20, w.t_delay>>, <<base + 24, w.t_on>>, <<base + 28, w.period>>,
      <<base + 32, UseDest(s, u)>>, <<base + 4, 0>>, <<base + 36, 56>>,
      <<base, UseRank(s, u) + 1>>}

\* What setup_input writes for a use of an input.
UseWrites(s, u, w) ==
  \/ IsConstant(UsedInput(s, u)) /\ w \in ConstantWrites(s, u)
  \/ UsedInput(s, u).source_type = "random" /\ w \in NoiseWrites(s, u)
  \/ UsedInput(s, u).source_type = "waveform" /\ w \in WaveWrites(s, u)

NoiseCount(s, i) == Cardinality({u \in UsesOf(s, "random") : u[1] <= i})
Here(c) == <<c.i, c.j, c.k>>

DueSlot(c, w) ==
  \E i \in DOMAIN ProgramSeq(c.spec) : \E j \in SlotsOf(c.spec, ProgramSeq(c.spec)[i]) :
    /\ w \in SlotWrites(c.spec, ProgramSeq(c.spec)[i], j)
    /\ \/ Passed(c, "output_dma", AfterDma, i)
       \/ c.phase = "output_dma" /\ i = c.i /\ j < c.j
DueDma(c, w) ==
  \E i \in DOMAIN ProgramSeq(c.spec) :
    /\ w = <<DmaAddress(ProgramSeq(c.spec)[i]), Cardinality(SlotsOf(c.spec, ProgramSeq(c.spec)[i]))>>
    /\ Passed(c, "output_dma", AfterDma, i)
DueMemory(c, w) ==
  \E i \in DOMAIN ProgramSeq(c.spec) : \E j \in DOMAIN MemoryOf(c.spec, ProgramSeq(c.spec)[i]) :
    /\ w \in MemoryWrites(ProgramSeq(c.spec)[i], MemoryOf(c.spec, ProgramSeq(c.spec)[i])[j])
    /\ \/ Passed(c, "memories", AfterMemories, i)
       \/ c.phase = "memories" /\ i = c.i /\ j < c.j
DueUse(c, w) ==
  \E u \in Uses(c.spec) :
    /\ UseWrites(c.spec, u, w)
    /\ c.phase \in AfterInputs \/ (c.phase = "inputs" /\ Before(u, Here(c)))
DueNoise(c, w) ==
  \E i \in DOMAIN ProgramSeq(c.spec) :
    /\ NoiseCount(c.spec, i) # 0 /\ w = <<Bases.noise_generator, NoiseCount(c.spec, i)>>
    /\ Passed(c, "inputs", AfterInputs, i)
DueSequencer(c, w) == c.phase \in AfterSequencer /\ w \in ExpectedSequencer(c.spec)
DueCore(c, w) ==
  \E i \in DOMAIN ProgramSeq(c.spec) :
    /\ w = <<CoreControl(ProgramSeq(c.spec)[i]), FULL_CORES>>
    /\ Passed(c, "setup_cores", {"finish"}, i)

Due(c, w) ==
  \/ DueSlot(c, w) \/ DueDma(c, w) \/ DueMemory(c, w) \/ DueUse(c, w) \/ DueNoise(c, w)
  \/ DueSequencer(c, w) \/ DueCore(c, w)

DueRom(c, w) ==
  \E i \in DOMAIN ProgramSeq(c.spec) :
    /\ w = <<RomAddress(ProgramSeq(c.spec)[i]), ProgramSeq(c.spec)[i].binary>>
    /\ c.phase # "load_cores" \/ i < c.i

\* A fill the specification does not call for: of a value an earlier one left,
\* or read past the end of its vector.
Unclear(s) == StaleInitialValue(s) \/ PastEnd(s) # {}
StrayFill(s, w) ==
  Unclear(s) /\ \E p \in ProgramsOf(s) : w[1] = DmaAddress(p) + 8 \/ w[1] = DmaAddress(p) + 4

\* What may be in the log at position c, and why.
Explained(c, w) ==
  \/ w \in BeforeEnable(c.spec)
  \/ StrayFill(c.spec, w)
  \/ c.phase \in AfterSequencer /\ w \in ExpectedSequencer(c.spec) \union ExpectedCores(c.spec)

----------------------------------------------------------------------------
(* Specifications *)

\* A sequence is a function on the numbers up to its length.
LEMMA SequenceDomain ==
  ASSUME NEW x, IsSequence(x)
  PROVE  Len(x) \in Nat /\ DOMAIN x = 1 .. Len(x)
BY DEF IsSequence

\* What deploy() goes over has a beginning and an end.
LEMMA SpecSequences ==
  ASSUME NEW s \in Specs
  PROVE  /\ Len(ProgramSeq(s)) \in Nat /\ DOMAIN ProgramSeq(s) = 1 .. Len(ProgramSeq(s))
         /\ Len(Slots(s)) \in Nat /\ DOMAIN Slots(s) = 1 .. Len(Slots(s))
         /\ \A i \in DOMAIN ProgramSeq(s) :
              /\ ProgramSeq(s)[i] \in ProgramsOf(s)
              /\ Len(InputsAt(s, i)) \in Nat /\ DOMAIN InputsAt(s, i) = 1 .. Len(InputsAt(s, i))
              /\ Len(MemoryOf(s, ProgramSeq(s)[i])) \in Nat
              /\ DOMAIN MemoryOf(s, ProgramSeq(s)[i]) = 1 .. Len(MemoryOf(s, ProgramSeq(s)[i]))
<1>1. /\ IsSequence(SpecData[s].programs) /\ IsSequence(SpecData[s].slots)
      /\ \A p \in Range(SpecData[s].programs) :
           IsSequence(SpecData[s].inputs[p.name]) /\ IsSequence(SpecData[s].memories[p.name])
  BY SpecAssumption
<1>2. \A i \in DOMAIN ProgramSeq(s) : ProgramSeq(s)[i] \in Range(SpecData[s].programs)
  BY DEF ProgramSeq, Range
<1> QED BY <1>1, <1>2, SequenceDomain DEF ProgramSeq, ProgramsOf, Slots, InputsAt, MemoryOf

\* setup_input is called for channels from 0 on.
LEMMA InputChannelsType ==
  ASSUME NEW s \in Specs, NEW i \in DOMAIN ProgramSeq(s), NEW x \in DOMAIN InputsAt(s, i)
  PROVE  InputChannels(ProgramSeq(s)[i], InputsAt(s, i)[x]) \in Nat
<1> DEFINE p == ProgramSeq(s)[i]
           in == InputsAt(s, i)[x]
<1>1. p \in Range(SpecData[s].programs) /\ in \in Range(SpecData[s].inputs[p.name])
  BY DEF ProgramSeq, InputsAt, Range
<1>2. p.n_channels \in Nat /\ IsSequence(in.data)
  BY <1>1, SpecAssumption
<1>3. Len(in.data) \in Nat
  BY <1>2, SequenceDomain
<1> HIDE DEF p, in
<1>4. Len(in.data) * p.n_channels \in Nat
  BY <1>2, <1>3
<1> QED BY <1>2, <1>3, <1>4 DEF InputChannels, p, in

\* The uses of inputs, one by one.
LEMMA UsesMember ==
  ASSUME NEW s \in Specs
  PROVE  /\ \A u \in Uses(s) :
              /\ u = <<u[1], u[2], u[3]>>
              /\ u[1] \in DOMAIN ProgramSeq(s) /\ u[2] \in DOMAIN InputsAt(s, u[1])
              /\ u[3] \in 0 .. InputChannels(ProgramSeq(s)[u[1]], UsedInput(s, u)) - 1
              /\ u[1] \in Nat /\ u[2] \in Nat /\ u[3] \in Nat
         /\ \A i \in DOMAIN ProgramSeq(s) : \A x \in DOMAIN InputsAt(s, i) :
              \A c \in 0 .. InputChannels(ProgramSeq(s)[i], InputsAt(s, i)[x]) - 1 :
                <<i, x, c>> \in Uses(s)
<1>1. ASSUME NEW u \in Uses(s)
      PROVE  \E i \in DOMAIN ProgramSeq(s) : \E x \in DOMAIN InputsAt(s, i) :
               \E c \in 0 .. InputChannels(ProgramSeq(s)[i], InputsAt(s, i)[x]) - 1 : u = <<i, x, c>>
  BY <1>1 DEF Uses
<1>2. ASSUME NEW u \in Uses(s)
      PROVE  /\ u = <<u[1], u[2], u[3]>>
             /\ u[1] \in DOMAIN ProgramSeq(s) /\ u[2] \in DOMAIN InputsAt(s, u[1])
             /\ u[3] \in 0 .. InputChannels(ProgramSeq(s)[u[1]], UsedInput(s, u)) - 1
             /\ u[1] \in Nat /\ u[2] \in Nat /\ u[3] \in Nat
  <2>0. PICK i \in DOMAIN ProgramSeq(s) : \E x \in DOMAIN InputsAt(s, i) :
          \E c \in 0 .. InputChannels(ProgramSeq(s)[i], InputsAt(s, i)[x]) - 1 : u = <<i, x, c>>
    BY <1>1
  <2>1. PICK x \in DOMAIN InputsAt(s, i) :
          \E c \in 0 .. InputChannels(ProgramSeq(s)[i], InputsAt(s, i)[x]) - 1 : u = <<i, x, c>>
    BY <2>0
  <2>2. PICK c \in 0 .. InputChannels(ProgramSeq(s)[i], InputsAt(s, i)[x]) - 1 : u = <<i, x, c>>
    BY <2>1
  <2>3. u[1] = i /\ u[2] = x /\ u[3] = c
    BY <2>2
  <2>4. i \in Nat /\ x \in Nat
    BY <2>0, <2>1, SpecSequences
  <2>5. c \in Nat
    BY <2>0, <2>1, <2>2, InputChannelsType
  <2> QED BY <2>0, <2>1, <2>2, <2>3, <2>4, <2>5 DEF UsedInput
<1>3. ASSUME NEW i \in DOMAIN ProgramSeq(s), NEW x \in DOMAIN InputsAt(s, i),
             NEW c \in 0 .. InputChannels(ProgramSeq(s)[i], InputsAt(s, i)[x]) - 1
      PROVE  <<i, x, c>> \in Uses(s)
  BY <1>3 DEF Uses
<1> QED BY <1>2, <1>3

----------------------------------------------------------------------------
(* The writes a specification calls for, program by program *)

\* Programs by name or by position.
LEMMA ProgramPosition ==
  ASSUME NEW s, NEW p
  PROVE  p \in ProgramsOf(s) <=> \E i \in DOMAIN ProgramSeq(s) : p = ProgramSeq(s)[i]
BY DEF ProgramsOf, Range

\* The entries of a core's DMA with their fills, and the number of them.
LEMMA ExpectedSlots ==
  ASSUME NEW s, NEW w
  PROVE  w \in ExpectedDma(s) \union ExpectedFills(s) <=>
           \E i \in DOMAIN ProgramSeq(s) :
             \/ \E j \in SlotsOf(s, ProgramSeq(s)[i]) : w \in SlotWrites(s, ProgramSeq(s)[i], j)
             \/ w = <<DmaAddress(ProgramSeq(s)[i]), Cardinality(SlotsOf(s, ProgramSeq(s)[i]))>>
<1>1. w \in ExpectedDma(s) <=>
        \E p \in ProgramsOf(s) :
          \/ w = <<DmaAddress(p), Cardinality(SlotsOf(s, p))>>
          \/ \E j \in SlotsOf(s, p) :
               \/ w = <<MappingAddress(DmaAddress(p), SlotRank(s, p, j)), SlotMapping(Slots(s)[j])>>
               \/ w = <<MetadataAddress(DmaAddress(p), SlotRank(s, p, j)), SlotMetadata(Slots(s)[j])>>
  BY DEF ExpectedDma
<1>2. w \in ExpectedFills(s) <=>
        \E p \in ProgramsOf(s) : \E j \in (SlotsOf(s, p) \intersect Initialised(s)) \ PastEnd(s) :
          \/ w = <<DmaAddress(p) + 8, SlotRank(s, p, j)>>
          \/ w = <<DmaAddress(p) + 4, InitialOf(s, j)[Slots(s)[j].source_channel + 1]>>
  BY DEF ExpectedFills
<1>3. ASSUME NEW p, NEW j
      PROVE  w \in SlotWrites(s, p, j) <=>
               \/ w = <<MappingAddress(DmaAddress(p), SlotRank(s, p, j)), SlotMapping(Slots(s)[j])>>
               \/ w = <<MetadataAddress(DmaAddress(p), SlotRank(s, p, j)), SlotMetadata(Slots(s)[j])>>
               \/ /\ j \in Initialised(s) \ PastEnd(s)
                  /\ \/ w = <<DmaAddress(p) + 8, SlotRank(s, p, j)>>
                     \/ w = <<DmaAddress(p) + 4, InitialOf(s, j)[Slots(s)[j].source_channel + 1]>>
  BY DEF SlotWrites
<1>4. w \in ExpectedDma(s) \union ExpectedFills(s) <=>
        \E p \in ProgramsOf(s) :
          \/ \E j \in SlotsOf(s, p) : w \in SlotWrites(s, p, j)
          \/ w = <<DmaAddress(p), Cardinality(SlotsOf(s, p))>>
  BY <1>1, <1>2, <1>3
<1> QED BY <1>4, ProgramPosition

\* The memory values of a core.
LEMMA ExpectedMemories ==
  ASSUME NEW s, NEW w
  PROVE  w \in ExpectedMemory(s) <=>
           \E i \in DOMAIN ProgramSeq(s) : \E j \in DOMAIN MemoryOf(s, ProgramSeq(s)[i]) :
             w \in MemoryWrites(ProgramSeq(s)[i], MemoryOf(s, ProgramSeq(s)[i])[j])
<1>1. w \in ExpectedMemory(s) <=>
        \E p \in ProgramsOf(s) : \E m \in Range(SpecData[s].memories[p.name]) :
          w \in MemoryWrites(p, m)
  BY DEF ExpectedMemory, MemoryWrites
<1>2. ASSUME NEW p
      PROVE  (\E m \in Range(SpecData[s].memories[p.name]) : w \in MemoryWrites(p, m)) <=>
             \E j \in DOMAIN MemoryOf(s, p) : w \in MemoryWrites(p, MemoryOf(s, p)[j])
  BY DEF MemoryOf, Range
<1> QED BY <1>1, <1>2, ProgramPosition

\* The inputs, and the numbers of random ones.
LEMMA ExpectedUses ==
  ASSUME NEW s, NEW w
  PROVE  w \in ExpectedConstants(s) \union ExpectedNoise(s) \union ExpectedWaves(s) <=>
           \/ \E u \in Uses(s) : UseWrites(s, u, w)
           \/ \E i \in DOMAIN ProgramSeq(s) :
                NoiseCount(s, i) # 0 /\ w = <<Bases.noise_generator, NoiseCount(s, i)>>
<1>1. w \in ExpectedConstants(s) <=>
        \E u \in Uses(s) : IsConstant(UsedInput(s, u)) /\ w \in ConstantWrites(s, u)
  BY DEF ExpectedConstants, ConstantUses, ConstantWrites
<1>2. w \in ExpectedNoise(s) <=>
        \/ \E u \in Uses(s) : UsedInput(s, u).source_type = "random" /\ w \in NoiseWrites(s, u)
        \/ \E i \in DOMAIN ProgramSeq(s) :
             NoiseCount(s, i) # 0 /\ w = <<Bases.noise_generator, NoiseCount(s, i)>>
  <2>1. NoiseCounts(s) = {NoiseCount(s, i) : i \in DOMAIN ProgramSeq(s)} \ {0}
    BY DEF NoiseCounts, NoiseCount
  <2>2. w \in ExpectedNoise(s) <=>
          \/ \E u \in UsesOf(s, "random") : w \in NoiseWrites(s, u)
          \/ \E n \in NoiseCounts(s) : w = <<Bases.noise_generator, n>>
    BY DEF ExpectedNoise, NoiseWrites
  <2>3. ASSUME NEW u
        PROVE  u \in UsesOf(s, "random") <=> u \in Uses(s) /\ UsedInput(s, u).source_type = "random"
    BY DEF UsesOf
  <2> QED BY <2>1, <2>2, <2>3
<1>3. w \in ExpectedWaves(s) <=>
        \E u \in Uses(s) : UsedInput(s, u).source_type = "waveform" /\ w \in WaveWrites(s, u)
  <2>1. w \in ExpectedWaves(s) <=> \E u \in UsesOf(s, "waveform") : w \in WaveWrites(s, u)
    BY DEF ExpectedWaves, WaveWrites
  <2> QED BY <2>1 DEF UsesOf
<1> QED BY <1>1, <1>2, <1>3 DEF UseWrites

\* Whatever is written before the sequencer is enabled is one of these.
Called(s, w) ==
  \/ \E i \in DOMAIN ProgramSeq(s) :
       \/ \E j \in SlotsOf(s, ProgramSeq(s)[i]) : w \in SlotWrites(s, ProgramSeq(s)[i], j)
       \/ w = <<DmaAddress(ProgramSeq(s)[i]), Cardinality(SlotsOf(s, ProgramSeq(s)[i]))>>
  \/ \E i \in DOMAIN ProgramSeq(s) : \E j \in DOMAIN MemoryOf(s, ProgramSeq(s)[i]) :
       w \in MemoryWrites(ProgramSeq(s)[i], MemoryOf(s, ProgramSeq(s)[i])[j])
  \/ \E u \in Uses(s) : UseWrites(s, u, w)
  \/ \E i \in DOMAIN ProgramSeq(s) :
       NoiseCount(s, i) # 0 /\ w = <<Bases.noise_generator, NoiseCount(s, i)>>

LEMMA BeforeEnableWrites == \A s, w : w \in BeforeEnable(s) <=> Called(s, w)
<1> SUFFICES ASSUME NEW s, NEW w PROVE w \in BeforeEnable(s) <=> Called(s, w)
  OBVIOUS
<1>1. w \in BeforeEnable(s) <=>
        \/ w \in ExpectedDma(s) \union ExpectedFills(s)
        \/ w \in ExpectedMemory(s)
        \/ w \in ExpectedConstants(s) \union ExpectedNoise(s) \union ExpectedWaves(s)
  BY DEF BeforeEnable
<1> QED BY <1>1, ExpectedSlots, ExpectedMemories, ExpectedUses DEF Called

\* Past the loops all that is due has been written, and nothing else.
LEMMA DueBeforeEnable ==
  ASSUME NEW c, NEW w
  PROVE  /\ DueSlot(c, w) \/ DueDma(c, w) \/ DueMemory(c, w) \/ DueUse(c, w) \/ DueNoise(c, w)
              => w \in BeforeEnable(c.spec)
         /\ c.phase \in AfterInputs /\ w \in BeforeEnable(c.spec) => Due(c, w)
<1>1. DueSlot(c, w) \/ DueDma(c, w) \/ DueMemory(c, w) \/ DueUse(c, w) \/ DueNoise(c, w)
        => w \in BeforeEnable(c.spec)
  BY BeforeEnableWrites DEF Called, DueSlot, DueDma, DueMemory, DueUse, DueNoise
<1>2. ASSUME c.phase \in AfterInputs, w \in BeforeEnable(c.spec)
      PROVE  Due(c, w)
  <2>1. \A i : /\ Passed(c, "output_dma", AfterDma, i) /\ Passed(c, "memories", AfterMemories, i)
               /\ Passed(c, "inputs", AfterInputs, i)
    BY <1>2 DEF Passed, AfterInputs, AfterMemories, AfterDma
  <2>2. CASE \E i \in DOMAIN ProgramSeq(c.spec) :
               \E j \in SlotsOf(c.spec, ProgramSeq(c.spec)[i]) :
                 w \in SlotWrites(c.spec, ProgramSeq(c.spec)[i], j)
    BY <2>1, <2>2 DEF Due, DueSlot
  <2>3. CASE \E i \in DOMAIN ProgramSeq(c.spec) :
               w = <<DmaAddress(ProgramSeq(c.spec)[i]),
                     Cardinality(SlotsOf(c.spec, ProgramSeq(c.spec)[i]))>>
    BY <2>1, <2>3 DEF Due, DueDma
  <2>4. CASE \E i \in DOMAIN ProgramSeq(c.spec) :
               \E j \in DOMAIN MemoryOf(c.spec, ProgramSeq(c.spec)[i]) :
                 w \in MemoryWrites(ProgramSeq(c.spec)[i], MemoryOf(c.spec, ProgramSeq(c.spec)[i])[j])
    BY <2>1, <2>4 DEF Due, DueMemory
  <2>5. CASE \E u \in Uses(c.spec) : UseWrites(c.spec, u, w)
    BY <1>2, <2>5 DEF Due, DueUse
  <2>6. CASE \E i \in DOMAIN ProgramSeq(c.spec) :
               /\ NoiseCount(c.spec, i) # 0
               /\ w = <<Bases.noise_generator, NoiseCount(c.spec, i)>>
    BY <2>1, <2>6 DEF Due, DueNoise
  <2> QED BY <1>2, <2>2, <2>3, <2>4, <2>5, <2>6, BeforeEnableWrites DEF Called
<1> QED BY <1>1, <1>2

\* At the end everything is.
LEMMA DueAtFinish ==
  ASSUME NEW c, c.phase = "finish", NEW w \in Expected(c.spec)
  PROVE  Due(c, w)
<1>1. CASE w \in BeforeEnable(c.spec)
  BY <1>1, DueBeforeEnable DEF AfterInputs
<1>2. CASE w \in ExpectedSequencer(c.spec)
  BY <1>2 DEF Due, DueSequencer, AfterSequencer
<1>3. CASE w \in ExpectedCores(c.spec)
  <2>1. \E i \in DOMAIN ProgramSeq(c.spec) : w = <<CoreControl(ProgramSeq(c.spec)[i]), FULL_CORES>>
    BY <1>3, ProgramPosition DEF ExpectedCores
  <2> QED BY <2>1 DEF Due, DueCore, Passed
<1> QED BY <1>1, <1>2, <1>3 DEF Expected

----------------------------------------------------------------------------
(* While the address map stays, so does what is due *)

\* The addresses of a core's registers.
LEMMA AddressesKept ==
  ASSUME UNCHANGED addresses
  PROVE  /\ Bases' = Bases /\ Controller' = Controller /\ HilTimebase' = HilTimebase
         /\ \A p : /\ RomAddress(p)' = RomAddress(p) /\ CoreControl(p)' = CoreControl(p)
                   /\ DmaAddress(p)' = DmaAddress(p) /\ ConstEngine(p)' = ConstEngine(p)
BY DEF Bases, Offsets, Controller, HilTimebase, RomAddress, CoreControl, DmaAddress, ConstEngine

\* What one slot, memory value or input is written as.
LEMMA WritesKept ==
  ASSUME UNCHANGED addresses, NEW CONSTANT s
  PROVE  /\ \A p, j : SlotWrites(s, p, j)' = SlotWrites(s, p, j)
         /\ \A p, m : MemoryWrites(p, m)' = MemoryWrites(p, m)
         /\ \A u, w : UseWrites(s, u, w)' <=> UseWrites(s, u, w)
         /\ ExpectedSequencer(s)' = ExpectedSequencer(s)
         /\ ExpectedCores(s)' = ExpectedCores(s)
         /\ ExpectedRoms(s)' = ExpectedRoms(s)
<1> USE AddressesKept
<1>1. \A p, j : SlotWrites(s, p, j)' = SlotWrites(s, p, j)
  BY DEF SlotWrites
<1>2. ASSUME NEW CONSTANT p, NEW CONSTANT m PROVE MemoryWrites(p, m)' = MemoryWrites(p, m)
  <2>1. CoreControl(p)' = CoreControl(p)
    OBVIOUS
  <2> QED BY ONLY <2>1, Zenon DEF MemoryWrites
<1>3. \A u, w : UseWrites(s, u, w)' <=> UseWrites(s, u, w)
  BY DEF UseWrites, ConstantWrites, NoiseWrites, WaveWrites, UseEngine
<1>4. ExpectedSequencer(s)' = ExpectedSequencer(s)
  <2>1. ASSUME NEW CONSTANT ps, NEW CONSTANT t
        PROVE  SequencerStores(ps, t)' = SequencerStores(ps, t)
    BY DEF SequencerStores
  <2> QED BY <2>1 DEF ExpectedSequencer
<1>5. ExpectedCores(s)' = ExpectedCores(s)
  BY DEF ExpectedCores
<1>6. ExpectedRoms(s)' = ExpectedRoms(s)
  BY DEF ExpectedRoms
<1> QED BY <1>1, <1>2, <1>3, <1>4, <1>5, <1>6

\* The same of the next state.
LEMMA BeforeEnableWritesNext == (\A s, w : w \in BeforeEnable(s) <=> Called(s, w))'
BY BeforeEnableWrites, PTL

\* What is written before the sequencer is enabled.
LEMMA BeforeEnableKept ==
  ASSUME UNCHANGED addresses, NEW CONSTANT s, NEW CONSTANT w
  PROVE  (w \in BeforeEnable(s))' <=> w \in BeforeEnable(s)
<1>1. Called(s, w)' <=> Called(s, w)
  BY AddressesKept, WritesKept DEF Called
<1> QED BY <1>1, BeforeEnableWrites, BeforeEnableWritesNext

\* What is due, and all there is to write.
LEMMA DueKept ==
  ASSUME UNCHANGED addresses, NEW CONSTANT c, NEW CONSTANT w
  PROVE  /\ Due(c, w)' <=> Due(c, w)
         /\ DueRom(c, w)' <=> DueRom(c, w)
         /\ (w \in BeforeEnable(c.spec))' <=> w \in BeforeEnable(c.spec)
         /\ (w \in Expected(c.spec))' <=> w \in Expected(c.spec)
<1> USE AddressesKept, WritesKept
<1>1. /\ DueSlot(c, w)' <=> DueSlot(c, w)
      /\ DueDma(c, w)' <=> DueDma(c, w)
  BY DEF DueSlot, DueDma
<1>2. DueMemory(c, w)' <=> DueMemory(c, w)
  BY DEF DueMemory
<1>3. DueUse(c, w)' <=> DueUse(c, w)
  BY DEF DueUse
<1>4. DueNoise(c, w)' <=> DueNoise(c, w)
  BY DEF DueNoise
<1>5. /\ DueSequencer(c, w)' <=> DueSequencer(c, w)
      /\ DueCore(c, w)' <=> DueCore(c, w)
      /\ DueRom(c, w)' <=> DueRom(c, w)
  BY DEF DueSequencer, DueCore, DueRom
<1>6. (w \in BeforeEnable(c.spec))' <=> w \in BeforeEnable(c.spec)
  BY BeforeEnableKept
<1> QED BY <1>1, <1>2, <1>3, <1>4, <1>5, <1>6 DEF Due, Expected

\* What may be in the log, while initial values are not added either.
LEMMA ExplainedKept ==
  ASSUME UNCHANGED <<addresses, ivs>>, NEW CONSTANT c, NEW CONSTANT w
  PROVE  Explained(c, w)' <=> Explained(c, w)
<1>1. \A s : Unclear(s)' <=> Unclear(s)
  BY DEF Unclear, StaleInitialValue
<1>2. StrayFill(c.spec, w)' <=> StrayFill(c.spec, w)
  BY <1>1, AddressesKept DEF StrayFill
<1>3. (w \in BeforeEnable(c.spec))' <=> w \in BeforeEnable(c.spec)
  BY BeforeEnableKept
<1> QED BY <1>2, <1>3, WritesKept DEF Explained

----------------------------------------------------------------------------
(* The log *)

\* A run of stores deploy() makes.
AreStores(stores) == IsSequence(stores) /\ \A x \in Range(stores) : x = <<x[1], x[2]>>

LEMMA SequenceIntro ==
  ASSUME NEW S, NEW x \in Seq(S)
  PROVE  IsSequence(x) /\ Range(x) \subseteq S
<1>1. Len(x) \in Nat /\ DOMAIN x = 1 .. Len(x) /\ x = [i \in 1 .. Len(x) |-> x[i]]
  OBVIOUS
<1>2. \A i \in 1 .. Len(x) : x[i] \in Range(x)
  BY <1>1 DEF Range
<1>3. x \in Seq(Range(x))
  BY <1>1, <1>2
<1> QED BY <1>3 DEF IsSequence, Range

\* Concatenation.
LEMMA RangeOfConcat ==
  ASSUME NEW x, NEW y, IsSequence(x), IsSequence(y)
  PROVE  IsSequence(x \o y) /\ Range(x \o y) = Range(x) \union Range(y)
<1>1. x \in Seq(Range(x) \union Range(y)) /\ y \in Seq(Range(x) \union Range(y))
  BY DEF IsSequence
<1>2. /\ x \o y \in Seq(Range(x) \union Range(y)) /\ Len(x \o y) = Len(x) + Len(y)
      /\ \A i \in 1 .. Len(x) + Len(y) :
           (x \o y)[i] = IF i <= Len(x) THEN x[i] ELSE y[i - Len(x)]
  BY <1>1
<1>3. IsSequence(x \o y) /\ Range(x \o y) \subseteq Range(x) \union Range(y)
  BY <1>2, SequenceIntro
<1>4. Len(x) \in Nat /\ Len(y) \in Nat /\ DOMAIN x = 1 .. Len(x) /\ DOMAIN y = 1 .. Len(y)
      /\ DOMAIN (x \o y) = 1 .. Len(x) + Len(y)
  BY <1>1, <1>2
<1>5. ASSUME NEW i \in DOMAIN x PROVE x[i] \in Range(x \o y)
  <2>1. i \in DOMAIN (x \o y) /\ (x \o y)[i] = x[i]
    BY <1>2, <1>4
  <2> QED BY <2>1 DEF Range
<1>6. ASSUME NEW i \in DOMAIN y PROVE y[i] \in Range(x \o y)
  <2>1. i + Len(x) \in DOMAIN (x \o y) /\ (x \o y)[i + Len(x)] = y[i]
    BY <1>2, <1>4
  <2> QED BY <2>1 DEF Range
<1> QED BY <1>3, <1>5, <1>6 DEF Range

\* The writes of a longer log.
LEMMA WritesOfConcat ==
  ASSUME NEW x, NEW y, IsSequence(x), IsSequence(y)
  PROVE  /\ ControlWrites(x \o y) = ControlWrites(x) \union ControlWrites(y)
         /\ RomWrites(x \o y) = RomWrites(x) \union RomWrites(y)
BY RangeOfConcat DEF ControlWrites, RomWrites

\* The log entries of a run of stores.
LEMMA WritesOfStores ==
  ASSUME NEW stores, AreStores(stores)
  PROVE  LET entries == [i \in DOMAIN stores |->
                           BusOp(<<stores[i][1]>>, <<stores[i][2]>>, "control_plane_write")]
         IN IsSequence(entries) /\ ControlWrites(entries) = Range(stores) /\ RomWrites(entries) = {}
<1> DEFINE entry(i) == BusOp(<<stores[i][1]>>, <<stores[i][2]>>, "control_plane_write")
           entries == [i \in DOMAIN stores |-> entry(i)]
<1>1. Len(stores) \in Nat /\ DOMAIN stores = 1 .. Len(stores)
  BY SequenceDomain DEF AreStores
<1>2. entries \in Seq({entry(i) : i \in DOMAIN stores})
  BY <1>1
<1>3. IsSequence(entries)
  BY <1>2, SequenceIntro
<1>4. Range(entries) = {entry(i) : i \in DOMAIN stores}
  BY DEF Range
<1>5. \A i : entry(i).type = "control_plane_write" /\ entry(i).address[1] = stores[i][1]
             /\ entry(i).data[1] = stores[i][2]
  BY DEF BusOp
<1>6. \A i \in DOMAIN stores : stores[i] = <<stores[i][1], stores[i][2]>>
  BY DEF AreStores, Range
<1> HIDE DEF entry
<1>7. RomWrites(entries) = {}
  BY <1>4, <1>5 DEF RomWrites
<1>8. ControlWrites(entries) = {<<entry(i).address[1], entry(i).data[1]>> : i \in DOMAIN stores}
  BY <1>4, <1>5 DEF ControlWrites
<1>9. ControlWrites(entries) = {stores[i] : i \in DOMAIN stores}
  BY <1>5, <1>6, <1>8
<1> QED BY <1>3, <1>7, <1>9 DEF Range, entry

\* fpga_bridge::write_direct logs each store, whether or not it reaches the bus.
LEMMA WritesLogged ==
  ASSUME IsSequence(operations), NEW stores, AreStores(stores), write_direct_all(stores)
  PROVE  /\ IsSequence(operations')
         /\ RomWrites(operations') = RomWrites(operations)
         /\ ControlWrites(operations') =
              IF fpga_loaded THEN ControlWrites(operations) \union Range(stores)
              ELSE ControlWrites(operations)
         /\ UNCHANGED fpga_loaded
<1>1. CASE fpga_loaded
  <2> DEFINE entries == [i \in DOMAIN stores |->
               BusOp(<<stores[i][1]>>, <<stores[i][2]>>, "control_plane_write")]
  <2>1. operations' = operations \o entries /\ UNCHANGED fpga_loaded
    BY <1>1 DEF write_direct_all, write_registers
  <2>2. IsSequence(entries) /\ ControlWrites(entries) = Range(stores) /\ RomWrites(entries) = {}
    BY WritesOfStores
  <2> HIDE DEF entries
  <2>3. /\ IsSequence(operations \o entries)
        /\ ControlWrites(operations \o entries) = ControlWrites(operations) \union Range(stores)
        /\ RomWrites(operations \o entries) = RomWrites(operations) \union {}
    BY <2>2, RangeOfConcat, WritesOfConcat
  <2> QED BY <1>1, <2>1, <2>3
<1>2. CASE ~fpga_loaded
  BY <1>2 DEF write_direct_all, busVars
<1> QED BY <1>1, <1>2

----------------------------------------------------------------------------
(* Initial values *)

\* The initial value of a slot is a vector.
LEMMA InitialValueIsSequence ==
  ASSUME NEW s \in Specs, NEW key \in DOMAIN InitialValues(s)
  PROVE  IsSequence(InitialValues(s)[key])
<1> DEFINE feeding == {j \in DOMAIN Slots(s) : FedBy(s, Slots(s)[j]) # {}}
           last == Max({j \in feeding : SlotKey(Slots(s)[j]) = key})
           f == CHOOSE g \in FedBy(s, Slots(s)[last]) : TRUE
<1>1. key \in {SlotKey(Slots(s)[j]) : j \in feeding} /\ InitialValues(s)[key] = DefaultOf(f)
  BY DEF InitialValues
<1>2. last \in feeding
  <2>1. {j \in feeding : SlotKey(Slots(s)[j]) = key} # {}
    BY <1>1
  <2>2. {j \in feeding : SlotKey(Slots(s)[j]) = key} \in SUBSET (1 .. Len(Slots(s)))
        /\ Len(Slots(s)) \in Nat
    BY SpecSequences
  <2> HIDE DEF feeding
  <2> QED BY <2>1, <2>2, LargestExists
<1>3. f \in FedBy(s, Slots(s)[last])
  BY <1>2
<1> HIDE DEF feeding, last, f
<1>4. PICK p \in Range(SpecData[s].programs) : \E x \in Range(p.inputs) : f = <<p, x>>
  BY <1>3 DEF FedBy
<1>5. PICK x \in Range(p.inputs) : f = <<p, x>>
  BY <1>4
<1>6. IsSequence(x.data) /\ p.n_channels \in Nat
  BY <1>4, <1>5, SpecAssumption
<1>7. IsSequence([c \in 1 .. p.n_channels |-> x.data[1]])
  <2>1. [c \in 1 .. p.n_channels |-> x.data[1]] \in Seq({x.data[1]})
    BY <1>6
  <2> QED BY <2>1, SequenceIntro
<1> QED BY <1>1, <1>5, <1>6, <1>7 DEF DefaultOf

\* The initial value of a slot is read past its end exactly where PastEnd says.
LEMMA PastEndOfVector ==
  ASSUME NEW s \in Specs, NEW j \in Initialised(s)
  PROVE  j \in PastEnd(s) <=> Slots(s)[j].source_channel + 1 \notin DOMAIN InitialOf(s, j)
<1>1. IsSequence(InitialOf(s, j))
  BY InitialValueIsSequence DEF Initialised, InitialOf
<1>2. Slots(s)[j].source_channel \in Nat
  BY SpecAssumption DEF Initialised, Slots, Range
<1>3. Len(InitialOf(s, j)) \in Nat /\ DOMAIN InitialOf(s, j) = 1 .. Len(InitialOf(s, j))
  BY <1>1, SequenceDomain
<1> QED BY <1>2, <1>3 DEF PastEnd

----------------------------------------------------------------------------
(* What is logged is in the hardware *)

\* The register of every logged write keeps what the last write to it stored.
RegistersFollow ==
  \A w \in ControlWrites(operations) : w[1] \in Int =>
    /\ ControlMapped(w[1])
    /\ \E x \in ControlWrites(operations) :
         /\ register_address_to_index(x[1]) = register_address_to_index(w[1])
         /\ registers[register_address_to_index(w[1])] = x[2]

\* And so does program memory, word by word.
RomsFollow ==
  (\A r \in RomWrites(operations) : r[1] \in Int) =>
    \A r \in RomWrites(operations) : \A n \in DOMAIN r[2] :
      /\ CoreMapped(r[1], n - 1)
      /\ \E q \in RomWrites(operations) : \E m \in DOMAIN q[2] :
           /\ fcore_address_to_index(q[1]) + m = fcore_address_to_index(r[1]) + n
           /\ fCore[fcore_address_to_index(r[1]) + n - 1] = q[2][m]

HardwareFollows ==
  /\ \A r \in RomWrites(operations) : IsSequence(r[2])
  /\ RegistersFollow /\ RomsFollow

\* A mapped address has a register.
LEMMA MappedRegister ==
  ASSUME NEW a \in Int, ControlMapped(a)
  PROVE  register_address_to_index(a) \in 0 .. ControlWords - 1
BY BusAssumption DEF ControlMapped, register_address_to_index

\* Of the stores to one register there is a last.
LEMMA LastStore ==
  ASSUME NEW stores, IsSequence(stores), NEW k, NEW i \in DOMAIN stores,
         register_address_to_index(stores[i][1]) = k
  PROVE  LastHit(stores, DOMAIN stores, k) # {}
<1> DEFINE hits == {j \in DOMAIN stores : register_address_to_index(stores[j][1]) = k}
<1>1. Len(stores) \in Nat /\ hits \in SUBSET (1 .. Len(stores)) /\ hits # {}
  BY SequenceDomain
<1>2. PICK j \in hits : \A n \in hits : n <= j
  <2> HIDE DEF hits
  <2>1. Max(hits) \in hits /\ \A y \in hits : Max(hits) >= y
    BY <1>1, LargestExists
  <2>2. \A y \in hits : y \in Nat
    BY <1>1
  <2>3. PICK m : m = Max(hits)
    OBVIOUS
  <2>4. m \in hits /\ \A n \in hits : n <= m
    BY <2>1, <2>2, <2>3
  <2> QED BY <2>4
<1>3. j \in LastHit(stores, DOMAIN stores, k)
  BY <1>2 DEF LastHit
<1> QED BY <1>3

\* The stores of fpga_bridge::write_direct reach their registers.
LEMMA WritesReach ==
  ASSUME HardwareFollows, IsSequence(operations), ~sink_mode, NEW stores, AreStores(stores),
         write_direct_all(stores), up'
  PROVE  HardwareFollows'
<1>1. /\ RomWrites(operations') = RomWrites(operations) /\ UNCHANGED fCore
      /\ ControlWrites(operations') = IF fpga_loaded THEN ControlWrites(operations) \union Range(stores)
                                      ELSE ControlWrites(operations)
  BY WritesLogged DEF write_direct_all, write_registers, busVars
<1>2. RomsFollow' /\ \A r \in RomWrites(operations') : IsSequence(r[2])
  BY <1>1 DEF HardwareFollows, RomsFollow
<1>3. SUFFICES RegistersFollow'
  BY <1>2 DEF HardwareFollows
<1>4. CASE ~fpga_loaded
  BY <1>1, <1>4 DEF HardwareFollows, RegistersFollow, write_direct_all, busVars
<1>5. CASE fpga_loaded
  <2>1. registers' = Stored(stores) /\ Performed(stores) = DOMAIN stores
    BY <1>5 DEF write_direct_all, write_registers
  <2>2. \A j \in DOMAIN stores : ControlMapped(stores[j][1]) /\ stores[j] \in Range(stores)
    <3>1. Len(stores) \in Nat /\ DOMAIN stores = 1 .. Len(stores)
      BY SequenceDomain DEF AreStores
    <3>2. ASSUME NEW j \in DOMAIN stores PROVE ControlMapped(stores[j][1])
      <4>1. j \in Performed(stores) /\ j \in 1 .. j
        BY <2>1, <3>1
      <4> QED BY <4>1 DEF Performed
    <3> QED BY <3>2 DEF Range
  <2>3. SUFFICES ASSUME NEW w \in ControlWrites(operations'), w[1] \in Int
        PROVE  /\ ControlMapped(w[1])
               /\ \E x \in ControlWrites(operations') :
                    /\ register_address_to_index(x[1]) = register_address_to_index(w[1])
                    /\ registers'[register_address_to_index(w[1])] = x[2]
    BY DEF RegistersFollow
  <2> DEFINE k == register_address_to_index(w[1])
             last == CHOOSE i \in LastHit(stores, DOMAIN stores, k) : TRUE
  <2>4. ControlMapped(w[1])
    BY <1>1, <1>5, <2>2, <2>3 DEF HardwareFollows, RegistersFollow, Range
  <2>5. k \in 0 .. ControlWords - 1
    BY <2>3, <2>4, MappedRegister
  <2>6. registers'[k] = IF LastHit(stores, DOMAIN stores, k) = {} THEN registers[k] ELSE stores[last][2]
    BY <2>1, <2>5 DEF Stored
  <2>7. CASE LastHit(stores, DOMAIN stores, k) # {}
    <3>1. last \in LastHit(stores, DOMAIN stores, k)
      BY <2>7
    <3> HIDE DEF last
    <3>2. last \in DOMAIN stores /\ register_address_to_index(stores[last][1]) = k
      BY <3>1 DEF LastHit
    <3>3. stores[last] \in ControlWrites(operations')
      BY <1>1, <1>5, <2>2, <3>2
    <3> QED BY <2>4, <2>6, <2>7, <3>2, <3>3
  <2>8. CASE LastHit(stores, DOMAIN stores, k) = {}
    <3>1. w \notin Range(stores)
      BY <2>8, LastStore DEF Range, AreStores
    <3>2. w \in ControlWrites(operations)
      BY <1>1, <1>5, <3>1
    <3>3. PICK x \in ControlWrites(operations) :
            register_address_to_index(x[1]) = k /\ registers[k] = x[2]
      BY <2>3, <3>2 DEF HardwareFollows, RegistersFollow
    <3> QED BY <1>1, <1>5, <2>4, <2>6, <2>8, <3>3
  <2> QED BY <2>7, <2>8
<1> QED BY <1>4, <1>5

\* The words of a program that is loaded are in program memory.
LEMMA ProgramReaches ==
  ASSUME HardwareFollows, ~sink_mode, NEW address, NEW program, IsSequence(program),
         load_program(address, program), up',
         ControlWrites(operations') = ControlWrites(operations),
         RomWrites(operations') = RomWrites(operations) \union {<<address, program>>}
  PROVE  HardwareFollows'
<1> DEFINE written == {i \in DOMAIN program : \A j \in 1 .. i : CoreMapped(address, j - 1)}
           f == fcore_address_to_index(address)
           new == <<address, program>>
<1>1. UNCHANGED registers /\ \A r \in RomWrites(operations') : IsSequence(r[2])
  BY DEF HardwareFollows, load_program
<1>2. RegistersFollow'
  BY <1>1 DEF HardwareFollows, RegistersFollow
<1>3. SUFFICES ASSUME \A r \in RomWrites(operations') : r[1] \in Int,
                      NEW r \in RomWrites(operations'), NEW n \in DOMAIN r[2]
      PROVE  /\ CoreMapped(r[1], n - 1)
             /\ \E q \in RomWrites(operations') : \E m \in DOMAIN q[2] :
                  /\ fcore_address_to_index(q[1]) + m = fcore_address_to_index(r[1]) + n
                  /\ fCore'[fcore_address_to_index(r[1]) + n - 1] = q[2][m]
  BY <1>1, <1>2 DEF HardwareFollows, RomsFollow
<1>4. /\ written = DOMAIN program
      /\ fCore' = [k \in 0 .. CoreWords - 1 |->
                     IF \E i \in written : f + i - 1 = k THEN program[k - f + 1] ELSE fCore[k]]
  BY DEF load_program
<1>5. \A i \in DOMAIN program : i \in Nat \ {0} /\ CoreMapped(address, i - 1)
  <2>1. DOMAIN program = 1 .. Len(program) /\ Len(program) \in Nat
    BY SequenceDomain
  <2>2. ASSUME NEW i \in DOMAIN program PROVE CoreMapped(address, i - 1)
    <3>1. i \in written /\ i \in 1 .. i
      BY <1>4, <2>1
    <3> QED BY <3>1
  <2> QED BY <2>1, <2>2
<1> HIDE DEF written
<1>6. new[1] = address /\ new[2] = program /\ new \in RomWrites(operations')
  OBVIOUS
<1>7. /\ r[1] \in Int /\ address \in Int /\ n \in Nat \ {0}
  <2>1. n \in Nat \ {0}
    BY <1>1, SequenceDomain
  <2> QED BY <1>3, <1>6, <2>1
<1>8. r # new => r \in RomWrites(operations) /\ \A q \in RomWrites(operations) : q[1] \in Int
  BY <1>3
<1>9. r # new => /\ CoreMapped(r[1], n - 1)
                 /\ \E q \in RomWrites(operations) : \E m \in DOMAIN q[2] :
                      /\ fcore_address_to_index(q[1]) + m = fcore_address_to_index(r[1]) + n
                      /\ fCore[fcore_address_to_index(r[1]) + n - 1] = q[2][m]
  BY <1>8 DEF HardwareFollows, RomsFollow
<1>10. CoreMapped(r[1], n - 1)
  BY <1>3, <1>5, <1>6, <1>9
<1> DEFINE k == fcore_address_to_index(r[1]) + n - 1
<1>11. /\ k \in 0 .. CoreWords - 1 /\ f \in Int /\ fcore_address_to_index(r[1]) \in Int
  BY <1>7, <1>10, BusAssumption DEF CoreMapped, fcore_address_to_index
<1> HIDE DEF f
<1>12. CASE \E i \in written : f + i - 1 = k
  <2>1. PICK i \in DOMAIN program : f + i - 1 = k
    BY <1>4, <1>12
  <2>2. i \in Nat /\ k - f + 1 = i /\ f + i = fcore_address_to_index(r[1]) + n
    BY <1>5, <1>7, <1>11, <2>1
  <2>3. fCore'[k] = program[i]
    BY <1>4, <1>11, <1>12, <2>2
  <2> QED BY <1>6, <1>10, <2>2, <2>3 DEF f
<1>13. CASE ~ \E i \in written : f + i - 1 = k
  <2>1. r # new
    BY <1>4, <1>6, <1>13 DEF f
  <2>2. fCore'[k] = fCore[k]
    BY <1>4, <1>11, <1>13
  <2> QED BY <1>9, <2>1, <2>2
<1> QED BY <1>12, <1>13

\* Steps that reach neither.
LEMMA HardwareStays ==
  ASSUME HardwareFollows, UNCHANGED <<registers, fCore>>,
         ControlWrites(operations') = ControlWrites(operations),
         RomWrites(operations') = RomWrites(operations)
  PROVE  HardwareFollows'
BY DEF HardwareFollows, RegistersFollow, RomsFollow

----------------------------------------------------------------------------
(* The counters of the loops *)

\* A core's slots are numbered as the loop over bus_map meets them.
LEMMA SlotRankSteps ==
  ASSUME NEW s \in Specs, NEW p
  PROVE  /\ SlotRank(s, p, 1) = 0
         /\ \A j \in DOMAIN Slots(s) :
              SlotRank(s, p, j + 1) = IF Slots(s)[j].source_id = p.name
                                        THEN SlotRank(s, p, j) + 1 ELSE SlotRank(s, p, j)
         /\ \A j \in Nat : j > Len(Slots(s)) => SlotRank(s, p, j) = Cardinality(SlotsOf(s, p))
<1> DEFINE below(j) == {i \in SlotsOf(s, p) : i < j}
<1>1. SlotsOf(s, p) \subseteq 1 .. Len(Slots(s)) /\ Len(Slots(s)) \in Nat
  BY SpecSequences DEF SlotsOf
<1>2. IsFiniteSet(1 .. Len(Slots(s)))
  BY <1>1, FS_Interval
<1>3. \A j : IsFiniteSet(below(j))
  <2>1. \A j : below(j) \in SUBSET (1 .. Len(Slots(s)))
    BY <1>1
  <2> QED BY <1>2, <2>1, FS_Subset
<1>4. below(1) = {}
  BY <1>1
<1>5. ASSUME NEW j \in DOMAIN Slots(s)
      PROVE  Cardinality(below(j + 1)) = IF Slots(s)[j].source_id = p.name
                                           THEN Cardinality(below(j)) + 1 ELSE Cardinality(below(j))
  <2>1. j \in Nat /\ \A i \in SlotsOf(s, p) : i \in Nat
    BY <1>1, SpecSequences
  <2>2. j \in SlotsOf(s, p) <=> Slots(s)[j].source_id = p.name
    BY DEF SlotsOf
  <2>3. j \notin below(j)
    BY <2>1
  <2>4. CASE j \in SlotsOf(s, p)
    <3>1. \A i \in SlotsOf(s, p) : i < j + 1 <=> i < j \/ i = j
      BY <2>1
    <3>2. below(j + 1) = below(j) \union {j}
      BY <2>4, <3>1
    <3> HIDE DEF below
    <3> QED BY <1>3, <2>2, <2>3, <2>4, <3>2, FS_AddElement
  <2>5. CASE j \notin SlotsOf(s, p)
    <3>1. below(j + 1) = below(j)
      BY <2>1, <2>5
    <3> QED BY <2>2, <2>5, <3>1
  <2> QED BY <2>4, <2>5
<1>6. ASSUME NEW j \in Nat, j > Len(Slots(s))
      PROVE  below(j) = SlotsOf(s, p)
  BY <1>1, <1>6
<1>7. \A j : SlotRank(s, p, j) = Cardinality(below(j))
  BY DEF SlotRank
<1> HIDE DEF below
<1> QED BY <1>4, <1>5, <1>6, <1>7, FS_EmptySet

\* setup_inputs goes over the channels of an input, the inputs of a program
\* and the programs, in this order.
LEMMA BeforeSteps ==
  ASSUME NEW s \in Specs, NEW u \in Uses(s), NEW i \in Nat, NEW j \in Nat, NEW k \in Nat
  PROVE  /\ i \in DOMAIN ProgramSeq(s) /\ j \in DOMAIN InputsAt(s, i) =>
              /\ k < InputChannels(ProgramSeq(s)[i], InputsAt(s, i)[j]) =>
                   (Before(u, <<i, j, k + 1>>) <=> Before(u, <<i, j, k>>) \/ u = <<i, j, k>>)
              /\ k >= InputChannels(ProgramSeq(s)[i], InputsAt(s, i)[j]) =>
                   (Before(u, <<i, j + 1, 0>>) <=> Before(u, <<i, j, k>>))
         /\ i \in DOMAIN ProgramSeq(s) /\ j > Len(InputsAt(s, i)) =>
              /\ Before(u, <<i + 1, 1, 0>>) <=> Before(u, <<i, j, k>>)
              /\ u[1] <= i <=> Before(u, <<i, j, k>>)
         /\ i > Len(ProgramSeq(s)) => Before(u, <<i, j, k>>)
         /\ ~ Before(u, <<1, 1, 0>>)
<1>1. /\ u = <<u[1], u[2], u[3]>>
      /\ u[1] \in DOMAIN ProgramSeq(s) /\ u[2] \in DOMAIN InputsAt(s, u[1])
      /\ u[3] \in 0 .. InputChannels(ProgramSeq(s)[u[1]], UsedInput(s, u)) - 1
      /\ u[1] \in Nat /\ u[2] \in Nat /\ u[3] \in Nat
  BY UsesMember
<1>2. /\ DOMAIN ProgramSeq(s) = 1 .. Len(ProgramSeq(s)) /\ Len(ProgramSeq(s)) \in Nat
      /\ DOMAIN InputsAt(s, u[1]) = 1 .. Len(InputsAt(s, u[1])) /\ Len(InputsAt(s, u[1])) \in Nat
  BY <1>1, SpecSequences
<1>3. u[1] >= 1 /\ u[2] >= 1 /\ u[1] <= Len(ProgramSeq(s)) /\ u[2] <= Len(InputsAt(s, u[1]))
  BY <1>1, <1>2
<1>4. \A x, y, z : Before(u, <<x, y, z>>) <=>
        \/ u[1] < x
        \/ u[1] = x /\ u[2] < y
        \/ u[1] = x /\ u[2] = y /\ u[3] < z
  BY DEF Before
<1>5. ASSUME i \in DOMAIN ProgramSeq(s), j \in DOMAIN InputsAt(s, i),
             k < InputChannels(ProgramSeq(s)[i], InputsAt(s, i)[j])
      PROVE  Before(u, <<i, j, k + 1>>) <=> Before(u, <<i, j, k>>) \/ u = <<i, j, k>>
  <2>1. u = <<i, j, k>> <=> u[1] = i /\ u[2] = j /\ u[3] = k
    BY <1>1
  <2> QED BY <1>1, <1>4, <2>1
<1>6. ASSUME i \in DOMAIN ProgramSeq(s), j \in DOMAIN InputsAt(s, i),
             k >= InputChannels(ProgramSeq(s)[i], InputsAt(s, i)[j])
      PROVE  Before(u, <<i, j + 1, 0>>) <=> Before(u, <<i, j, k>>)
  <2>1. u[1] = i /\ u[2] = j => u[3] < k
    <3>1. SUFFICES ASSUME u[1] = i, u[2] = j PROVE u[3] < k
      OBVIOUS
    <3>2. UsedInput(s, u) = InputsAt(s, i)[j]
      BY <3>1 DEF UsedInput
    <3>3. InputChannels(ProgramSeq(s)[i], InputsAt(s, i)[j]) \in Nat
      BY <1>6, InputChannelsType
    <3> QED BY <1>1, <1>6, <3>1, <3>2, <3>3
  <2> QED BY <1>1, <1>4, <2>1
<1>7. ASSUME i \in DOMAIN ProgramSeq(s), j > Len(InputsAt(s, i))
      PROVE  /\ Before(u, <<i + 1, 1, 0>>) <=> Before(u, <<i, j, k>>)
             /\ u[1] <= i <=> Before(u, <<i, j, k>>)
  <2>1. u[1] = i => u[2] < j
    BY <1>1, <1>2, <1>3, <1>7
  <2> QED BY <1>1, <1>3, <1>4, <2>1
<1>8. ASSUME i > Len(ProgramSeq(s)) PROVE Before(u, <<i, j, k>>)
  BY <1>1, <1>2, <1>3, <1>4, <1>8
<1>9. ~ Before(u, <<1, 1, 0>>)
  BY <1>1, <1>3, <1>4
<1> QED BY <1>5, <1>6, <1>7, <1>8, <1>9

\* The generated inputs that come before a place.
Earlier(s, type, h) == {u \in UsesOf(s, type) : Before(u, h)}

\* There are none when setup_inputs begins.
LEMMA NoneEarlier ==
  ASSUME NEW s \in Specs, NEW type
  PROVE  Earlier(s, type, <<1, 1, 0>>) = {}
<1>1. \A u \in UsesOf(s, type) : ~ Before(u, <<1, 1, 0>>)
  BY BeforeSteps DEF UsesOf
<1> QED BY <1>1 DEF Earlier

----------------------------------------------------------------------------
(* The invariant *)

\* The n-th slot of a core, and the generated inputs, are counted so far.
CountedSoFar(c, random, waves) ==
  /\ c.i # 0 /\ c.j # 0
  /\ c.phase = "output_dma" /\ c.i \in DOMAIN ProgramSeq(c.spec)
       => c.n = SlotRank(c.spec, ProgramSeq(c.spec)[c.i], c.j)
  /\ c.phase = "inputs" =>
       /\ IsFiniteSet(Earlier(c.spec, "random", Here(c)))
       /\ random = Cardinality(Earlier(c.spec, "random", Here(c)))
       /\ IsFiniteSet(Earlier(c.spec, "waveform", Here(c)))
       /\ waves = Cardinality(Earlier(c.spec, "waveform", Here(c)))
       /\ c.i \in DOMAIN ProgramSeq(c.spec) =>
            c.n = Cardinality({x \in 1 .. c.j - 1 : IsConstant(InputsAt(c.spec, c.i)[x])})
  /\ c.phase \in Beginning \union {"output_dma", "memories"} => random = 0 /\ waves = 0

\* What deploy() computed for this specification before it writes.
Prepared ==
  /\ bus_map = Slots(pc.spec)
  /\ pc.phase \notin Untimed => timebase_frequency = Timebase(ProgramSeq(pc.spec))
  /\ pc.phase \notin Beginning =>
       \A key \in DOMAIN InitialValues(pc.spec) :
         key \in DOMAIN ivs /\ ivs[key] = InitialValues(pc.spec)[key]

\* The log holds all that is due at c, and nothing that is not explained.
LogAt(c, loaded, written, roms) ==
  /\ \A w : DueRom(c, w) => w \in roms
  /\ \A w \in roms : w \in ExpectedRoms(c.spec)
  /\ loaded => \A w : Due(c, w) => w \in written
  /\ \A w \in written : Explained(c, w)
  /\ ~loaded \/ c.phase \in Beginning => written = {}

LogNow == LogAt(pc, fpga_loaded, ControlWrites(operations), RomWrites(operations))

Deploying ==
  Running => /\ reply = NoReply /\ logged = NoSpec
             /\ Prepared
             /\ CountedSoFar(pc, active_random_inputs, active_waveforms)
             /\ LogNow
             /\ ~sink_mode => HardwareFollows

\* What is logged by a deploy that completed is what its specification calls for.
WhollyLogged(s) ==
  /\ RomWrites(operations) = ExpectedRoms(s)
  /\ Expected(s) \subseteq ControlWrites(operations)
  /\ \A w \in ControlWrites(operations) : w \in Expected(s) \/ StrayFill(s, w)

DeployReached ==
  up /\ reply.kind = "deployed" /\ fpga_loaded =>
    reply.spec \in Specs /\ WhollyLogged(reply.spec) /\ HardwareFollows

\* The log holds all that a specification calls for, and the words of programs.
Recorded(s) ==
  /\ Expected(s) \subseteq ControlWrites(operations)
  /\ ExpectedRoms(s) \subseteq RomWrites(operations)
WordsLogged == \A w \in RomWrites(operations) : IsSequence(w[2])

\* The log, before, during and after a deployment.
LogPart ==
  /\ IsSequence(operations)
  /\ Deploying
  /\ LogIsSpecification
  /\ logged # NoSpec => Recorded(logged) /\ WordsLogged
  /\ DeployReached

\* What is in the log stays, and what is added has the words of programs too.
LogGrows ==
  /\ IsSequence(operations')
  /\ ControlWrites(operations) \subseteq ControlWrites(operations')
  /\ RomWrites(operations) \subseteq RomWrites(operations')
  /\ WordsLogged => WordsLogged'

LogInvariant == Bracket /\ IsSequence(inputs) /\ LogPart /\ CachedSimulationIsComplete

\* What is right of the log stays right under the same address map.
LEMMA LogAtKept ==
  ASSUME UNCHANGED addresses, NEW CONSTANT c, NEW CONSTANT loaded, NEW CONSTANT written,
         NEW CONSTANT roms, UNCHANGED ivs \/ written = {}
  PROVE  LogAt(c, loaded, written, roms)' <=> LogAt(c, loaded, written, roms)
<1>1. \A w : DueRom(c, w)' <=> DueRom(c, w)
  BY DueKept
<1>2. \A w : Due(c, w)' <=> Due(c, w)
  BY DueKept
<1>3. ExpectedRoms(c.spec)' = ExpectedRoms(c.spec)
  BY WritesKept
<1>4. \A w \in written : Explained(c, w)' <=> Explained(c, w)
  BY ExplainedKept
<1> QED BY <1>1, <1>2, <1>3, <1>4 DEF LogAt

\* deploy() goes on, having written what the next position has due more than
\* this one.
LEMMA LogGoesOn ==
  ASSUME LogNow, NEW next, pc' = next, next.spec = pc.spec, NEW ws,
         UNCHANGED <<addresses, fpga_loaded>>, UNCHANGED ivs \/ ControlWrites(operations') = {},
         ControlWrites(operations') = IF fpga_loaded THEN ControlWrites(operations) \union ws
                                      ELSE ControlWrites(operations),
         RomWrites(operations') = RomWrites(operations),
         \A w : Due(next, w) => Due(pc, w) \/ w \in ws,
         \A w : DueRom(next, w) => DueRom(pc, w),
         \A w \in ws : Explained(next, w),
         pc.phase \in Beginning \/ next.phase \notin Beginning,
         next.phase \in Beginning => ws = {},
         pc.phase \in AfterSequencer => next.phase \in AfterSequencer
  PROVE  LogNow'
<1>0. PICK c, loaded, written, roms :
        /\ c = next /\ loaded = fpga_loaded
        /\ written = ControlWrites(operations') /\ roms = RomWrites(operations')
  OBVIOUS
<1>1. \A w : Explained(pc, w) => Explained(c, w)
  BY <1>0 DEF Explained
<1>2. LogAt(c, loaded, written, roms)
  <2>1. \A w : DueRom(c, w) => w \in roms
    BY <1>0 DEF LogNow, LogAt
  <2>2. \A w \in roms : w \in ExpectedRoms(c.spec)
    BY <1>0 DEF LogNow, LogAt
  <2>3. loaded => \A w : Due(c, w) => w \in written
    BY <1>0 DEF LogNow, LogAt
  <2>4. \A w \in written : Explained(c, w)
    BY <1>0, <1>1 DEF LogNow, LogAt
  <2>5. ~loaded \/ c.phase \in Beginning => written = {}
    BY <1>0 DEF LogNow, LogAt
  <2> QED BY <2>1, <2>2, <2>3, <2>4, <2>5 DEF LogAt
<1>3. LogAt(c, loaded, written, roms)'
  BY <1>0, <1>2, LogAtKept
<1> QED BY <1>0, <1>3 DEF LogNow

----------------------------------------------------------------------------
(* From one position to the next *)

\* A loop changes what is due of its own phase only.
LEMMA DueElsewhere ==
  ASSUME NEW c, NEW d, d.spec = c.spec, d.phase = c.phase, NEW w
  PROVE  /\ c.phase # "load_cores" => (DueRom(d, w) <=> DueRom(c, w))
         /\ c.phase # "output_dma" => (DueSlot(d, w) <=> DueSlot(c, w)) /\ (DueDma(d, w) <=> DueDma(c, w))
         /\ c.phase # "memories" => (DueMemory(d, w) <=> DueMemory(c, w))
         /\ c.phase # "inputs" => (DueUse(d, w) <=> DueUse(c, w)) /\ (DueNoise(d, w) <=> DueNoise(c, w))
         /\ c.phase # "setup_cores" => (DueCore(d, w) <=> DueCore(c, w))
         /\ DueSequencer(d, w) <=> DueSequencer(c, w)
<1>1. c.phase # "load_cores" => (DueRom(d, w) <=> DueRom(c, w))
  BY DEF DueRom
<1>2. c.phase # "output_dma" => (DueSlot(d, w) <=> DueSlot(c, w)) /\ (DueDma(d, w) <=> DueDma(c, w))
  BY DEF DueSlot, DueDma, Passed
<1>3. c.phase # "memories" => (DueMemory(d, w) <=> DueMemory(c, w))
  BY DEF DueMemory, Passed
<1>4. c.phase # "inputs" => (DueUse(d, w) <=> DueUse(c, w)) /\ (DueNoise(d, w) <=> DueNoise(c, w))
  BY DEF DueUse, DueNoise, Passed
<1>5. c.phase # "setup_cores" => (DueCore(d, w) <=> DueCore(c, w))
  BY DEF DueCore, Passed
<1>6. DueSequencer(d, w) <=> DueSequencer(c, w)
  BY DEF DueSequencer
<1> QED BY <1>1, <1>2, <1>3, <1>4, <1>5, <1>6

\* The phases in their order.
Follows(phase, next) ==
  \/ phase = "load_cores" /\ next = "timebase"
  \/ phase = "timebase" /\ next = "dividers"
  \/ phase = "dividers" /\ next = "output_dma"
  \/ phase = "output_dma" /\ next = "memories"
  \/ phase = "memories" /\ next = "inputs"
  \/ phase = "inputs" /\ next = "sequencer"
  \/ phase = "sequencer" /\ next = "setup_cores"
  \/ phase = "setup_cores" /\ next = "finish"

LEMMA NextPhaseFollows ==
  ASSUME Running, pc.phase # "finish"
  PROVE  \E phase : NextPhase = AtProgram(phase, 1) /\ Follows(pc.phase, phase)
<1> DEFINE here == CHOOSE n \in DOMAIN Phases : Phases[n] = pc.phase
<1>1. /\ DOMAIN Phases = 1 .. 9
      /\ Phases[1] = "load_cores" /\ Phases[2] = "timebase" /\ Phases[3] = "dividers"
      /\ Phases[4] = "output_dma" /\ Phases[5] = "memories" /\ Phases[6] = "inputs"
      /\ Phases[7] = "sequencer" /\ Phases[8] = "setup_cores" /\ Phases[9] = "finish"
  BY DEF Phases
<1>2. \E n \in DOMAIN Phases : Phases[n] = pc.phase
  BY DEF Running, RunningPc, Range
<1>3. here \in 1 .. 9 /\ Phases[here] = pc.phase
  BY <1>1, <1>2
<1>4. NextPhase = AtProgram(Phases[here + 1], 1)
  BY DEF NextPhase
<1> HIDE DEF here
<1>5. here \in {1, 2, 3, 4, 5, 6, 7, 8}
  BY <1>1, <1>3
<1>6. /\ 1 + 1 = 2 /\ 2 + 1 = 3 /\ 3 + 1 = 4 /\ 4 + 1 = 5
      /\ 5 + 1 = 6 /\ 6 + 1 = 7 /\ 7 + 1 = 8 /\ 8 + 1 = 9
  OBVIOUS
<1>7. Follows(pc.phase, Phases[here + 1])
  BY <1>1, <1>3, <1>5, <1>6 DEF Follows
<1> QED BY <1>4, <1>7

\* A position of deploy(), in any of its loops.
Position(c) == c.spec \in Specs /\ c.i \in Nat /\ c.j \in Nat /\ c.k \in Nat /\ c.n \in Nat

\* A loop over the programs that has seen them all leaves nothing undone; the
\* sequencer has no loop.
LEMMA NextPhaseDue ==
  ASSUME NEW c, NEW d, Position(c), d.spec = c.spec, d.i = 1, d.j = 1, d.k = 0,
         Follows(c.phase, d.phase),
         c.i > Len(ProgramSeq(c.spec)) \/ c.phase \in {"timebase", "sequencer"}, NEW w
  PROVE  /\ Due(d, w) => Due(c, w) \/ (c.phase = "sequencer" /\ w \in ExpectedSequencer(c.spec))
         /\ DueRom(d, w) => DueRom(c, w)
<1>1. /\ Len(ProgramSeq(c.spec)) \in Nat /\ DOMAIN ProgramSeq(c.spec) = 1 .. Len(ProgramSeq(c.spec))
      /\ Len(Slots(c.spec)) \in Nat /\ DOMAIN Slots(c.spec) = 1 .. Len(Slots(c.spec))
      /\ c.i \in Nat
  BY SpecSequences DEF Position
<1>2. \A i \in DOMAIN ProgramSeq(c.spec) :
        DOMAIN MemoryOf(c.spec, ProgramSeq(c.spec)[i]) \subseteq Nat \ {0}
  BY SpecSequences DEF Position
<1>3. \A i \in DOMAIN ProgramSeq(c.spec) :
        ~(i < 1) /\ (c.i > Len(ProgramSeq(c.spec)) => i < c.i)
  BY <1>1
<1>4. \A i : \A j \in SlotsOf(c.spec, ProgramSeq(c.spec)[i]) : ~(j < 1)
  BY <1>1 DEF SlotsOf
<1>5. DueRom(d, w) => DueRom(c, w)
  BY <1>3 DEF DueRom, Follows
<1>6. DueSlot(d, w) => DueSlot(c, w)
  BY <1>3, <1>4, Zenon DEF DueSlot, Passed, Follows, AfterDma
<1>7. DueDma(d, w) => DueDma(c, w)
  BY <1>3 DEF DueDma, Passed, Follows, AfterDma
<1>8. DueMemory(d, w) => DueMemory(c, w)
  <2>1. \A i \in DOMAIN ProgramSeq(c.spec) :
          \A j \in DOMAIN MemoryOf(c.spec, ProgramSeq(c.spec)[i]) : ~(j < 1)
    BY <1>2
  <2> QED BY <1>3, <2>1 DEF DueMemory, Passed, Follows, AfterMemories
<1>9. DueUse(d, w) => DueUse(c, w)
  <2>1. \A u \in Uses(c.spec) :
          ~ Before(u, Here(d)) /\ (c.i > Len(ProgramSeq(c.spec)) => Before(u, Here(c)))
    BY BeforeSteps DEF Position, Here
  <2> QED BY <2>1 DEF DueUse, Follows, AfterInputs
<1>10. DueNoise(d, w) => DueNoise(c, w)
  BY <1>3 DEF DueNoise, Passed, Follows, AfterInputs
<1>11. DueCore(d, w) => DueCore(c, w)
  BY <1>3 DEF DueCore, Passed, Follows
<1>12. DueSequencer(d, w) =>
         DueSequencer(c, w) \/ (c.phase = "sequencer" /\ w \in ExpectedSequencer(c.spec))
  BY DEF DueSequencer, Follows, AfterSequencer
<1> QED BY <1>5, <1>6, <1>7, <1>8, <1>9, <1>10, <1>11, <1>12 DEF Due

\* Nothing has been counted in a phase that begins.
LEMMA NextPhaseCounted ==
  ASSUME NEW c, NEW d, Position(c), d.spec = c.spec, d.i = 1, d.j = 1, d.k = 0, d.n = 0,
         Follows(c.phase, d.phase), NEW random, NEW waves, CountedSoFar(c, random, waves)
  PROVE  CountedSoFar(d, random, waves)
<1>1. CASE d.phase = "output_dma"
  <2>1. \A p : SlotRank(d.spec, p, 1) = 0
    BY SlotRankSteps DEF Position
  <2> QED BY <1>1, <2>1 DEF CountedSoFar, Follows, Beginning
<1>2. CASE d.phase = "inputs"
  <2>1. Earlier(d.spec, "random", Here(d)) = {} /\ Earlier(d.spec, "waveform", Here(d)) = {}
    BY NoneEarlier DEF Position, Here
  <2>2. {x \in 1 .. d.j - 1 : IsConstant(InputsAt(d.spec, d.i)[x])} = {}
    OBVIOUS
  <2>3. random = 0 /\ waves = 0
    BY <1>2 DEF CountedSoFar, Follows
  <2>4. IsFiniteSet({}) /\ Cardinality({}) = 0
    BY FS_EmptySet
  <2>5. d.i # 0 /\ d.j # 0 /\ d.phase \notin Beginning \union {"output_dma", "memories"}
    BY <1>2 DEF Beginning
  <2> QED BY <1>2, <2>1, <2>2, <2>3, <2>4, <2>5 DEF CountedSoFar
<1>3. CASE d.phase \notin {"output_dma", "inputs"}
  BY <1>3 DEF CountedSoFar, Follows, Beginning
<1> QED BY <1>1, <1>2, <1>3

----------------------------------------------------------------------------
(* A step of deploy() *)

\* What is between the steps of deploy() outside the bus and the positions.
Undisturbed == UNCHANGED <<addresses, ivs, bus_map, timebase_frequency, logged>>

\* A step that leaves deploy() running with the log it should have, or ends it.
LogKept ==
  /\ IsSequence(operations') /\ Deploying' /\ LogIsSpecification' /\ logged' = NoSpec
  /\ reply'.kind # "deployed"

\* The process ends, or deploy_hil answers with an error.
LEMMA EndKeepsLog ==
  ASSUME Deploying, Running, IsSequence(operations), IsSequence(operations'), UNCHANGED logged,
         pc' = Idle, reply'.kind \notin {"deployed", "simulated"}
  PROVE  LogKept
<1>1. ~ Running'
  BY IdleIsNotRunning DEF Running
<1> QED BY <1>1 DEF LogKept, Deploying, LogIsSpecification

\* deploy() goes on.
LEMMA GoesOn ==
  ASSUME Deploying, Running, NEW next, pc' = next, UNCHANGED reply, Undisturbed,
         IsSequence(operations'),
         next.spec = pc.spec, next.phase \in Beginning \/ pc.phase \notin Beginning,
         next.phase \in Untimed \/ pc.phase \notin Untimed,
         CountedSoFar(next, active_random_inputs', active_waveforms'), LogNow',
         ~sink_mode' => HardwareFollows'
  PROVE  LogKept
<1>0. PICK c, r, v : c = next /\ r = active_random_inputs' /\ v = active_waveforms'
  OBVIOUS
<1>1. Prepared'
  BY <1>0 DEF Deploying, Prepared, Undisturbed
<1>2. CountedSoFar(pc, active_random_inputs, active_waveforms)'
  <2>1. CountedSoFar(c, r, v)
    BY <1>0
  <2> QED BY <1>0, <2>1
<1>3. reply' = NoReply /\ logged' = NoSpec
  BY DEF Deploying, Undisturbed
<1>4. LogIsSpecification' /\ reply'.kind # "deployed"
  BY <1>3 DEF LogIsSpecification, NoReply, Reply
<1> QED BY <1>1, <1>2, <1>3, <1>4 DEF LogKept, Deploying

\* What holds of a run of stores after which deploy() is at `next`.
Completes(stores, next) ==
  /\ next.spec = pc.spec
  /\ pc.phase \notin Beginning /\ next.phase \notin Beginning
  /\ pc.phase \in AfterSequencer => next.phase \in AfterSequencer
  /\ \A w : Due(next, w) => Due(pc, w) \/ w \in Range(stores)
  /\ \A w \in Range(stores) : Explained(next, w)

\* A helper of deploy() that writes all that the next position has due.
LEMMA WriteKeepsLog ==
  ASSUME Deploying, Running, IsSequence(operations), NEW stores, AreStores(stores), NEW next,
         WriteThen(stores, next), Undisturbed, Completes(stores, next),
         CountedSoFar(next, active_random_inputs', active_waveforms')
  PROVE  LogKept
<1>1. /\ IsSequence(operations')
      /\ RomWrites(operations') = RomWrites(operations)
      /\ ControlWrites(operations') = IF fpga_loaded THEN ControlWrites(operations) \union Range(stores)
                                      ELSE ControlWrites(operations)
      /\ UNCHANGED fpga_loaded
  BY WritesLogged DEF WriteThen
<1>2. CASE ~up'
  BY <1>1, <1>2, EndKeepsLog DEF WriteThen, Undisturbed, Reply
<1>3. CASE up'
  <2>1. pc' = next /\ UNCHANGED reply
    BY <1>3 DEF WriteThen
  <2>2. \A w : DueRom(next, w) => DueRom(pc, w)
    BY DEF Completes, Beginning, DueRom
  <2>3. LogNow
    BY DEF Deploying
  <2>4. LogNow'
    BY <1>1, <2>1, <2>2, <2>3, LogGoesOn DEF Completes, Undisturbed
  <2>5. write_direct_all(stores) /\ UNCHANGED sink_mode
    BY DEF WriteThen, write_direct_all, write_registers, busVars
  <2>6. ~sink_mode' => HardwareFollows'
    BY <1>3, <2>5, WritesReach DEF Deploying
  <2>7. pc.phase \notin Untimed
    BY DEF Completes, Beginning, Untimed
  <2> QED BY <1>1, <2>1, <2>4, <2>6, <2>7, GoesOn DEF Completes
<1> QED BY <1>2, <1>3

\* A step of deploy() that writes nothing.
LEMMA SkipKeepsLog ==
  ASSUME Deploying, Running, IsSequence(operations), NEW next, SkipTo(next), Undisturbed,
         next.spec = pc.spec, next.phase \in Beginning <=> pc.phase \in Beginning,
         next.phase \in Untimed <=> pc.phase \in Untimed,
         pc.phase \in AfterSequencer => next.phase \in AfterSequencer,
         \A w : Due(next, w) => Due(pc, w), \A w : DueRom(next, w) => DueRom(pc, w),
         CountedSoFar(next, active_random_inputs', active_waveforms')
  PROVE  LogKept
<1>1. pc' = next /\ UNCHANGED <<operations, fpga_loaded, reply>>
  BY DEF SkipTo, busVars
<1>2. LogNow
  BY DEF Deploying
<1>3. LogNow'
  <2> DEFINE ws == {}
  <2>1. /\ \A w : Due(next, w) => Due(pc, w) \/ w \in ws
        /\ \A w \in ws : Explained(next, w)
        /\ ControlWrites(operations') = IF fpga_loaded THEN ControlWrites(operations) \union ws
                                        ELSE ControlWrites(operations)
        /\ RomWrites(operations') = RomWrites(operations)
        /\ next.phase \in Beginning => ws = {}
    BY <1>1
  <2> HIDE DEF ws
  <2> QED BY <1>1, <1>2, <2>1, LogGoesOn DEF Undisturbed
<1>4. UNCHANGED <<operations, registers, fCore, sink_mode>>
  BY DEF SkipTo, busVars
<1>5. ~sink_mode' => HardwareFollows'
  BY <1>4, HardwareStays DEF Deploying
<1> QED BY <1>1, <1>3, <1>5, GoesOn

\* An exception in deploy().
LEMMA ThrowKeepsLog ==
  ASSUME Deploying, Running, IsSequence(operations), Throw, UNCHANGED logged
  PROVE  LogKept
<1>1. /\ IsSequence(operations') /\ pc' = Idle
      /\ reply' = Reply(IF up' THEN "deployment_error" ELSE "died", pc.spec, <<>>)
  BY DEF Throw
<1>2. reply'.kind \in {"deployment_error", "died"}
  BY <1>1, Zenon DEF Reply
<1>3. reply'.kind \notin {"deployed", "simulated"}
  BY <1>2
<1> QED BY <1>1, <1>3, EndKeepsLog

\* The program deploy() is at.
LEMMA AtProgramOfSpec ==
  ASSUME Deploying, Running
  PROVE  /\ Position(pc) /\ pc.spec \in Specs /\ Programs = ProgramSeq(pc.spec)
         /\ pc.i \in Nat \ {0} /\ pc.j \in Nat \ {0} /\ pc.k \in Nat /\ pc.n \in Nat
         /\ InProgram <=> pc.i \in DOMAIN ProgramSeq(pc.spec)
         /\ ~ InProgram => pc.i > Len(ProgramSeq(pc.spec))
         /\ P = ProgramSeq(pc.spec)[pc.i]
         /\ CoreInputs = InputsAt(pc.spec, pc.i) /\ CoreMemory = MemoryOf(pc.spec, P)
<1>1. pc.spec \in Specs /\ pc.i \in Nat /\ pc.j \in Nat /\ pc.k \in Nat /\ pc.n \in Nat
  BY DEF Running, RunningPc
<1>2. pc.i # 0 /\ pc.j # 0
  BY DEF Deploying, CountedSoFar
<1>3. /\ Programs = ProgramSeq(pc.spec) /\ P = ProgramSeq(pc.spec)[pc.i]
      /\ CoreInputs = InputsAt(pc.spec, pc.i) /\ CoreMemory = MemoryOf(pc.spec, P)
  BY DEF Programs, ProgramSeq, P, CoreInputs, InputsAt, CoreMemory, MemoryOf
<1>4. Len(ProgramSeq(pc.spec)) \in Nat /\ DOMAIN ProgramSeq(pc.spec) = 1 .. Len(ProgramSeq(pc.spec))
  BY <1>1, SpecSequences
<1>5. /\ InProgram <=> pc.i \in DOMAIN ProgramSeq(pc.spec)
      /\ ~ InProgram => pc.i > Len(ProgramSeq(pc.spec))
  BY <1>1, <1>2, <1>3, <1>4 DEF InProgram
<1> QED BY <1>1, <1>2, <1>3, <1>5 DEF Position

\* A single store.
LEMMA OneStore ==
  ASSUME NEW address, NEW value
  PROVE  AreStores(<<<<address, value>>>>) /\ Range(<<<<address, value>>>>) = {<<address, value>>}
<1>1. <<<<address, value>>>> \in Seq({<<address, value>>})
  OBVIOUS
<1>2. Range(<<<<address, value>>>>) = {<<address, value>>}
  BY DEF Range
<1> QED BY <1>1, <1>2 DEF AreStores, IsSequence

\* The number of a core's slots follows their entries.
LEMMA FinishOutputDmaKeepsLog ==
  ASSUME Deploying, Running, IsSequence(operations), UNCHANGED logged, FinishOutputDma
  PROVE  LogKept
<1> DEFINE s == pc.spec
           stores == <<<<DmaAddress(P), pc.n>>>>
<1>0. /\ pc.phase = "output_dma" /\ pc.i \in DOMAIN ProgramSeq(s) /\ pc.j > Len(Slots(s))
      /\ WriteThen(stores, NextProgram) /\ Undisturbed
      /\ UNCHANGED <<active_random_inputs, active_waveforms>>
  BY AtProgramOfSpec DEF FinishOutputDma, At, Deploying, Prepared, deployerVars, Undisturbed
<1>1. /\ s \in Specs /\ P = ProgramSeq(s)[pc.i] /\ pc.i \in Nat \ {0} /\ pc.j \in Nat \ {0}
      /\ DOMAIN ProgramSeq(s) \subseteq Nat
      /\ \A j \in DOMAIN Slots(s) : j < pc.j
  <2>1. /\ s \in Specs /\ P = ProgramSeq(s)[pc.i] /\ pc.i \in Nat \ {0} /\ pc.j \in Nat \ {0}
    BY AtProgramOfSpec
  <2>2. DOMAIN ProgramSeq(s) \subseteq Nat /\ DOMAIN Slots(s) = 1 .. Len(Slots(s)) /\ Len(Slots(s)) \in Nat
    BY <2>1, SpecSequences
  <2>3. \A j \in DOMAIN Slots(s) : j < pc.j
    BY <1>0, <2>1, <2>2
  <2> QED BY <2>1, <2>2, <2>3
<1>2. pc.n = Cardinality(SlotsOf(s, P))
  <2>1. SlotRank(s, P, pc.j) = Cardinality(SlotsOf(s, P))
    BY <1>0, <1>1, SlotRankSteps
  <2>2. pc.n = SlotRank(s, P, pc.j)
    BY <1>0, <1>1 DEF Deploying, CountedSoFar
  <2> QED BY <2>1, <2>2
<1>3. Range(stores) = {<<DmaAddress(P), Cardinality(SlotsOf(s, P))>>} /\ AreStores(stores)
  BY <1>2, OneStore
<1>4. /\ NextProgram.spec = s /\ NextProgram.phase = pc.phase
      /\ NextProgram.i = pc.i + 1 /\ NextProgram.j = 1
  BY DEF NextProgram, AtProgram
<1> HIDE DEF stores
<1>5. ASSUME NEW w, Due(NextProgram, w) PROVE Due(pc, w) \/ w \in Range(stores)
  <2>1. \A i \in DOMAIN ProgramSeq(s) : i < pc.i + 1 <=> i < pc.i \/ i = pc.i
    BY <1>1
  <2>2. DueDma(NextProgram, w) => DueDma(pc, w) \/ w \in Range(stores)
    BY <1>0, <1>1, <1>3, <1>4, <2>1 DEF DueDma, Passed, AfterDma
  <2>3. DueSlot(NextProgram, w) => DueSlot(pc, w)
    <3>1. SUFFICES ASSUME DueSlot(NextProgram, w) PROVE DueSlot(pc, w)
      OBVIOUS
    <3>2. PICK i \in DOMAIN ProgramSeq(s) : \E j \in SlotsOf(s, ProgramSeq(s)[i]) :
            /\ w \in SlotWrites(s, ProgramSeq(s)[i], j)
            /\ i < pc.i + 1 \/ (i = pc.i + 1 /\ j < 1)
      BY <1>0, <1>4, <3>1 DEF DueSlot, Passed, AfterDma
    <3>3. PICK j \in SlotsOf(s, ProgramSeq(s)[i]) :
            /\ w \in SlotWrites(s, ProgramSeq(s)[i], j)
            /\ i < pc.i + 1 \/ (i = pc.i + 1 /\ j < 1)
      BY <3>2
    <3>4. j \in DOMAIN Slots(s) /\ ~(j < 1)
      <4>1. j \in DOMAIN Slots(s) /\ DOMAIN Slots(s) = 1 .. Len(Slots(s)) /\ Len(Slots(s)) \in Nat
        BY <1>1, SpecSequences DEF SlotsOf
      <4> QED BY <4>1
    <3>5. i < pc.i \/ (i = pc.i /\ j < pc.j)
      BY <1>1, <2>1, <3>3, <3>4
    <3> QED BY <1>0, <3>3, <3>5 DEF DueSlot, Passed
  <2>4. /\ DueMemory(NextProgram, w) <=> DueMemory(pc, w)
        /\ DueUse(NextProgram, w) <=> DueUse(pc, w)
        /\ DueNoise(NextProgram, w) <=> DueNoise(pc, w)
        /\ DueCore(NextProgram, w) <=> DueCore(pc, w)
        /\ DueSequencer(NextProgram, w) <=> DueSequencer(pc, w)
    BY <1>0, <1>4, DueElsewhere
  <2> QED BY <1>5, <2>2, <2>3, <2>4 DEF Due
<1>6. \A w \in Range(stores) : Explained(NextProgram, w)
  <2>1. <<DmaAddress(P), Cardinality(SlotsOf(s, P))>> \in BeforeEnable(s)
    BY <1>0, <1>1, BeforeEnableWrites DEF Called
  <2> QED BY <1>3, <1>4, <2>1 DEF Explained
<1>7. Completes(stores, NextProgram)
  BY <1>0, <1>4, <1>5, <1>6 DEF Completes, Beginning, AfterSequencer
<1>8. CountedSoFar(NextProgram, active_random_inputs', active_waveforms')
  <2>1. active_random_inputs' = 0 /\ active_waveforms' = 0
    BY <1>0 DEF Deploying, CountedSoFar
  <2>2. NextProgram.i # 0 /\ NextProgram.j # 0 /\ NextProgram.n = 0
    BY <1>1, <1>4 DEF NextProgram, AtProgram
  <2>3. \A p : SlotRank(s, p, 1) = 0
    BY <1>1, SlotRankSteps
  <2> QED BY <1>0, <1>4, <2>1, <2>2, <2>3 DEF CountedSoFar, Beginning
<1> QED BY <1>0, <1>3, <1>7, <1>8, WriteKeepsLog

\* What setup_output_entry writes for a slot: its entry, and the fills that the
\* initial values deploy() has call for.
LEMMA SlotStoresWrites ==
  ASSUME NEW s \in Specs, NEW p \in ProgramsOf(s), NEW j \in SlotsOf(s, p), NEW fills,
         fills \in IF SlotKey(Slots(s)[j]) \notin DOMAIN ivs THEN {<<>>}
                   ELSE {<<<<DmaAddress(p) + 8, SlotRank(s, p, j)>>, <<DmaAddress(p) + 4, v>>>> :
                           v \in IF Slots(s)[j].source_channel + 1 \in DOMAIN ivs[SlotKey(Slots(s)[j])]
                                   THEN {ivs[SlotKey(Slots(s)[j])][Slots(s)[j].source_channel + 1]}
                                   ELSE Garbage},
         \A key \in DOMAIN InitialValues(s) : key \in DOMAIN ivs /\ ivs[key] = InitialValues(s)[key]
  PROVE  LET stores == SlotStores(Slots(s)[j], DmaAddress(p), SlotRank(s, p, j), fills)
         IN /\ AreStores(stores)
            /\ SlotWrites(s, p, j) \subseteq Range(stores)
            /\ \A w \in Range(stores) : w \in SlotWrites(s, p, j) \/ StrayFill(s, w)
<1> DEFINE e == Slots(s)[j]
           dma == DmaAddress(p)
           n == SlotRank(s, p, j)
           entry == <<MappingAddress(dma, n), SlotMapping(e)>>
           meta == <<MetadataAddress(dma, n), SlotMetadata(e)>>
           stores == SlotStores(e, dma, n, fills)
<1>1. j \in DOMAIN Slots(s)
  BY DEF SlotsOf
<1>2. /\ AreStores(fills)
      /\ Range(fills) = {}
           \/ \E v : Range(fills) = {<<dma + 8, n>>, <<dma + 4, v>>}
  <2>1. CASE fills = <<>>
    <3>1. Range(fills) = {} /\ fills \in Seq({})
      BY <2>1 DEF Range
    <3> QED BY <3>1 DEF AreStores, IsSequence
  <2>2. CASE \E v : fills = <<<<dma + 8, n>>, <<dma + 4, v>>>>
    <3>1. PICK v : fills = <<<<dma + 8, n>>, <<dma + 4, v>>>>
      BY <2>2
    <3> DEFINE a == <<dma + 8, n>>
               b == <<dma + 4, v>>
    <3>2. a = <<a[1], a[2]>> /\ b = <<b[1], b[2]>>
      OBVIOUS
    <3> HIDE DEF a, b
    <3>3. fills = <<a, b>>
      BY <3>1 DEF a, b
    <3>4. Range(fills) = {a, b} /\ fills \in Seq({a, b})
      BY <3>3 DEF Range
    <3>5. AreStores(fills)
      BY <3>2, <3>4 DEF AreStores, IsSequence
    <3> QED BY <3>4, <3>5 DEF a, b
  <2> QED BY <2>1, <2>2
<1>3. AreStores(stores) /\ Range(stores) = {entry, meta} \union Range(fills)
  <2>1. /\ AreStores(<<entry>>) /\ Range(<<entry>>) = {entry}
        /\ AreStores(<<meta>>) /\ Range(<<meta>>) = {meta}
    BY OneStore
  <2>2. stores = (<<entry>> \o fills) \o <<meta>>
    BY DEF SlotStores
  <2> HIDE DEF entry, meta, stores
  <2>r. IsSequence(<<entry>>) /\ IsSequence(<<meta>>) /\ IsSequence(fills)
    BY <1>2, <2>1 DEF AreStores
  <2>3. IsSequence(<<entry>> \o fills) /\ Range(<<entry>> \o fills) = {entry} \union Range(fills)
    BY <2>1, <2>r, RangeOfConcat
  <2>m. /\ IsSequence((<<entry>> \o fills) \o <<meta>>)
        /\ Range((<<entry>> \o fills) \o <<meta>>) = Range(<<entry>> \o fills) \union Range(<<meta>>)
    BY <2>r, <2>3, RangeOfConcat
  <2>4. IsSequence(stores) /\ Range(stores) = {entry} \union Range(fills) \union {meta}
    BY <2>1, <2>2, <2>3, <2>m
  <2> QED BY <1>2, <2>1, <2>4 DEF AreStores
<1>4. SlotWrites(s, p, j) = {entry, meta} \union
        (IF j \in Initialised(s) \ PastEnd(s)
           THEN {<<dma + 8, n>>, <<dma + 4, InitialOf(s, j)[e.source_channel + 1]>>} ELSE {})
  BY DEF SlotWrites
<1>5. CASE j \in Initialised(s) \ PastEnd(s)
  <2>1. SlotKey(e) \in DOMAIN ivs /\ ivs[SlotKey(e)] = InitialOf(s, j)
    BY <1>5 DEF Initialised, InitialOf
  <2>2. e.source_channel + 1 \in DOMAIN InitialOf(s, j)
    BY <1>5, PastEndOfVector
  <2>3. fills = <<<<dma + 8, n>>, <<dma + 4, InitialOf(s, j)[e.source_channel + 1]>>>>
    BY <2>1, <2>2
  <2>4. Range(fills) = {<<dma + 8, n>>, <<dma + 4, InitialOf(s, j)[e.source_channel + 1]>>}
    BY <2>3 DEF Range
  <2> HIDE DEF stores, entry, meta
  <2> QED BY <1>3, <1>4, <1>5, <2>4 DEF stores
<1>6. CASE j \notin Initialised(s) \ PastEnd(s)
  <2>1. SlotWrites(s, p, j) = {entry, meta}
    BY <1>4, <1>6
  <2>2. fills # <<>> => Unclear(s)
    <3>1. SUFFICES ASSUME fills # <<>> PROVE Unclear(s)
      OBVIOUS
    <3>2. SlotKey(e) \in DOMAIN ivs
      BY <3>1
    <3>3. CASE j \in Initialised(s)
      BY <1>6, <3>3 DEF Unclear
    <3>4. CASE j \notin Initialised(s)
      BY <1>1, <3>2, <3>4 DEF Unclear, StaleInitialValue, Initialised
    <3> QED BY <3>3, <3>4
  <2>3. ASSUME NEW w \in Range(fills) PROVE StrayFill(s, w)
    <3>1. fills # <<>>
      BY <2>3 DEF Range
    <3>2. w[1] = dma + 8 \/ w[1] = dma + 4
      BY <1>2, <2>3
    <3> QED BY <2>2, <3>1, <3>2 DEF StrayFill
  <2> HIDE DEF stores, entry, meta
  <2> QED BY <1>3, <2>1, <2>3 DEF stores
<1> QED BY <1>5, <1>6

\* What is due more once the loop over bus_map has passed a slot.
LEMMA NextSlotDue ==
  ASSUME NEW c, NEW d, c.phase = "output_dma", c.spec \in Specs,
         c.i \in DOMAIN ProgramSeq(c.spec), c.j \in DOMAIN Slots(c.spec),
         d.spec = c.spec, d.phase = c.phase, d.i = c.i, d.j = c.j + 1, NEW w, Due(d, w)
  PROVE  \/ Due(c, w)
         \/ /\ c.j \in SlotsOf(c.spec, ProgramSeq(c.spec)[c.i])
            /\ w \in SlotWrites(c.spec, ProgramSeq(c.spec)[c.i], c.j)
<1>1. /\ DueMemory(d, w) <=> DueMemory(c, w)
      /\ DueUse(d, w) <=> DueUse(c, w)
      /\ DueNoise(d, w) <=> DueNoise(c, w)
      /\ DueCore(d, w) <=> DueCore(c, w)
      /\ DueSequencer(d, w) <=> DueSequencer(c, w)
  BY DueElsewhere
<1>2. DueDma(d, w) <=> DueDma(c, w)
  BY DEF DueDma, Passed, AfterDma
<1>3. ASSUME DueSlot(d, w)
      PROVE  \/ DueSlot(c, w)
             \/ /\ c.j \in SlotsOf(c.spec, ProgramSeq(c.spec)[c.i])
                /\ w \in SlotWrites(c.spec, ProgramSeq(c.spec)[c.i], c.j)
  <2>1. PICK i \in DOMAIN ProgramSeq(c.spec) : \E j \in SlotsOf(c.spec, ProgramSeq(c.spec)[i]) :
          /\ w \in SlotWrites(c.spec, ProgramSeq(c.spec)[i], j)
          /\ i < c.i \/ (i = c.i /\ j < c.j + 1)
    BY <1>3 DEF DueSlot, Passed, AfterDma
  <2>2. PICK j \in SlotsOf(c.spec, ProgramSeq(c.spec)[i]) :
          /\ w \in SlotWrites(c.spec, ProgramSeq(c.spec)[i], j)
          /\ i < c.i \/ (i = c.i /\ j < c.j + 1)
    BY <2>1
  <2>3. j \in Nat /\ c.j \in Nat
    <3>1. DOMAIN Slots(c.spec) = 1 .. Len(Slots(c.spec)) /\ Len(Slots(c.spec)) \in Nat
      BY SpecSequences
    <3>2. j \in DOMAIN Slots(c.spec)
      BY DEF SlotsOf
    <3> QED BY <3>1, <3>2
  <2>4. i < c.i \/ (i = c.i /\ j < c.j) \/ (i = c.i /\ j = c.j)
    BY <2>2, <2>3
  <2> QED BY <2>2, <2>4 DEF DueSlot, Passed
<1> QED BY <1>1, <1>2, <1>3 DEF Due

\* setup_output_entry, for a slot of this core or of another.
LEMMA SetupOutputEntryKeepsLog ==
  ASSUME Deploying, Running, IsSequence(operations), UNCHANGED logged, SetupOutputEntry
  PROVE  LogKept
<1> DEFINE s == pc.spec
           p == ProgramSeq(s)[pc.i]
           e == Slots(s)[pc.j]
           fills0 ==
             IF SlotKey(e) \notin DOMAIN ivs THEN {<<>>}
             ELSE {<<<<DmaAddress(p) + 8, pc.n>>, <<DmaAddress(p) + 4, v>>>> :
                     v \in IF e.source_channel + 1 \in DOMAIN ivs[SlotKey(e)]
                             THEN {ivs[SlotKey(e)][e.source_channel + 1]} ELSE Garbage}
<1>0. /\ pc.phase = "output_dma" /\ pc.i \in DOMAIN ProgramSeq(s) /\ s \in Specs
      /\ P = p /\ bus_map = Slots(s) /\ pc.j \in DOMAIN Slots(s)
      /\ pc.i \in Nat \ {0} /\ pc.j \in Nat \ {0} /\ pc.n \in Nat
  <2>1. /\ pc.phase = "output_dma" /\ InProgram /\ pc.j <= Len(bus_map)
    BY DEF SetupOutputEntry, At
  <2>2. /\ pc.i \in DOMAIN ProgramSeq(s) /\ s \in Specs /\ P = p
        /\ pc.i \in Nat \ {0} /\ pc.j \in Nat \ {0} /\ pc.n \in Nat
    BY <2>1, AtProgramOfSpec
  <2>3. bus_map = Slots(s)
    BY DEF Deploying, Prepared
  <2>4. DOMAIN Slots(s) = 1 .. Len(Slots(s)) /\ Len(Slots(s)) \in Nat
    BY <2>2, SpecSequences
  <2> QED BY <2>1, <2>2, <2>3, <2>4
<1>u. Undisturbed /\ UNCHANGED <<active_random_inputs, active_waveforms>>
  BY DEF SetupOutputEntry, Undisturbed
<1>1. \/ e.source_id # p.name /\ SkipTo([pc EXCEPT !.j = @ + 1])
      \/ Throw
      \/ /\ e.source_id = p.name
         /\ \E fills \in fills0 : WriteThen(SlotStores(e, DmaAddress(p), pc.n, fills),
                                            [pc EXCEPT !.j = @ + 1, !.n = @ + 1])
  BY <1>0, Zenon DEF SetupOutputEntry
<1>2. pc.n = SlotRank(s, p, pc.j) /\ active_random_inputs = 0 /\ active_waveforms = 0
  BY <1>0 DEF Deploying, CountedSoFar
<1>3. SlotRank(s, p, pc.j + 1) = IF e.source_id = p.name THEN SlotRank(s, p, pc.j) + 1
                                                         ELSE SlotRank(s, p, pc.j)
  BY <1>0, SlotRankSteps
<1>4. pc.j \in SlotsOf(s, p) <=> e.source_id = p.name
  BY <1>0 DEF SlotsOf
<1>5. ASSUME NEW next, next.spec = s, next.phase = "output_dma", next.i = pc.i, next.j = pc.j + 1,
             next.n = SlotRank(s, p, pc.j + 1)
      PROVE  /\ \A w : Due(next, w) => Due(pc, w) \/ (pc.j \in SlotsOf(s, p) /\ w \in SlotWrites(s, p, pc.j))
             /\ CountedSoFar(next, active_random_inputs', active_waveforms')
  <2>1. \A w : Due(next, w) => Due(pc, w) \/ (pc.j \in SlotsOf(s, p) /\ w \in SlotWrites(s, p, pc.j))
    BY <1>0, <1>5, NextSlotDue
  <2>2. next.i # 0 /\ next.j # 0
    BY <1>0, <1>5
  <2>3. CountedSoFar(next, active_random_inputs', active_waveforms')
    BY <1>u, <1>2, <1>5, <2>2 DEF CountedSoFar
  <2> QED BY <2>1, <2>3
<1>f. /\ [pc EXCEPT !.j = @ + 1].spec = s /\ [pc EXCEPT !.j = @ + 1].phase = "output_dma"
      /\ [pc EXCEPT !.j = @ + 1].i = pc.i /\ [pc EXCEPT !.j = @ + 1].j = pc.j + 1
      /\ [pc EXCEPT !.j = @ + 1].n = pc.n
      /\ [pc EXCEPT !.j = @ + 1, !.n = @ + 1].spec = s
      /\ [pc EXCEPT !.j = @ + 1, !.n = @ + 1].phase = "output_dma"
      /\ [pc EXCEPT !.j = @ + 1, !.n = @ + 1].i = pc.i
      /\ [pc EXCEPT !.j = @ + 1, !.n = @ + 1].j = pc.j + 1
      /\ [pc EXCEPT !.j = @ + 1, !.n = @ + 1].n = pc.n + 1
  <2>1. pc = [phase |-> pc.phase, cmd |-> pc.cmd, spec |-> pc.spec, i |-> pc.i, j |-> pc.j,
              k |-> pc.k, n |-> pc.n]
    BY DEF Running, RunningPc
  <2> QED BY <1>0, <2>1
<1>6. CASE e.source_id # p.name /\ SkipTo([pc EXCEPT !.j = @ + 1])
  <2>1. PICK next : next = [pc EXCEPT !.j = @ + 1]
    OBVIOUS
  <2>2. /\ next.spec = s /\ next.phase = "output_dma" /\ next.i = pc.i /\ next.j = pc.j + 1
        /\ next.n = SlotRank(s, p, pc.j + 1)
    BY <1>2, <1>3, <1>6, <1>f, <2>1
  <2>3. /\ \A w : Due(next, w) => Due(pc, w)
        /\ CountedSoFar(next, active_random_inputs', active_waveforms')
    BY <1>4, <1>5, <1>6, <2>2
  <2>4. SkipTo(next)
    BY <1>6, <2>1
  <2>5. \A w : DueRom(next, w) => DueRom(pc, w)
    BY <1>0, <2>2 DEF DueRom
  <2> QED BY <1>0, <1>u, <2>2, <2>3, <2>4, <2>5, SkipKeepsLog DEF Beginning, AfterSequencer
<1>7. CASE Throw
  BY <1>7, ThrowKeepsLog
<1>8. CASE /\ e.source_id = p.name
           /\ \E fills \in fills0 : WriteThen(SlotStores(e, DmaAddress(p), pc.n, fills),
                                              [pc EXCEPT !.j = @ + 1, !.n = @ + 1])
  <2>1. PICK fills \in fills0 : WriteThen(SlotStores(e, DmaAddress(p), pc.n, fills),
                                          [pc EXCEPT !.j = @ + 1, !.n = @ + 1])
    BY <1>8
  <2>2. PICK next : next = [pc EXCEPT !.j = @ + 1, !.n = @ + 1]
    OBVIOUS
  <2>3. PICK stores : stores = SlotStores(e, DmaAddress(p), pc.n, fills)
    OBVIOUS
  <2>4. /\ next.spec = s /\ next.phase = "output_dma" /\ next.i = pc.i /\ next.j = pc.j + 1
        /\ next.n = SlotRank(s, p, pc.j + 1)
    BY <1>2, <1>3, <1>8, <1>f, <2>2
  <2>5. p \in ProgramsOf(s) /\ pc.j \in SlotsOf(s, p)
    BY <1>0, <1>4, <1>8, SpecSequences
  <2>6. \A key \in DOMAIN InitialValues(s) : key \in DOMAIN ivs /\ ivs[key] = InitialValues(s)[key]
    BY <1>0 DEF Deploying, Prepared, Beginning
  <2>7. /\ AreStores(stores)
        /\ SlotWrites(s, p, pc.j) \subseteq Range(stores)
        /\ \A w \in Range(stores) : w \in SlotWrites(s, p, pc.j) \/ StrayFill(s, w)
    <3>1. PICK d \in SlotsOf(s, p) : d = pc.j
      BY <2>5
    <3> QED BY <1>0, <1>2, <2>1, <2>3, <2>5, <2>6, <3>1, SlotStoresWrites
  <2>8. \A w \in Range(stores) : Explained(next, w)
    <3>1. \A w \in SlotWrites(s, p, pc.j) : w \in BeforeEnable(s)
      BY <1>0, <2>5, BeforeEnableWrites DEF Called
    <3> QED BY <2>4, <2>7, <3>1 DEF Explained
  <2>9. Completes(stores, next)
    <3>1. \A w : Due(next, w) => Due(pc, w) \/ w \in Range(stores)
      BY <1>5, <2>4, <2>7
    <3> QED BY <1>0, <2>4, <2>8, <3>1 DEF Completes, Beginning, AfterSequencer
  <2>10. WriteThen(stores, next)
    BY <2>1, <2>2, <2>3
  <2>11. CountedSoFar(next, active_random_inputs', active_waveforms')
    BY <1>5, <2>4
  <2> QED BY <1>u, <2>7, <2>9, <2>10, <2>11, WriteKeepsLog
<1> QED BY <1>1, <1>6, <1>7, <1>8

\* Where the address of a memory value leaves the channel its place, masking it
\* changes nothing; one of a waveform input is as good as shifted out.
LEMMA FitsMod == ASSUME NEW a \in Nat, NEW b \in Nat \ {0}, a < b PROVE a % b = a
OBVIOUS

LEMMA FitsDiv ==
  ASSUME NEW a \in Nat, NEW b \in Nat \ {0}, a < b, NEW k \in Nat PROVE (a + b * k) \div b = k
OBVIOUS

\* The writes of a memory value.
LEMMA MemoryStoresWrites ==
  ASSUME AddressesFit, NEW s \in Specs, NEW p \in ProgramsOf(s),
         NEW m \in Range(SpecData[s].memories[p.name])
  PROVE  /\ AreStores(MemoryStores(CoreControl(p), p.n_channels, m))
         /\ Range(MemoryStores(CoreControl(p), p.n_channels, m)) = MemoryWrites(p, m)
<1> DEFINE base == CoreControl(p)
           n == p.n_channels
           store(c) == <<base + 4 * (m.address + MemoryShift * (c - 1)), m.value[c]>>
<1>1. n \in Nat /\ m.address \in Nat /\ MemoryShift \in Nat \ {0}
  BY SpecAssumption, HilAssumption DEF ProgramsOf, ProgramSeq
<1>2. CASE Len(m.value) = n
  <2>1. m.address % MemoryShift = m.address
    <3>1. m.address < MemoryShift
      BY <1>2 DEF AddressesFit
    <3> QED BY <1>1, <3>1, FitsMod
  <2>2. MemoryStores(base, n, m) = [c \in 1 .. n |-> store(c)]
    BY <1>2, <2>1 DEF MemoryStores
  <2>3. MemoryWrites(p, m) = {<<base + 4 * (m.address + MemoryShift * c), m.value[c + 1]>> : c \in 0 .. n - 1}
    BY <1>2 DEF MemoryWrites
  <2>4. \A x : x \in {<<base + 4 * (m.address + MemoryShift * c), m.value[c + 1]>> : c \in 0 .. n - 1}
               <=> x \in {store(c) : c \in 1 .. n}
    <3>1. ASSUME NEW c \in 0 .. n - 1
          PROVE  /\ c + 1 \in 1 .. n
                 /\ store(c + 1) = <<base + 4 * (m.address + MemoryShift * c), m.value[c + 1]>>
      <4>1. c + 1 \in 1 .. n /\ (c + 1) - 1 = c
        BY <1>1
      <4> QED BY <4>1
    <3>2. ASSUME NEW c \in 1 .. n
          PROVE  /\ c - 1 \in 0 .. n - 1
                 /\ store(c) = <<base + 4 * (m.address + MemoryShift * (c - 1)), m.value[(c - 1) + 1]>>
      <4>1. c - 1 \in 0 .. n - 1 /\ (c - 1) + 1 = c
        BY <1>1
      <4> QED BY <4>1
    <3> QED BY <3>1, <3>2
  <2>5. \A c : store(c) = <<store(c)[1], store(c)[2]>>
    OBVIOUS
  <2> HIDE DEF store
  <2>6. Range([c \in 1 .. n |-> store(c)]) = {store(c) : c \in 1 .. n}
    BY DEF Range
  <2>7. [c \in 1 .. n |-> store(c)] \in Seq({store(c) : c \in 1 .. n})
    BY <1>1
  <2>8. IsSequence([c \in 1 .. n |-> store(c)])
    BY <2>7, SequenceIntro
  <2>9. MemoryWrites(p, m) = {store(c) : c \in 1 .. n}
    BY <2>3, <2>4
  <2> QED BY <2>2, <2>5, <2>6, <2>8, <2>9 DEF AreStores
<1>3. CASE Len(m.value) # n
  BY <1>3, OneStore DEF MemoryStores, MemoryWrites
<1> QED BY <1>2, <1>3

\* A value in the program memory of a core, or the next core.
LEMMA SetupMemoryKeepsLog ==
  ASSUME AddressesFit, Deploying, Running, IsSequence(operations), UNCHANGED logged, SetupMemory
  PROVE  LogKept
<1> DEFINE s == pc.spec
           p == ProgramSeq(s)[pc.i]
<1>0. /\ pc.phase = "memories" /\ pc.i \in DOMAIN ProgramSeq(s) /\ s \in Specs
      /\ P = p /\ CoreMemory = MemoryOf(s, p) /\ p \in ProgramsOf(s)
      /\ pc.i \in Nat \ {0} /\ pc.j \in Nat \ {0}
      /\ DOMAIN ProgramSeq(s) \subseteq Nat
      /\ DOMAIN MemoryOf(s, p) = 1 .. Len(MemoryOf(s, p)) /\ Len(MemoryOf(s, p)) \in Nat
  <2>1. pc.phase = "memories" /\ InProgram
    BY DEF SetupMemory, At
  <2>2. /\ pc.i \in DOMAIN ProgramSeq(s) /\ s \in Specs /\ P = p /\ CoreMemory = MemoryOf(s, p)
        /\ pc.i \in Nat \ {0} /\ pc.j \in Nat \ {0}
    BY <2>1, AtProgramOfSpec
  <2>3. /\ DOMAIN ProgramSeq(s) \subseteq Nat
        /\ p \in ProgramsOf(s)
        /\ DOMAIN MemoryOf(s, p) = 1 .. Len(MemoryOf(s, p)) /\ Len(MemoryOf(s, p)) \in Nat
    BY <2>2, SpecSequences
  <2> QED BY <2>1, <2>2, <2>3
<1>u. Undisturbed /\ UNCHANGED <<active_random_inputs, active_waveforms>>
  BY DEF SetupMemory, Undisturbed, deployerVars
<1>c. active_random_inputs = 0 /\ active_waveforms = 0
  BY <1>0 DEF Deploying, CountedSoFar
<1>1. ASSUME NEW next, next.spec = s, next.phase = "memories", next.i # 0, next.j # 0
      PROVE  /\ CountedSoFar(next, active_random_inputs', active_waveforms')
             /\ \A w : DueRom(next, w) => DueRom(pc, w)
             /\ \A w : Due(next, w) => Due(pc, w) \/ DueMemory(next, w)
  <2>1. CountedSoFar(next, active_random_inputs', active_waveforms')
    BY <1>u, <1>c, <1>1 DEF CountedSoFar
  <2>2. ASSUME NEW w
        PROVE  /\ DueRom(next, w) => DueRom(pc, w)
               /\ Due(next, w) => Due(pc, w) \/ DueMemory(next, w)
    BY <1>0, <1>1, DueElsewhere DEF Due
  <2> QED BY <2>1, <2>2
<1>2. CASE pc.j <= Len(CoreMemory)
  <2> DEFINE m == MemoryOf(s, p)[pc.j]
  <2>1. WriteThen(MemoryStores(CoreControl(p), p.n_channels, m), [pc EXCEPT !.j = @ + 1])
    BY <1>0, <1>2 DEF SetupMemory
  <2>2. PICK next : next = [pc EXCEPT !.j = @ + 1]
    OBVIOUS
  <2>3. PICK stores : stores = MemoryStores(CoreControl(p), p.n_channels, m)
    OBVIOUS
  <2>4. next.spec = s /\ next.phase = "memories" /\ next.i = pc.i /\ next.j = pc.j + 1
    <3>1. pc = [phase |-> pc.phase, cmd |-> pc.cmd, spec |-> pc.spec, i |-> pc.i, j |-> pc.j,
                k |-> pc.k, n |-> pc.n]
      BY DEF Running, RunningPc
    <3> QED BY <1>0, <2>2, <3>1
  <2>5. pc.j \in DOMAIN MemoryOf(s, p) /\ m \in Range(SpecData[s].memories[p.name])
    <3>1. pc.j \in DOMAIN MemoryOf(s, p)
      <4>1. pc.j <= Len(MemoryOf(s, p))
        BY <1>0, <1>2
      <4> QED BY <1>0, <4>1
    <3>2. \A x : \A i \in DOMAIN x : x[i] \in Range(x)
      BY DEF Range
    <3>3. m \in Range(MemoryOf(s, p))
      BY <3>1, <3>2
    <3> QED BY <3>1, <3>3 DEF MemoryOf
  <2>6. AreStores(stores) /\ Range(stores) = MemoryWrites(p, m)
    BY <1>0, <2>3, <2>5, MemoryStoresWrites
  <2>7. \A w : DueMemory(next, w) => DueMemory(pc, w) \/ w \in Range(stores)
    <3>1. SUFFICES ASSUME NEW w, DueMemory(next, w) PROVE DueMemory(pc, w) \/ w \in Range(stores)
      OBVIOUS
    <3>2. PICK i \in DOMAIN ProgramSeq(s) : \E j \in DOMAIN MemoryOf(s, ProgramSeq(s)[i]) :
            /\ w \in MemoryWrites(ProgramSeq(s)[i], MemoryOf(s, ProgramSeq(s)[i])[j])
            /\ i < pc.i \/ (i = pc.i /\ j < pc.j + 1)
      BY <1>0, <2>4, <3>1 DEF DueMemory, Passed, AfterMemories
    <3>3. PICK j \in DOMAIN MemoryOf(s, ProgramSeq(s)[i]) :
            /\ w \in MemoryWrites(ProgramSeq(s)[i], MemoryOf(s, ProgramSeq(s)[i])[j])
            /\ i < pc.i \/ (i = pc.i /\ j < pc.j + 1)
      BY <3>2
    <3>4. j \in Nat
      BY <1>0, <3>2, <3>3, SpecSequences
    <3>5. i < pc.i \/ (i = pc.i /\ j < pc.j) \/ (i = pc.i /\ j = pc.j)
      BY <1>0, <3>3, <3>4
    <3> QED BY <1>0, <2>6, <3>3, <3>5 DEF DueMemory, Passed
  <2>8. \A w \in Range(stores) : Explained(next, w)
    BY <1>0, <2>4, <2>5, <2>6, BeforeEnableWrites DEF Called, Explained
  <2>9. next.i # 0 /\ next.j # 0
    BY <1>0, <2>4
  <2>10. Completes(stores, next) /\ CountedSoFar(next, active_random_inputs', active_waveforms')
    BY <1>0, <1>1, <2>4, <2>7, <2>8, <2>9 DEF Completes, Due, Beginning, AfterSequencer
  <2>11. WriteThen(stores, next)
    BY <2>1, <2>2, <2>3
  <2> QED BY <1>u, <2>6, <2>10, <2>11, WriteKeepsLog
<1>3. CASE ~(pc.j <= Len(CoreMemory))
  <2>1. SkipTo(NextProgram)
    BY <1>3 DEF SetupMemory
  <2>2. PICK next : next = NextProgram
    OBVIOUS
  <2>3. /\ next.spec = s /\ next.phase = "memories" /\ next.i = pc.i + 1 /\ next.j = 1
    BY <1>0, <2>2 DEF NextProgram, AtProgram
  <2>4. \A w : DueMemory(next, w) => DueMemory(pc, w)
    <3>1. SUFFICES ASSUME NEW w, DueMemory(next, w) PROVE DueMemory(pc, w)
      OBVIOUS
    <3>2. PICK i \in DOMAIN ProgramSeq(s) : \E j \in DOMAIN MemoryOf(s, ProgramSeq(s)[i]) :
            /\ w \in MemoryWrites(ProgramSeq(s)[i], MemoryOf(s, ProgramSeq(s)[i])[j])
            /\ i < pc.i + 1 \/ (i = pc.i + 1 /\ j < 1)
      BY <1>0, <2>3, <3>1 DEF DueMemory, Passed, AfterMemories
    <3>3. PICK j \in DOMAIN MemoryOf(s, ProgramSeq(s)[i]) :
            /\ w \in MemoryWrites(ProgramSeq(s)[i], MemoryOf(s, ProgramSeq(s)[i])[j])
            /\ i < pc.i + 1 \/ (i = pc.i + 1 /\ j < 1)
      BY <3>2
    <3>4. j \in Nat /\ ~(j < 1) /\ i \in Nat
      <4>1. DOMAIN MemoryOf(s, ProgramSeq(s)[i]) = 1 .. Len(MemoryOf(s, ProgramSeq(s)[i]))
            /\ Len(MemoryOf(s, ProgramSeq(s)[i])) \in Nat
        BY <1>0, <3>2, SpecSequences
      <4> QED BY <1>0, <4>1
    <3>5. i < pc.i \/ i = pc.i
      BY <1>0, <3>3, <3>4
    <3>6. i = pc.i => j < pc.j
      <4>1. SUFFICES ASSUME i = pc.i PROVE j < pc.j
        OBVIOUS
      <4>2. j \in 1 .. Len(MemoryOf(s, p))
        BY <1>0, <4>1
      <4>3. ~(pc.j <= Len(MemoryOf(s, p)))
        BY <1>0, <1>3
      <4> QED BY <1>0, <4>2, <4>3
    <3> QED BY <1>0, <3>3, <3>5, <3>6 DEF DueMemory, Passed
  <2>5. next.i # 0 /\ next.j # 0
    BY <1>0, <2>3
  <2>6. /\ CountedSoFar(next, active_random_inputs', active_waveforms')
        /\ \A w : Due(next, w) => Due(pc, w)
        /\ \A w : DueRom(next, w) => DueRom(pc, w)
    BY <1>1, <2>3, <2>4, <2>5 DEF Due
  <2>7. SkipTo(next)
    BY <2>1, <2>2
  <2> QED BY <1>0, <1>u, <2>3, <2>6, <2>7, SkipKeepsLog DEF Beginning, AfterSequencer
<1> QED BY <1>2, <1>3

----------------------------------------------------------------------------
(* setup_inputs *)

\* The writes of a constant input.
LEMMA ConstantStoresWrites ==
  ASSUME NEW s \in Specs, NEW u \in Uses(s)
  PROVE  LET stores == ConstantStores(UseEngine(s, u), UseSelector(s, u), UseDest(s, u),
                                      InputValue(UsedInput(s, u), u[3]))
         IN AreStores(stores) /\ Range(stores) = ConstantWrites(s, u)
<1> DEFINE a == <<UseEngine(s, u) + 12, UseSelector(s, u)>>
           b == <<UseEngine(s, u) + 8, UseDest(s, u)>>
           c == <<UseEngine(s, u), InputValue(UsedInput(s, u), u[3])>>
<1>1. a = <<a[1], a[2]>> /\ b = <<b[1], b[2]>> /\ c = <<c[1], c[2]>>
  OBVIOUS
<1>2. ConstantWrites(s, u) = {a, b, c}
  BY DEF ConstantWrites
<1>3. ConstantStores(UseEngine(s, u), UseSelector(s, u), UseDest(s, u),
                     InputValue(UsedInput(s, u), u[3])) = <<a, b, c>>
  BY DEF ConstantStores
<1> HIDE DEF a, b, c
<1>4. Range(<<a, b, c>>) = {a, b, c} /\ <<a, b, c>> \in Seq({a, b, c})
  BY DEF Range
<1> QED BY <1>1, <1>2, <1>3, <1>4 DEF AreStores, IsSequence

\* The metadata of a generated input is that of a signed float of 32 bits.
LEMMA GeneratedMetadata == get_metadata_value(32, TRUE, TRUE) = 56
<1>1. (32 - 8) % WordModulus = 24
  <2>1. WordModulus \in Nat \ {0} /\ 24 < WordModulus
    BY BusAssumption, HilAssumption
  <2>2. 32 - 8 = 24 /\ 24 \in Nat
    OBVIOUS
  <2> QED BY <2>1, <2>2, FitsMod
<1>2. SetBit(24, 16) = 24 /\ SetBit(24, 32) = 56
  <2>1. 24 \div 16 = 1 /\ 1 % 2 = 1 /\ 24 \div 32 = 0 /\ 0 % 2 = 0 /\ 24 + 32 = 56
    OBVIOUS
  <2> QED BY <2>1 DEF SetBit
<1> QED BY <1>1, <1>2 DEF get_metadata_value

\* The writes of a waveform.
LEMMA WaveStoresWrites ==
  ASSUME AddressesFit, NEW s \in Specs, NEW u \in Uses(s), UsedInput(s, u).source_type = "waveform"
  PROVE  LET stores == WaveStores(Bases.waveform_generator, UseRank(s, u), UsedInput(s, u).wave,
                                  UseDest(s, u))
         IN AreStores(stores) /\ Range(stores) = WaveWrites(s, u)
<1> DEFINE base == Bases.waveform_generator
           rank == UseRank(s, u)
           dest == UseDest(s, u)
           v == UsedInput(s, u).wave[u[3] + 1]
           a == <<base + 8, rank>>
           b == <<base + 12, v.v_on>>
           c == <<base + 16, v.v_off>>
           d == <<base + 20, v.t_delay>>
           e == <<base + 24, v.t_on>>
           f == <<base + 28, v.period>>
           g == <<base + 32, dest>>
           h == <<base + 4, 0>>
           i == <<base + 36, 56>>
           j == <<base, rank + 1>>
           stores == <<a, b, c, d, e, f, g, h, i, j>>
<1>1. dest \div BusShift = u[3]
  <2>1. u[3] \in Nat /\ u[1] \in DOMAIN ProgramSeq(s) /\ u[2] \in DOMAIN InputsAt(s, u[1])
    BY UsesMember
  <2>2. /\ ProgramSeq(s)[u[1]] \in ProgramsOf(s)
        /\ UsedInput(s, u) \in Range(SpecData[s].inputs[ProgramSeq(s)[u[1]].name])
    <3>1. \A x : \A y \in DOMAIN x : x[y] \in Range(x)
      BY DEF Range
    <3>2. UsedInput(s, u) \in Range(InputsAt(s, u[1]))
      BY <2>1, <3>1 DEF UsedInput
    <3> QED BY <2>1, <3>2, SpecSequences DEF InputsAt
  <2>3. UsedInput(s, u).address < BusShift
    BY <2>2 DEF AddressesFit
  <2>4. UsedInput(s, u).address \in Nat /\ BusShift \in Nat \ {0}
    BY <2>2, SpecAssumption, HilAssumption DEF ProgramsOf, ProgramSeq
  <2> QED BY <2>1, <2>3, <2>4, FitsDiv DEF UseDest, InputDest
<1>2. WaveStores(base, rank, UsedInput(s, u).wave, dest) = stores
  BY <1>1, GeneratedMetadata DEF WaveStores
<1>3. WaveWrites(s, u) = {a, b, c, d, e, f, g, h, i, j}
  BY DEF WaveWrites
<1>4. \A x, y : <<x, y>> = <<<<x, y>>[1], <<x, y>>[2]>>
  OBVIOUS
<1>5. \A x \in {a, b, c, d, e, f, g, h, i, j} : x = <<x[1], x[2]>>
  BY <1>4
<1> HIDE DEF a, b, c, d, e, f, g, h, i, j
<1>6. Range(stores) = {a, b, c, d, e, f, g, h, i, j} /\ stores \in Seq({a, b, c, d, e, f, g, h, i, j})
  BY DEF Range
<1> HIDE DEF stores
<1>7. AreStores(stores) /\ Range(stores) = WaveWrites(s, u)
  BY <1>3, <1>5, <1>6 DEF AreStores, IsSequence
<1> QED BY <1>2, <1>7

\* Steps of setup_inputs: to the next channel of an input, the next input, the
\* next program.
NextChannel(c, d) ==
  /\ c.j \in DOMAIN InputsAt(c.spec, c.i)
  /\ c.k < InputChannels(ProgramSeq(c.spec)[c.i], InputsAt(c.spec, c.i)[c.j])
  /\ d.i = c.i /\ d.j = c.j /\ d.k = c.k + 1 /\ d.n = c.n
NextInput(c, d) ==
  /\ c.j \in DOMAIN InputsAt(c.spec, c.i)
  /\ c.k >= InputChannels(ProgramSeq(c.spec)[c.i], InputsAt(c.spec, c.i)[c.j])
  /\ d.i = c.i /\ d.j = c.j + 1 /\ d.k = 0
  /\ d.n = IF IsConstant(InputsAt(c.spec, c.i)[c.j]) THEN c.n + 1 ELSE c.n
NextCore(c, d) ==
  /\ c.j > Len(InputsAt(c.spec, c.i))
  /\ d.i = c.i + 1 /\ d.j = 1 /\ d.k = 0 /\ d.n = 0

\* What is due more after such a step.
LEMMA NextInputDue ==
  ASSUME NEW c, NEW d, Position(c), c.phase = "inputs", c.i \in DOMAIN ProgramSeq(c.spec),
         d.spec = c.spec, d.phase = c.phase, NEW w, Due(d, w)
  PROVE  /\ NextChannel(c, d) => Due(c, w) \/ UseWrites(c.spec, Here(c), w)
         /\ NextInput(c, d) => Due(c, w)
         /\ NextCore(c, d) =>
              \/ Due(c, w)
              \/ NoiseCount(c.spec, c.i) # 0 /\ w = <<Bases.noise_generator, NoiseCount(c.spec, c.i)>>
<1>1. /\ DueSlot(d, w) <=> DueSlot(c, w)
      /\ DueDma(d, w) <=> DueDma(c, w)
      /\ DueMemory(d, w) <=> DueMemory(c, w)
      /\ DueCore(d, w) <=> DueCore(c, w)
      /\ DueSequencer(d, w) <=> DueSequencer(c, w)
  BY DueElsewhere
<1>2. /\ c.spec \in Specs /\ c.i \in Nat /\ c.j \in Nat /\ c.k \in Nat
      /\ DOMAIN ProgramSeq(c.spec) \subseteq Nat
  BY SpecSequences DEF Position
<1>3. \A e : e.phase = "inputs" /\ e.spec = c.spec =>
        /\ DueUse(e, w) <=> \E u \in Uses(c.spec) : UseWrites(c.spec, u, w) /\ Before(u, Here(e))
        /\ DueNoise(e, w) <=>
             \E i \in DOMAIN ProgramSeq(c.spec) :
               /\ NoiseCount(c.spec, i) # 0 /\ w = <<Bases.noise_generator, NoiseCount(c.spec, i)>>
               /\ i < e.i
  BY DEF DueUse, DueNoise, Passed, AfterInputs
<1>4. ASSUME NextChannel(c, d)
      PROVE  Due(c, w) \/ UseWrites(c.spec, Here(c), w)
  <2>1. Here(d) = <<c.i, c.j, c.k + 1>> /\ Here(c) = <<c.i, c.j, c.k>>
    BY <1>4 DEF Here, NextChannel
  <2>2. \A u \in Uses(c.spec) : Before(u, Here(d)) <=> Before(u, Here(c)) \/ u = Here(c)
    <3>1. /\ c.j \in DOMAIN InputsAt(c.spec, c.i)
          /\ c.k < InputChannels(ProgramSeq(c.spec)[c.i], InputsAt(c.spec, c.i)[c.j])
      BY <1>4 DEF NextChannel
    <3>2. \A u \in Uses(c.spec) :
            Before(u, <<c.i, c.j, c.k + 1>>) <=> Before(u, <<c.i, c.j, c.k>>) \/ u = <<c.i, c.j, c.k>>
      BY <1>2, <3>1, BeforeSteps
    <3> QED BY <2>1, <3>2
  <2>3. DueUse(d, w) => DueUse(c, w) \/ UseWrites(c.spec, Here(c), w)
    BY <1>3, <2>2
  <2>4. DueNoise(d, w) => DueNoise(c, w)
    BY <1>3, <1>4 DEF NextChannel
  <2> QED BY <1>1, <2>3, <2>4 DEF Due
<1>5. ASSUME NextInput(c, d)
      PROVE  Due(c, w)
  <2>1. Here(d) = <<c.i, c.j + 1, 0>> /\ Here(c) = <<c.i, c.j, c.k>>
    BY <1>5 DEF Here, NextInput
  <2>2. \A u \in Uses(c.spec) : Before(u, Here(d)) <=> Before(u, Here(c))
    <3>1. /\ c.j \in DOMAIN InputsAt(c.spec, c.i)
          /\ c.k >= InputChannels(ProgramSeq(c.spec)[c.i], InputsAt(c.spec, c.i)[c.j])
      BY <1>5 DEF NextInput
    <3>2. \A u \in Uses(c.spec) : Before(u, <<c.i, c.j + 1, 0>>) <=> Before(u, <<c.i, c.j, c.k>>)
      BY <1>2, <3>1, BeforeSteps
    <3> QED BY <2>1, <3>2
  <2>3. DueUse(d, w) => DueUse(c, w)
    BY <1>3, <2>2
  <2>4. DueNoise(d, w) => DueNoise(c, w)
    BY <1>3, <1>5 DEF NextInput
  <2> QED BY <1>1, <2>3, <2>4 DEF Due
<1>6. ASSUME NextCore(c, d)
      PROVE  \/ Due(c, w)
             \/ NoiseCount(c.spec, c.i) # 0 /\ w = <<Bases.noise_generator, NoiseCount(c.spec, c.i)>>
  <2>1. Here(d) = <<c.i + 1, 1, 0>> /\ Here(c) = <<c.i, c.j, c.k>>
    BY <1>6 DEF Here, NextCore
  <2>2. \A u \in Uses(c.spec) : Before(u, Here(d)) <=> Before(u, Here(c))
    <3>1. c.j > Len(InputsAt(c.spec, c.i))
      BY <1>6 DEF NextCore
    <3>2. \A u \in Uses(c.spec) : Before(u, <<c.i + 1, 1, 0>>) <=> Before(u, <<c.i, c.j, c.k>>)
      BY <1>2, <3>1, BeforeSteps
    <3> QED BY <2>1, <3>2
  <2>3. DueUse(d, w) => DueUse(c, w)
    BY <1>3, <2>2
  <2>4. \A i \in DOMAIN ProgramSeq(c.spec) : i < d.i <=> i < c.i \/ i = c.i
    BY <1>2, <1>6 DEF NextCore
  <2>5. DueNoise(d, w) =>
          \/ DueNoise(c, w)
          \/ NoiseCount(c.spec, c.i) # 0 /\ w = <<Bases.noise_generator, NoiseCount(c.spec, c.i)>>
    BY <1>3, <2>4
  <2> QED BY <1>1, <2>3, <2>5 DEF Due
<1> QED BY <1>4, <1>5, <1>6

\* The counters after it: one more generated input of a type if the channel is
\* of one.
LEMMA NextInputCounted ==
  ASSUME NEW c, NEW d, Position(c), c.phase = "inputs", c.i \in DOMAIN ProgramSeq(c.spec),
         d.spec = c.spec, d.phase = c.phase, NEW random, NEW waves, CountedSoFar(c, random, waves),
         NextChannel(c, d) \/ NextInput(c, d) \/ NextCore(c, d)
  PROVE  LET one(type) == IF NextChannel(c, d) /\ InputsAt(c.spec, c.i)[c.j].source_type = type
                            THEN 1 ELSE 0
         IN CountedSoFar(d, random + one("random"), waves + one("waveform"))
<1> DEFINE s == c.spec
           one(type) == IF NextChannel(c, d) /\ InputsAt(s, c.i)[c.j].source_type = type
                          THEN 1 ELSE 0
           constants(j) == {x \in 1 .. j - 1 : IsConstant(InputsAt(s, c.i)[x])}
<1>1. /\ s \in Specs /\ c.i \in Nat \ {0} /\ c.j \in Nat \ {0} /\ c.k \in Nat
      /\ DOMAIN ProgramSeq(s) \subseteq Nat
      /\ DOMAIN InputsAt(s, c.i) = 1 .. Len(InputsAt(s, c.i)) /\ Len(InputsAt(s, c.i)) \in Nat
  BY SpecSequences DEF Position, CountedSoFar
<1>0. /\ s \in Specs /\ c.i \in Nat /\ c.j \in Nat /\ c.k \in Nat
      /\ c.i \in DOMAIN ProgramSeq(s)
  BY DEF Position
<1>e. \A type : \A u \in UsesOf(s, type) :
        /\ c.j \in DOMAIN InputsAt(s, c.i) =>
             /\ c.k < InputChannels(ProgramSeq(s)[c.i], InputsAt(s, c.i)[c.j]) =>
                  (Before(u, <<c.i, c.j, c.k + 1>>) <=> Before(u, <<c.i, c.j, c.k>>) \/ u = <<c.i, c.j, c.k>>)
             /\ c.k >= InputChannels(ProgramSeq(s)[c.i], InputsAt(s, c.i)[c.j]) =>
                  (Before(u, <<c.i, c.j + 1, 0>>) <=> Before(u, <<c.i, c.j, c.k>>))
        /\ c.j > Len(InputsAt(s, c.i)) =>
             (Before(u, <<c.i + 1, 1, 0>>) <=> Before(u, <<c.i, c.j, c.k>>))
  <2>1. \A u \in Uses(s) :
        /\ c.j \in DOMAIN InputsAt(s, c.i) =>
             /\ c.k < InputChannels(ProgramSeq(s)[c.i], InputsAt(s, c.i)[c.j]) =>
                  (Before(u, <<c.i, c.j, c.k + 1>>) <=> Before(u, <<c.i, c.j, c.k>>) \/ u = <<c.i, c.j, c.k>>)
             /\ c.k >= InputChannels(ProgramSeq(s)[c.i], InputsAt(s, c.i)[c.j]) =>
                  (Before(u, <<c.i, c.j + 1, 0>>) <=> Before(u, <<c.i, c.j, c.k>>))
        /\ c.j > Len(InputsAt(s, c.i)) =>
             (Before(u, <<c.i + 1, 1, 0>>) <=> Before(u, <<c.i, c.j, c.k>>))
    BY <1>0, BeforeSteps
  <2>2. \A type : UsesOf(s, type) \subseteq Uses(s)
    BY DEF UsesOf
  <2> QED BY <2>1, <2>2
<1>2. ~ (NextInput(c, d) /\ NextChannel(c, d)) /\ ~ (NextCore(c, d) /\ NextChannel(c, d))
      /\ ~ (NextCore(c, d) /\ NextInput(c, d))
  <2>1. c.j \in DOMAIN InputsAt(s, c.i) => ~(c.j > Len(InputsAt(s, c.i)))
    BY <1>1
  <2>2. c.j \in DOMAIN InputsAt(s, c.i) =>
          InputChannels(ProgramSeq(s)[c.i], InputsAt(s, c.i)[c.j]) \in Nat
    BY <1>1, InputChannelsType
  <2> QED BY <1>1, <2>1, <2>2 DEF NextInput, NextChannel, NextCore
<1>3. ASSUME NEW type, IsFiniteSet(Earlier(s, type, Here(c)))
      PROVE  /\ IsFiniteSet(Earlier(s, type, Here(d)))
             /\ Cardinality(Earlier(s, type, Here(d))) =
                  Cardinality(Earlier(s, type, Here(c))) + one(type)
  <2>0. Cardinality(Earlier(s, type, Here(c))) \in Nat
    BY <1>3, FS_CardinalityType
  <2>1. CASE NextChannel(c, d)
    <3>1. Here(d) = <<c.i, c.j, c.k + 1>> /\ Here(c) = <<c.i, c.j, c.k>>
      BY <2>1 DEF Here, NextChannel
    <3>2. /\ Earlier(s, type, Here(d)) =
               IF InputsAt(s, c.i)[c.j].source_type = type
                 THEN Earlier(s, type, Here(c)) \union {Here(c)} ELSE Earlier(s, type, Here(c))
          /\ Here(c) \notin Earlier(s, type, Here(c))
      <4>1. /\ c.j \in DOMAIN InputsAt(s, c.i)
            /\ c.k < InputChannels(ProgramSeq(s)[c.i], InputsAt(s, c.i)[c.j])
        BY <2>1 DEF NextChannel
      <4>2. /\ Earlier(s, type, <<c.i, c.j, c.k + 1>>) =
                 IF InputsAt(s, c.i)[c.j].source_type = type
                   THEN Earlier(s, type, <<c.i, c.j, c.k>>) \union {<<c.i, c.j, c.k>>}
                   ELSE Earlier(s, type, <<c.i, c.j, c.k>>)
            /\ <<c.i, c.j, c.k>> \notin Earlier(s, type, <<c.i, c.j, c.k>>)
        <5>1. \A u \in UsesOf(s, type) :
                Before(u, <<c.i, c.j, c.k + 1>>) <=> Before(u, <<c.i, c.j, c.k>>) \/ u = <<c.i, c.j, c.k>>
          BY <1>e, <4>1
        <5>2. <<c.i, c.j, c.k>> \in UsesOf(s, type) <=> InputsAt(s, c.i)[c.j].source_type = type
          <6>1. c.k \in 0 .. InputChannels(ProgramSeq(s)[c.i], InputsAt(s, c.i)[c.j]) - 1
            BY <1>0, <4>1, InputChannelsType
          <6>2. <<c.i, c.j, c.k>> \in Uses(s)
            BY <1>0, <4>1, <6>1, UsesMember
          <6> QED BY <6>2 DEF UsesOf, UsedInput
        <5>3. ~ Before(<<c.i, c.j, c.k>>, <<c.i, c.j, c.k>>)
          BY <1>0 DEF Before
        <5> QED BY <5>1, <5>2, <5>3 DEF Earlier
      <4> QED BY <3>1, <4>2
    <3>3. CASE InputsAt(s, c.i)[c.j].source_type = type
      BY <1>3, <2>1, <3>2, <3>3, FS_AddElement
    <3>4. CASE InputsAt(s, c.i)[c.j].source_type # type
      BY <1>3, <2>0, <3>2, <3>4
    <3> QED BY <3>3, <3>4
  <2>2. CASE NextInput(c, d)
    <3>1. Here(d) = <<c.i, c.j + 1, 0>> /\ Here(c) = <<c.i, c.j, c.k>>
      BY <2>2 DEF Here, NextInput
    <3>2. Earlier(s, type, Here(d)) = Earlier(s, type, Here(c))
      <4>1. /\ c.j \in DOMAIN InputsAt(s, c.i)
            /\ c.k >= InputChannels(ProgramSeq(s)[c.i], InputsAt(s, c.i)[c.j])
        BY <2>2 DEF NextInput
      <4>2. \A u \in UsesOf(s, type) : Before(u, <<c.i, c.j + 1, 0>>) <=> Before(u, <<c.i, c.j, c.k>>)
        BY <1>e, <4>1
      <4>3. Earlier(s, type, <<c.i, c.j + 1, 0>>) = Earlier(s, type, <<c.i, c.j, c.k>>)
        BY <4>2 DEF Earlier
      <4> QED BY <3>1, <4>3
    <3> QED BY <1>2, <1>3, <2>0, <2>2, <3>2
  <2>3. CASE NextCore(c, d)
    <3>1. Here(d) = <<c.i + 1, 1, 0>> /\ Here(c) = <<c.i, c.j, c.k>>
      BY <2>3 DEF Here, NextCore
    <3>2. Earlier(s, type, Here(d)) = Earlier(s, type, Here(c))
      <4>1. c.j > Len(InputsAt(s, c.i))
        BY <2>3 DEF NextCore
      <4>2. \A u \in UsesOf(s, type) : Before(u, <<c.i + 1, 1, 0>>) <=> Before(u, <<c.i, c.j, c.k>>)
        BY <1>e, <4>1
      <4>3. Earlier(s, type, <<c.i + 1, 1, 0>>) = Earlier(s, type, <<c.i, c.j, c.k>>)
        BY <4>2 DEF Earlier
      <4> QED BY <3>1, <4>3
    <3> QED BY <1>2, <1>3, <2>0, <2>3, <3>2
  <2> QED BY <2>1, <2>2, <2>3
<1>4. /\ IsFiniteSet(Earlier(s, "random", Here(c))) /\ random = Cardinality(Earlier(s, "random", Here(c)))
      /\ IsFiniteSet(Earlier(s, "waveform", Here(c)))
      /\ waves = Cardinality(Earlier(s, "waveform", Here(c)))
      /\ c.n = Cardinality(constants(c.j))
  BY DEF CountedSoFar
<1>5. d.i \in DOMAIN ProgramSeq(s) =>
        d.n = Cardinality({x \in 1 .. d.j - 1 : IsConstant(InputsAt(s, d.i)[x])})
  <2>1. CASE NextChannel(c, d)
    BY <1>4, <2>1 DEF NextChannel
  <2>2. CASE NextInput(c, d)
    <3>1. IsFiniteSet(constants(c.j)) /\ c.j \notin constants(c.j)
      <4>1. constants(c.j) \in SUBSET (1 .. c.j - 1) /\ IsFiniteSet(1 .. c.j - 1)
        <5>1. 1 \in Int /\ c.j - 1 \in Int
          BY <1>1
        <5>2. IsFiniteSet(1 .. c.j - 1)
          BY <5>1, FS_Interval
        <5> QED BY <5>2
      <4>2. c.j \notin 1 .. c.j - 1
        BY <1>1
      <4> QED BY <4>1, <4>2, FS_Subset
    <3>2. constants(c.j + 1) = IF IsConstant(InputsAt(s, c.i)[c.j])
                                 THEN constants(c.j) \union {c.j} ELSE constants(c.j)
      <4>1. 1 .. (c.j + 1) - 1 = (1 .. c.j - 1) \union {c.j}
        BY <1>1
      <4>2. \A x : x \in constants(c.j + 1) <=>
                     x \in (1 .. c.j - 1) \union {c.j} /\ IsConstant(InputsAt(s, c.i)[x])
        BY <4>1
      <4>3. \A x : x \in constants(c.j) <=> x \in 1 .. c.j - 1 /\ IsConstant(InputsAt(s, c.i)[x])
        OBVIOUS
      <4> HIDE DEF constants
      <4> QED BY <4>2, <4>3
    <3>3. d.n = IF IsConstant(InputsAt(s, c.i)[c.j]) THEN c.n + 1 ELSE c.n
      BY <2>2 DEF NextInput
    <3>4. d.i = c.i /\ d.j = c.j + 1
      BY <2>2 DEF NextInput
    <3>5. d.n = Cardinality(constants(d.j))
      <4> HIDE DEF constants
      <4>1. CASE IsConstant(InputsAt(s, c.i)[c.j])
        BY <1>4, <3>1, <3>2, <3>3, <3>4, <4>1, FS_AddElement
      <4>2. CASE ~ IsConstant(InputsAt(s, c.i)[c.j])
        BY <1>4, <3>2, <3>3, <3>4, <4>2
      <4> QED BY <4>1, <4>2
    <3> QED BY <3>4, <3>5
  <2>3. CASE NextCore(c, d)
    <3>1. d.j = 1 /\ d.n = 0
      BY <2>3 DEF NextCore
    <3>2. {x \in 1 .. d.j - 1 : IsConstant(InputsAt(s, d.i)[x])} = {}
      BY <3>1
    <3>3. IsFiniteSet({}) /\ Cardinality({}) = 0
      BY FS_EmptySet
    <3> QED BY <3>1, <3>2, <3>3
  <2> QED BY <2>1, <2>2, <2>3
<1>6. d.i # 0 /\ d.j # 0
  BY <1>1 DEF NextChannel, NextInput, NextCore
<1>7. d.phase = "inputs" /\ d.phase \notin Beginning \union {"output_dma", "memories"}
  BY DEF Beginning
<1>8. random + one("random") = Cardinality(Earlier(s, "random", Here(d)))
      /\ IsFiniteSet(Earlier(s, "random", Here(d)))
      /\ waves + one("waveform") = Cardinality(Earlier(s, "waveform", Here(d)))
      /\ IsFiniteSet(Earlier(s, "waveform", Here(d)))
  BY <1>3, <1>4
<1> HIDE DEF one
<1>9. CountedSoFar(d, random + one("random"), waves + one("waveform"))
  BY <1>5, <1>6, <1>7, <1>8 DEF CountedSoFar
<1> QED BY <1>9 DEF one

\* The use of an input that setup_inputs is at, with the counters it has.
LEMMA UseAtHere ==
  ASSUME Deploying, Running, pc.phase = "inputs", InProgram, pc.j <= Len(CoreInputs),
         pc.k < InputChannels(P, CoreInputs[pc.j])
  PROVE  /\ Here(pc) \in Uses(pc.spec) /\ UsedInput(pc.spec, Here(pc)) = CoreInputs[pc.j]
         /\ UseDest(pc.spec, Here(pc)) = InputDest(CoreInputs[pc.j], pc.k)
         /\ UseEngine(pc.spec, Here(pc)) = ConstEngine(P)
         /\ UseSelector(pc.spec, Here(pc)) = pc.n + BusShift * pc.k
         /\ CoreInputs[pc.j].source_type = "random" => UseRank(pc.spec, Here(pc)) = active_random_inputs
         /\ CoreInputs[pc.j].source_type = "waveform" => UseRank(pc.spec, Here(pc)) = active_waveforms
         /\ NextChannel(pc, [pc EXCEPT !.k = @ + 1])
<1> DEFINE s == pc.spec
           in == CoreInputs[pc.j]
           u == <<pc.i, pc.j, pc.k>>
<1>1. /\ s \in Specs /\ pc.i \in DOMAIN ProgramSeq(s) /\ P = ProgramSeq(s)[pc.i]
      /\ CoreInputs = InputsAt(s, pc.i)
      /\ pc.i \in Nat /\ pc.j \in Nat \ {0} /\ pc.k \in Nat
  BY AtProgramOfSpec
<1>2. pc.j \in DOMAIN InputsAt(s, pc.i) /\ in = InputsAt(s, pc.i)[pc.j]
  <2>1. DOMAIN InputsAt(s, pc.i) = 1 .. Len(InputsAt(s, pc.i)) /\ Len(InputsAt(s, pc.i)) \in Nat
    BY <1>1, SpecSequences
  <2> QED BY <1>1, <2>1
<1>3. u \in Uses(s)
  <2>1. InputChannels(ProgramSeq(s)[pc.i], InputsAt(s, pc.i)[pc.j]) \in Nat
    BY <1>1, <1>2, InputChannelsType
  <2>2. pc.k < InputChannels(ProgramSeq(s)[pc.i], InputsAt(s, pc.i)[pc.j])
    BY <1>1, <1>2
  <2>3. pc.k \in 0 .. InputChannels(ProgramSeq(s)[pc.i], InputsAt(s, pc.i)[pc.j]) - 1
    BY <1>1, <2>1, <2>2
  <2> QED BY <1>1, <1>2, <2>3, UsesMember
<1>4. UsedInput(s, u) = in /\ u[1] = pc.i /\ u[2] = pc.j /\ u[3] = pc.k
  BY <1>2 DEF UsedInput
<1>5. UseDest(s, u) = InputDest(in, pc.k) /\ UseEngine(s, u) = ConstEngine(P)
  BY <1>1, <1>4 DEF UseDest, UseEngine
<1>6. /\ pc.n = Cardinality({x \in 1 .. pc.j - 1 : IsConstant(InputsAt(s, pc.i)[x])})
      /\ active_random_inputs = Cardinality(Earlier(s, "random", u))
      /\ active_waveforms = Cardinality(Earlier(s, "waveform", u))
  BY <1>1 DEF Deploying, CountedSoFar, Here
<1>7. UseSelector(s, u) = pc.n + BusShift * pc.k
  BY <1>4, <1>6 DEF UseSelector
<1>8. \A type : in.source_type = type => UseRank(s, u) = Cardinality(Earlier(s, type, u))
  BY <1>4 DEF UseRank, Earlier
<1>9. NextChannel(pc, [pc EXCEPT !.k = @ + 1])
  <2>1. pc = [phase |-> pc.phase, cmd |-> pc.cmd, spec |-> pc.spec, i |-> pc.i, j |-> pc.j,
              k |-> pc.k, n |-> pc.n]
    BY DEF Running, RunningPc
  <2>2. PICK d : d = [pc EXCEPT !.k = @ + 1]
    OBVIOUS
  <2>3. d.i = pc.i /\ d.j = pc.j /\ d.k = pc.k + 1 /\ d.n = pc.n
    BY <2>1, <2>2
  <2>4. NextChannel(pc, d)
    BY <1>1, <1>2, <2>3 DEF NextChannel
  <2> QED BY <2>2, <2>4
<1> HIDE DEF s, in
<1>10. Here(pc) = u
  BY DEF Here
<1> QED BY <1>3, <1>4, <1>5, <1>6, <1>7, <1>8, <1>9, <1>10 DEF s, in

\* setup_input, for any kind of input.
LEMMA SetupInputKeepsLog ==
  ASSUME AddressesFit, Deploying, Running, IsSequence(operations), UNCHANGED logged, SetupInput
  PROVE  LogKept
<1> DEFINE s == pc.spec
           in == CoreInputs[pc.j]
           u == Here(pc)
<1>0. /\ pc.phase = "inputs" /\ InProgram /\ pc.j <= Len(CoreInputs)
      /\ pc.k < InputChannels(P, in)
  BY DEF SetupInput, At
<1>1. /\ u \in Uses(s) /\ UsedInput(s, u) = in /\ UseDest(s, u) = InputDest(in, pc.k)
      /\ UseEngine(s, u) = ConstEngine(P) /\ UseSelector(s, u) = pc.n + BusShift * pc.k
      /\ in.source_type = "random" => UseRank(s, u) = active_random_inputs
      /\ in.source_type = "waveform" => UseRank(s, u) = active_waveforms
      /\ u[3] = pc.k
  BY <1>0, UseAtHere DEF Here
<1>2. /\ Position(pc) /\ s \in Specs /\ pc.i \in DOMAIN ProgramSeq(s)
      /\ CoreInputs = InputsAt(s, pc.i)
  BY <1>0, AtProgramOfSpec
<1>3. PICK next : next = [pc EXCEPT !.k = @ + 1]
  OBVIOUS
<1>4. next.spec = s /\ next.phase = "inputs" /\ NextChannel(pc, next)
  <2>1. pc = [phase |-> pc.phase, cmd |-> pc.cmd, spec |-> pc.spec, i |-> pc.i, j |-> pc.j,
              k |-> pc.k, n |-> pc.n]
    BY DEF Running, RunningPc
  <2>2. next.spec = s /\ next.phase = "inputs"
    BY <1>0, <1>3, <2>1
  <2> QED BY <1>0, <1>3, <2>2, UseAtHere
<1>5. \A w : Due(next, w) => Due(pc, w) \/ UseWrites(s, u, w)
  BY <1>0, <1>2, <1>4, NextInputDue
<1>6. Undisturbed
  BY DEF SetupInput, Undisturbed
<1>7. ASSUME NEW random, NEW waves,
             random = active_random_inputs + (IF in.source_type = "random" THEN 1 ELSE 0),
             waves = active_waveforms + (IF in.source_type = "waveform" THEN 1 ELSE 0)
      PROVE  CountedSoFar(next, random, waves)
  <2>1. CountedSoFar(pc, active_random_inputs, active_waveforms)
    BY DEF Deploying
  <2>2. in = InputsAt(s, pc.i)[pc.j]
    BY <1>2
  <2>3. CountedSoFar(next,
          active_random_inputs + (IF NextChannel(pc, next) /\ in.source_type = "random" THEN 1 ELSE 0),
          active_waveforms + (IF NextChannel(pc, next) /\ in.source_type = "waveform" THEN 1 ELSE 0))
    BY <1>0, <1>2, <1>4, <2>1, <2>2, NextInputCounted
  <2> QED BY <1>4, <1>7, <2>3
<1>8. ASSUME NEW stores, AreStores(stores), WriteThen(stores, next),
             \A w : UseWrites(s, u, w) <=> w \in Range(stores),
             CountedSoFar(next, active_random_inputs', active_waveforms')
      PROVE  LogKept
  <2>1. \A w \in Range(stores) : Explained(next, w)
    BY <1>1, <1>4, <1>8, BeforeEnableWrites DEF Called, Explained
  <2>2. Completes(stores, next)
    BY <1>0, <1>4, <1>5, <1>8, <2>1 DEF Completes, Beginning, AfterSequencer
  <2> QED BY <1>6, <1>8, <2>2, WriteKeepsLog
<1>n. active_random_inputs \in Nat /\ active_waveforms \in Nat
  <2>1. /\ IsFiniteSet(Earlier(s, "random", u)) /\ active_random_inputs = Cardinality(Earlier(s, "random", u))
        /\ IsFiniteSet(Earlier(s, "waveform", u)) /\ active_waveforms = Cardinality(Earlier(s, "waveform", u))
    BY <1>0 DEF Deploying, CountedSoFar
  <2> QED BY <2>1, FS_CardinalityType
<1>9. CASE IsConstant(in) /\ setup_constant(in, pc.k, next)
  <2> DEFINE stores == ConstantStores(ConstEngine(P), pc.n + BusShift * pc.k, InputDest(in, pc.k),
                                      InputValue(in, pc.k))
  <2>1. WriteThen(stores, next) /\ UNCHANGED <<active_random_inputs, active_waveforms>>
    BY <1>9 DEF setup_constant, NoNoise, NoWave
  <2>2. AreStores(stores) /\ Range(stores) = ConstantWrites(s, u)
    BY <1>1, <1>2, ConstantStoresWrites
  <2> HIDE DEF stores
  <2>3. in.source_type # "random" /\ in.source_type # "waveform"
    BY <1>9 DEF IsConstant
  <2>4. \A w : UseWrites(s, u, w) <=> w \in Range(stores)
    BY <1>1, <1>9, <2>2, <2>3 DEF UseWrites
  <2>5. CountedSoFar(next, active_random_inputs', active_waveforms')
    BY <1>7, <1>n, <2>1, <2>3
  <2> QED BY <1>8, <2>1, <2>2, <2>4, <2>5
<1>10. CASE in.source_type = "random" /\ setup_random(in, pc.k, next)
  <2> DEFINE stores == <<<<Bases.noise_generator + 4 * (active_random_inputs + 1), InputDest(in, pc.k)>>>>
  <2>1. /\ WriteThen(stores, next)
        /\ active_random_inputs' = active_random_inputs + 1 /\ UNCHANGED active_waveforms
    BY <1>10 DEF setup_random, NoWave
  <2>2. AreStores(stores) /\ Range(stores) = NoiseWrites(s, u)
    BY <1>1, <1>10, OneStore DEF NoiseWrites
  <2> HIDE DEF stores
  <2>3. ~ IsConstant(in)
    BY <1>10 DEF IsConstant
  <2>4. \A w : UseWrites(s, u, w) <=> w \in Range(stores)
    BY <1>1, <1>10, <2>2, <2>3 DEF UseWrites
  <2>5. CountedSoFar(next, active_random_inputs', active_waveforms')
    BY <1>7, <1>10, <1>n, <2>1
  <2> QED BY <1>8, <2>1, <2>2, <2>4, <2>5
<1>11. CASE in.source_type = "waveform" /\ setup_waveform(in, pc.k, next)
  <2> DEFINE stores == WaveStores(Bases.waveform_generator, active_waveforms, in.wave, InputDest(in, pc.k))
  <2>1. CASE Throw
    BY <2>1, ThrowKeepsLog
  <2>2. CASE /\ WriteThen(stores, next)
             /\ active_waveforms' = active_waveforms + 1 /\ UNCHANGED active_random_inputs
    <3>1. AreStores(stores) /\ Range(stores) = WaveWrites(s, u)
      BY <1>1, <1>2, <1>11, WaveStoresWrites
    <3> HIDE DEF stores
    <3>2. ~ IsConstant(in)
      BY <1>11 DEF IsConstant
    <3>3. \A w : UseWrites(s, u, w) <=> w \in Range(stores)
      BY <1>1, <1>11, <3>1, <3>2 DEF UseWrites
    <3>4. CountedSoFar(next, active_random_inputs', active_waveforms')
      BY <1>7, <1>11, <1>n, <2>2
    <3> QED BY <1>8, <2>2, <3>1, <3>3, <3>4
  <2> QED BY <1>11, <2>1, <2>2 DEF setup_waveform, NoNoise
<1>12. CASE /\ ~IsConstant(in) /\ ~IsGenerated(in) /\ SkipTo(next)
            /\ UNCHANGED <<active_random_inputs, active_waveforms>>
  <2>1. in.source_type # "random" /\ in.source_type # "waveform"
    BY <1>12 DEF IsGenerated
  <2>2. \A w : ~ UseWrites(s, u, w)
    BY <1>1, <1>12, <2>1 DEF UseWrites
  <2>3. CountedSoFar(next, active_random_inputs', active_waveforms')
    BY <1>7, <1>12, <1>n, <2>1
  <2>4. \A w : DueRom(next, w) => DueRom(pc, w)
    BY <1>0, <1>4 DEF DueRom
  <2> QED BY <1>0, <1>4, <1>5, <1>6, <1>12, <2>2, <2>3, <2>4, SkipKeepsLog DEF Beginning, AfterSequencer
<1> HIDE DEF in
<1>13. \/ IsConstant(in) /\ setup_constant(in, pc.k, next)
       \/ in.source_type = "random" /\ setup_random(in, pc.k, next)
       \/ in.source_type = "waveform" /\ setup_waveform(in, pc.k, next)
       \/ /\ ~IsConstant(in) /\ ~IsGenerated(in) /\ SkipTo(next)
          /\ UNCHANGED <<active_random_inputs, active_waveforms>>
  BY <1>3, Zenon DEF SetupInput, NoNoise, NoWave, in
<1> QED BY <1>9, <1>10, <1>11, <1>12, <1>13

\* The last channel of an input is set up.
LEMMA FinishInputKeepsLog ==
  ASSUME Deploying, Running, IsSequence(operations), UNCHANGED logged, FinishInput
  PROVE  LogKept
<1> DEFINE s == pc.spec
           in == CoreInputs[pc.j]
<1>0. /\ pc.phase = "inputs" /\ InProgram /\ pc.j <= Len(CoreInputs)
      /\ pc.k >= InputChannels(P, in)
  BY DEF FinishInput, At
<1>1. /\ Position(pc) /\ s \in Specs /\ pc.i \in DOMAIN ProgramSeq(s) /\ P = ProgramSeq(s)[pc.i]
      /\ CoreInputs = InputsAt(s, pc.i) /\ pc.j \in Nat \ {0} /\ pc.n \in Nat
  BY <1>0, AtProgramOfSpec
<1>2. pc.j \in DOMAIN InputsAt(s, pc.i)
  <2>1. DOMAIN InputsAt(s, pc.i) = 1 .. Len(InputsAt(s, pc.i)) /\ Len(InputsAt(s, pc.i)) \in Nat
    BY <1>1, SpecSequences
  <2> QED BY <1>0, <1>1, <2>1
<1>3. PICK m : m = IF IsConstant(in) THEN pc.n + 1 ELSE pc.n
  OBVIOUS
<1>4. PICK next : next = [pc EXCEPT !.j = @ + 1, !.k = 0, !.n = m]
  OBVIOUS
<1>5. SkipTo(next) /\ Undisturbed /\ UNCHANGED <<active_random_inputs, active_waveforms>>
  BY <1>3, <1>4 DEF FinishInput, Undisturbed, deployerVars
<1>6. /\ next.spec = s /\ next.phase = "inputs" /\ next.i = pc.i /\ next.j = pc.j + 1
      /\ next.k = 0 /\ next.n = m
  <2>1. pc = [phase |-> pc.phase, cmd |-> pc.cmd, spec |-> pc.spec, i |-> pc.i, j |-> pc.j,
              k |-> pc.k, n |-> pc.n]
    BY DEF Running, RunningPc
  <2> QED BY <1>0, <1>4, <2>1
<1>7. NextInput(pc, next)
  BY <1>0, <1>1, <1>2, <1>3, <1>6 DEF NextInput
<1>8. ~ NextChannel(pc, next)
  <2>1. InputChannels(ProgramSeq(s)[pc.i], InputsAt(s, pc.i)[pc.j]) \in Nat
    BY <1>1, <1>2, InputChannelsType
  <2> QED BY <1>0, <1>1, <2>1 DEF NextChannel, Position
<1>9. \A w : Due(next, w) => Due(pc, w)
  BY <1>0, <1>1, <1>6, <1>7, NextInputDue
<1>10. CountedSoFar(next, active_random_inputs', active_waveforms')
  <2>1. CountedSoFar(pc, active_random_inputs, active_waveforms)
    BY DEF Deploying
  <2>2. CountedSoFar(next, active_random_inputs + 0, active_waveforms + 0)
    BY <1>0, <1>1, <1>6, <1>7, <1>8, <2>1, NextInputCounted
  <2>3. /\ IsFiniteSet(Earlier(s, "random", Here(pc)))
        /\ active_random_inputs = Cardinality(Earlier(s, "random", Here(pc)))
        /\ IsFiniteSet(Earlier(s, "waveform", Here(pc)))
        /\ active_waveforms = Cardinality(Earlier(s, "waveform", Here(pc)))
    BY <1>0, <2>1 DEF CountedSoFar
  <2>4. active_random_inputs \in Nat /\ active_waveforms \in Nat
    BY <2>3, FS_CardinalityType
  <2>5. active_random_inputs' = active_random_inputs + 0 /\ active_waveforms' = active_waveforms + 0
    BY <1>5, <2>4
  <2> QED BY <2>2, <2>5
<1>11. \A w : DueRom(next, w) => DueRom(pc, w)
  BY <1>0, <1>6 DEF DueRom
<1> QED BY <1>0, <1>5, <1>6, <1>9, <1>10, <1>11, SkipKeepsLog DEF Beginning, AfterSequencer

\* The inputs of a core are set up: the number of random ones follows, if any.
LEMMA FinishCoreInputsKeepsLog ==
  ASSUME Deploying, Running, IsSequence(operations), UNCHANGED logged, FinishCoreInputs
  PROVE  LogKept
<1> DEFINE s == pc.spec
<1>0. /\ pc.phase = "inputs" /\ InProgram /\ pc.j > Len(CoreInputs)
  BY DEF FinishCoreInputs, At
<1>1. /\ Position(pc) /\ s \in Specs /\ pc.i \in DOMAIN ProgramSeq(s)
      /\ pc.i \in Nat \ {0} /\ pc.j \in Nat \ {0} /\ pc.k \in Nat
      /\ pc.j > Len(InputsAt(s, pc.i))
  BY <1>0, AtProgramOfSpec
<1>2. PICK next : next = NextProgram
  OBVIOUS
<1>3. Undisturbed /\ UNCHANGED <<active_random_inputs, active_waveforms>>
  BY DEF FinishCoreInputs, Undisturbed, deployerVars
<1>4. /\ next.spec = s /\ next.phase = "inputs" /\ next.i = pc.i + 1 /\ next.j = 1
      /\ next.k = 0 /\ next.n = 0
  BY <1>0, <1>2 DEF NextProgram, AtProgram
<1>5. NextCore(pc, next) /\ ~ NextChannel(pc, next)
  <2>1. next.i # pc.i
    BY <1>1, <1>4
  <2> QED BY <1>1, <1>4, <2>1 DEF NextCore, NextChannel
<1>6. CountedSoFar(pc, active_random_inputs, active_waveforms)
  BY DEF Deploying
<1>7. /\ IsFiniteSet(Earlier(s, "random", Here(pc)))
      /\ active_random_inputs = Cardinality(Earlier(s, "random", Here(pc)))
      /\ IsFiniteSet(Earlier(s, "waveform", Here(pc)))
      /\ active_waveforms = Cardinality(Earlier(s, "waveform", Here(pc)))
  BY <1>0, <1>6 DEF CountedSoFar
<1>8. active_random_inputs \in Nat /\ active_waveforms \in Nat
  BY <1>7, FS_CardinalityType
<1>9. NoiseCount(s, pc.i) = active_random_inputs
  <2>1. \A u \in Uses(s) : u[1] <= pc.i <=> Before(u, <<pc.i, pc.j, pc.k>>)
    BY <1>1, BeforeSteps
  <2>2. {u \in UsesOf(s, "random") : u[1] <= pc.i} = Earlier(s, "random", Here(pc))
    BY <2>1 DEF UsesOf, Earlier, Here
  <2> QED BY <1>7, <2>2 DEF NoiseCount
<1>10. \A w : Due(next, w) =>
         \/ Due(pc, w)
         \/ active_random_inputs # 0 /\ w = <<Bases.noise_generator, active_random_inputs>>
  BY <1>0, <1>1, <1>4, <1>5, <1>9, NextInputDue
<1>11. CountedSoFar(next, active_random_inputs', active_waveforms')
  <2>1. CountedSoFar(next, active_random_inputs + 0, active_waveforms + 0)
    BY <1>0, <1>1, <1>4, <1>5, <1>6, NextInputCounted
  <2>2. active_random_inputs' = active_random_inputs + 0 /\ active_waveforms' = active_waveforms + 0
    BY <1>3, <1>8
  <2> QED BY <2>1, <2>2
<1>12. CASE active_random_inputs > 0
  <2> DEFINE stores == <<<<Bases.noise_generator, active_random_inputs>>>>
  <2>1. WriteThen(stores, next)
    BY <1>2, <1>12 DEF FinishCoreInputs
  <2>2. AreStores(stores) /\ Range(stores) = {<<Bases.noise_generator, active_random_inputs>>}
    BY OneStore
  <2> HIDE DEF stores
  <2>3. \A w \in Range(stores) : Explained(next, w)
    <3>1. NoiseCount(s, pc.i) # 0
      BY <1>8, <1>9, <1>12
    <3> QED BY <1>1, <1>4, <1>9, <2>2, <3>1, BeforeEnableWrites DEF Called, Explained
  <2>4. Completes(stores, next)
    BY <1>0, <1>4, <1>10, <2>2, <2>3 DEF Completes, Beginning, AfterSequencer
  <2> QED BY <1>3, <1>11, <2>1, <2>2, <2>4, WriteKeepsLog
<1>13. CASE ~(active_random_inputs > 0)
  <2>1. SkipTo(next)
    BY <1>2, <1>13 DEF FinishCoreInputs
  <2>2. active_random_inputs = 0
    BY <1>8, <1>13
  <2>3. \A w : DueRom(next, w) => DueRom(pc, w)
    BY <1>0, <1>4 DEF DueRom
  <2> QED BY <1>0, <1>3, <1>4, <1>10, <1>11, <2>1, <2>2, <2>3, SkipKeepsLog DEF Beginning, AfterSequencer
<1> QED BY <1>12, <1>13

----------------------------------------------------------------------------
(* The other phases of deploy() *)

\* setup_sequencer writes a divider and a shift for each core, the period, and
\* the enable bits.
LEMMA SequencerStoresWrites ==
  ASSUME NEW s \in Specs, NEW timebase
  PROVE  AreStores(SequencerStores(ProgramSeq(s), timebase))
<1> DEFINE ps == ProgramSeq(s)
           store(n) ==
             LET m == (n + 1) \div 2
             IN IF n % 2 = 1
                  THEN <<Controller + 4 * m, (Divider(ps[m], timebase) - 1) % WordModulus>>
                  ELSE <<HilTimebase + 4 + 4 * m, Shift(ps, m)>>
           cores == [n \in 1 .. 2 * Len(ps) |-> store(n)]
           period == <<HilTimebase + 4, TimebasePeriod(ps, timebase)>>
           enable == <<Controller, EnableBits(Len(ps))>>
<1>1. Len(ps) \in Nat
  BY SpecSequences
<1>2. \A n : store(n) = <<store(n)[1], store(n)[2]>>
  <2>1. \A x, y : <<x, y>> = <<<<x, y>>[1], <<x, y>>[2]>>
    OBVIOUS
  <2> QED BY <2>1
<1>3. period = <<period[1], period[2]>> /\ enable = <<enable[1], enable[2]>>
  OBVIOUS
<1>4. SequencerStores(ps, timebase) = cores \o <<period, enable>>
  BY DEF SequencerStores
<1> HIDE DEF ps, store, period, enable
<1>5. IsSequence(cores) /\ Range(cores) = {store(n) : n \in 1 .. 2 * Len(ps)}
  <2>1. 2 * Len(ps) \in Nat
    BY <1>1
  <2>2. cores \in Seq({store(n) : n \in 1 .. 2 * Len(ps)})
    BY <2>1
  <2>3. Range(cores) = {store(n) : n \in 1 .. 2 * Len(ps)}
    BY DEF Range
  <2> QED BY <2>2, <2>3, SequenceIntro
<1> HIDE DEF cores
<1>6. IsSequence(<<period, enable>>) /\ Range(<<period, enable>>) = {period, enable}
  <2>1. <<period, enable>> \in Seq({period, enable}) /\ Range(<<period, enable>>) = {period, enable}
    BY DEF Range
  <2> QED BY <2>1, SequenceIntro
<1>7. /\ IsSequence(cores \o <<period, enable>>)
      /\ Range(cores \o <<period, enable>>) = Range(cores) \union Range(<<period, enable>>)
  BY <1>5, <1>6, RangeOfConcat
<1>8. \A x \in Range(cores \o <<period, enable>>) : x = <<x[1], x[2]>>
  BY <1>2, <1>3, <1>5, <1>6, <1>7
<1>9. AreStores(cores \o <<period, enable>>)
  BY <1>7, <1>8 DEF AreStores
<1> QED BY <1>4, <1>9 DEF ps

\* The next phase, with what is due and what is counted there.
LEMMA NextPhaseIs ==
  ASSUME Deploying, Running, pc.phase # "finish",
         ~ InProgram \/ pc.phase \in {"timebase", "sequencer"}
  PROVE  /\ NextPhase.spec = pc.spec /\ Follows(pc.phase, NextPhase.phase)
         /\ CountedSoFar(NextPhase, active_random_inputs, active_waveforms)
         /\ \A w : DueRom(NextPhase, w) => DueRom(pc, w)
         /\ \A w : Due(NextPhase, w) =>
              \/ Due(pc, w)
              \/ pc.phase = "sequencer" /\ w \in ExpectedSequencer(pc.spec)
<1>1. pc.i > Len(ProgramSeq(pc.spec)) \/ pc.phase \in {"timebase", "sequencer"}
  BY AtProgramOfSpec
<1>2. Position(pc)
  BY AtProgramOfSpec
<1>3. PICK phase : NextPhase = AtProgram(phase, 1) /\ Follows(pc.phase, phase)
  BY NextPhaseFollows
<1>4. PICK next : next = NextPhase
  OBVIOUS
<1>5. /\ next.spec = pc.spec /\ Follows(pc.phase, next.phase)
      /\ next.i = 1 /\ next.j = 1 /\ next.k = 0 /\ next.n = 0
  BY <1>3, <1>4 DEF AtProgram
<1>6. CountedSoFar(pc, active_random_inputs, active_waveforms)
  BY DEF Deploying
<1>7. CountedSoFar(next, active_random_inputs, active_waveforms)
  BY <1>2, <1>5, <1>6, NextPhaseCounted
<1>8. \A w : /\ DueRom(next, w) => DueRom(pc, w)
             /\ Due(next, w) =>
                  \/ Due(pc, w)
                  \/ pc.phase = "sequencer" /\ w \in ExpectedSequencer(pc.spec)
  BY <1>1, <1>2, <1>5, NextPhaseDue
<1> QED BY <1>4, <1>5, <1>7, <1>8

\* setup_sequencer, which enables the cores.
LEMMA SetupSequencerKeepsLog ==
  ASSUME Deploying, Running, IsSequence(operations), UNCHANGED logged, SetupSequencer
  PROVE  LogKept
<1>0. pc.phase = "sequencer"
  BY DEF SetupSequencer, At
<1>1. PICK stores : stores = SequencerStores(Programs, timebase_frequency)
  OBVIOUS
<1>2. PICK next : next = NextPhase
  OBVIOUS
<1>3. /\ WriteThen(stores, next) /\ Undisturbed
      /\ UNCHANGED <<active_random_inputs, active_waveforms>>
  BY <1>1, <1>2 DEF SetupSequencer, Undisturbed, deployerVars
<1>4. AreStores(stores) /\ Range(stores) = ExpectedSequencer(pc.spec)
  <2>1. Programs = ProgramSeq(pc.spec) /\ pc.spec \in Specs
    BY AtProgramOfSpec
  <2>2. timebase_frequency = Timebase(ProgramSeq(pc.spec))
    BY <1>0 DEF Deploying, Prepared, Untimed
  <2>3. stores = SequencerStores(ProgramSeq(pc.spec), Timebase(ProgramSeq(pc.spec)))
    BY <1>1, <2>1, <2>2
  <2> QED BY <2>1, <2>3, SequencerStoresWrites DEF ExpectedSequencer
<1>5. /\ next.spec = pc.spec /\ next.phase = "setup_cores"
      /\ CountedSoFar(next, active_random_inputs, active_waveforms)
      /\ \A w : Due(next, w) => Due(pc, w) \/ w \in ExpectedSequencer(pc.spec)
  <2>1. /\ next.spec = pc.spec /\ Follows(pc.phase, next.phase)
        /\ CountedSoFar(next, active_random_inputs, active_waveforms)
        /\ \A w : Due(next, w) => Due(pc, w) \/ w \in ExpectedSequencer(pc.spec)
    BY <1>0, <1>2, NextPhaseIs
  <2> QED BY <1>0, <2>1 DEF Follows
<1>6. Completes(stores, next)
  <2>1. \A w \in Range(stores) : Explained(next, w)
    BY <1>4, <1>5 DEF Explained, AfterSequencer
  <2> QED BY <1>0, <1>4, <1>5, <2>1 DEF Completes, Beginning, AfterSequencer
<1>7. CountedSoFar(next, active_random_inputs', active_waveforms')
  BY <1>3, <1>5
<1> QED BY <1>3, <1>4, <1>6, <1>7, WriteKeepsLog

\* setup_core.
LEMMA SetupCoreKeepsLog ==
  ASSUME Deploying, Running, IsSequence(operations), UNCHANGED logged, SetupCore
  PROVE  LogKept
<1> DEFINE s == pc.spec
           stores == <<<<CoreControl(P), FULL_CORES>>>>
<1>0. /\ pc.phase = "setup_cores" /\ InProgram
      /\ WriteThen(stores, NextProgram) /\ Undisturbed
      /\ UNCHANGED <<active_random_inputs, active_waveforms>>
  BY DEF SetupCore, At, Undisturbed, deployerVars
<1>1. /\ s \in Specs /\ pc.i \in DOMAIN ProgramSeq(s) /\ P = ProgramSeq(s)[pc.i]
      /\ pc.i \in Nat /\ P \in ProgramsOf(s) /\ DOMAIN ProgramSeq(s) \subseteq Nat
  BY <1>0, AtProgramOfSpec, SpecSequences
<1>2. PICK next : next = NextProgram
  OBVIOUS
<1>3. /\ next.spec = s /\ next.phase = "setup_cores" /\ next.i = pc.i + 1 /\ next.j = 1
  BY <1>0, <1>2 DEF NextProgram, AtProgram
<1>4. AreStores(stores) /\ Range(stores) = {<<CoreControl(P), FULL_CORES>>}
  BY OneStore
<1> HIDE DEF stores
<1>5. \A w \in Range(stores) : Explained(next, w)
  BY <1>1, <1>3, <1>4 DEF Explained, ExpectedCores, AfterSequencer
<1>6. ASSUME NEW w, Due(next, w)
      PROVE  Due(pc, w) \/ w \in Range(stores)
  <2>1. /\ DueSlot(next, w) <=> DueSlot(pc, w)
        /\ DueDma(next, w) <=> DueDma(pc, w)
        /\ DueMemory(next, w) <=> DueMemory(pc, w)
        /\ DueUse(next, w) <=> DueUse(pc, w)
        /\ DueNoise(next, w) <=> DueNoise(pc, w)
        /\ DueSequencer(next, w) <=> DueSequencer(pc, w)
    BY <1>0, <1>3, DueElsewhere
  <2>2. \A i \in DOMAIN ProgramSeq(s) : i < pc.i + 1 <=> i < pc.i \/ i = pc.i
    BY <1>1
  <2>3. DueCore(next, w) => DueCore(pc, w) \/ w \in Range(stores)
    BY <1>0, <1>1, <1>3, <1>4, <2>2 DEF DueCore, Passed
  <2> QED BY <1>6, <2>1, <2>3 DEF Due
<1>7. Completes(stores, next)
  BY <1>0, <1>3, <1>5, <1>6 DEF Completes, Beginning, AfterSequencer
<1>8. CountedSoFar(next, active_random_inputs', active_waveforms')
  <2>1. next.i # 0 /\ next.j # 0
    BY <1>1, <1>3
  <2> QED BY <1>3, <2>1 DEF CountedSoFar, Beginning
<1>9. WriteThen(stores, next)
  BY <1>0, <1>2
<1> QED BY <1>0, <1>4, <1>7, <1>8, <1>9, WriteKeepsLog

\* A loop over the programs ends.
LEMMA EndOfLoopKeepsLog ==
  ASSUME Deploying, Running, IsSequence(operations), UNCHANGED logged, EndOfLoop
  PROVE  LogKept
<1>0. /\ pc.phase \in {"load_cores", "output_dma", "memories", "inputs", "setup_cores"}
      /\ ~ InProgram
  BY DEF EndOfLoop
<1>1. PICK next : next = NextPhase
  OBVIOUS
<1>2. /\ SkipTo(next) /\ Undisturbed /\ UNCHANGED <<active_random_inputs, active_waveforms>>
  BY <1>1 DEF EndOfLoop, Undisturbed, deployerVars
<1>3. /\ next.spec = pc.spec /\ Follows(pc.phase, next.phase)
      /\ CountedSoFar(next, active_random_inputs, active_waveforms)
      /\ \A w : DueRom(next, w) => DueRom(pc, w)
      /\ \A w : Due(next, w) => Due(pc, w)
  BY <1>0, <1>1, NextPhaseIs
<1>4. /\ next.phase \in Beginning <=> pc.phase \in Beginning
      /\ next.phase \in Untimed <=> pc.phase \in Untimed
      /\ pc.phase \in AfterSequencer => next.phase \in AfterSequencer
  BY <1>0, <1>3 DEF Follows, Beginning, Untimed, AfterSequencer
<1>5. CountedSoFar(next, active_random_inputs', active_waveforms')
  BY <1>2, <1>3
<1> QED BY <1>2, <1>3, <1>4, <1>5, SkipKeepsLog

\* Before deploy() writes registers it computes what it writes, and the log stays.
LEMMA NothingWritten ==
  ASSUME Deploying, Running, NEW next, pc' = next, next.spec = pc.spec, pc.phase \in Beginning,
         UNCHANGED <<addresses, operations, fpga_loaded>>,
         \A w : Due(next, w) => Due(pc, w), \A w : DueRom(next, w) => DueRom(pc, w)
  PROVE  LogNow'
<1> DEFINE ws == {}
<1>1. LogNow /\ ControlWrites(operations) = {}
  BY DEF Deploying, LogNow, LogAt
<1>2. /\ \A w : Due(next, w) => Due(pc, w) \/ w \in ws
      /\ \A w \in ws : Explained(next, w)
      /\ ControlWrites(operations') = {}
      /\ ControlWrites(operations') = IF fpga_loaded THEN ControlWrites(operations) \union ws
                                      ELSE ControlWrites(operations)
      /\ RomWrites(operations') = RomWrites(operations)
  BY <1>1
<1>3. /\ next.phase \in Beginning => ws = {}
      /\ pc.phase \in AfterSequencer => next.phase \in AfterSequencer
  BY DEF Beginning, AfterSequencer
<1> HIDE DEF ws
<1> QED BY <1>1, <1>2, <1>3, LogGoesOn

\* With that, and with the log it has, deploy() goes on.
LEMMA PreparedKeepsLog ==
  ASSUME Deploying, Running, IsSequence(operations), UNCHANGED <<operations, reply, logged>>,
         NEW next, pc' = next, UNCHANGED <<active_random_inputs, active_waveforms>>,
         CountedSoFar(next, active_random_inputs, active_waveforms),
         Prepared', LogNow', ~sink_mode' => HardwareFollows'
  PROVE  LogKept
<1>1. CountedSoFar(pc, active_random_inputs, active_waveforms)'
  <2>0. PICK c, r, v : c = next /\ r = active_random_inputs /\ v = active_waveforms
    OBVIOUS
  <2>1. CountedSoFar(c, r, v)
    BY <2>0
  <2>2. c = pc' /\ r = active_random_inputs' /\ v = active_waveforms'
    BY <2>0
  <2> QED BY <2>1, <2>2
<1>2. reply' = NoReply /\ logged' = NoSpec
  BY DEF Deploying
<1>3. LogIsSpecification' /\ reply'.kind # "deployed"
  BY <1>2 DEF LogIsSpecification, NoReply, Reply
<1> QED BY <1>1, <1>2, <1>3 DEF LogKept, Deploying

\* deploy() takes the timebase of its specification.
LEMMA ComputeTimebaseKeepsLog ==
  ASSUME Deploying, Running, IsSequence(operations), UNCHANGED logged, ComputeTimebase
  PROVE  LogKept
<1>0. pc.phase = "timebase"
  BY DEF ComputeTimebase, At
<1>1. PICK next : next = NextPhase
  OBVIOUS
<1>2. /\ pc' = next /\ UNCHANGED <<reply, operations, fpga_loaded>>
      /\ UNCHANGED <<addresses, bus_map, ivs, active_random_inputs, active_waveforms>>
      /\ timebase_frequency' = Timebase(Programs)
  BY <1>1 DEF SkipTo, busVars, ComputeTimebase
<1>3. /\ next.spec = pc.spec /\ next.phase = "dividers"
      /\ CountedSoFar(next, active_random_inputs, active_waveforms)
      /\ \A w : DueRom(next, w) => DueRom(pc, w)
      /\ \A w : Due(next, w) => Due(pc, w)
  <2>1. /\ next.spec = pc.spec /\ Follows(pc.phase, next.phase)
        /\ CountedSoFar(next, active_random_inputs, active_waveforms)
        /\ \A w : DueRom(next, w) => DueRom(pc, w)
        /\ \A w : Due(next, w) => Due(pc, w)
    BY <1>0, <1>1, NextPhaseIs
  <2> QED BY <1>0, <2>1 DEF Follows
<1>4. LogNow'
  BY <1>0, <1>2, <1>3, NothingWritten DEF Beginning
<1>5. Prepared'
  <2>1. bus_map' = Slots(next.spec)
    BY <1>2, <1>3 DEF Deploying, Prepared
  <2>2. timebase_frequency' = Timebase(ProgramSeq(next.spec))
    BY <1>2, <1>3, AtProgramOfSpec
  <2> QED BY <1>2, <1>3, <2>1, <2>2 DEF Prepared, Beginning
<1>6. ~sink_mode' => HardwareFollows'
  <2>1. UNCHANGED <<operations, registers, fCore, sink_mode>>
    BY DEF ComputeTimebase, SkipTo, busVars
  <2> QED BY <2>1, HardwareStays DEF Deploying
<1> QED BY <1>2, <1>3, <1>4, <1>5, <1>6, PreparedKeepsLog

\* calculate_timebase_divider raises the divider.
LEMMA RaiseTimebaseDividerKeepsLog ==
  ASSUME Deploying, Running, IsSequence(operations), UNCHANGED logged, RaiseTimebaseDivider
  PROVE  LogKept
<1>1. SkipTo(pc) /\ Undisturbed /\ UNCHANGED <<active_random_inputs, active_waveforms>>
  BY DEF RaiseTimebaseDivider, Undisturbed
<1>2. CountedSoFar(pc, active_random_inputs, active_waveforms)
  BY DEF Deploying
<1>3. PICK next : next = pc
  OBVIOUS
<1>4. CountedSoFar(next, active_random_inputs', active_waveforms')
  BY <1>1, <1>2, <1>3
<1> QED BY <1>1, <1>3, <1>4, SkipKeepsLog

\* calculate_timebase_divider goes on to the next core.
LEMMA NextDividerKeepsLog ==
  ASSUME Deploying, Running, IsSequence(operations), UNCHANGED logged, NextDivider
  PROVE  LogKept
<1>0. pc.phase = "dividers" /\ pc.i \in Nat
  BY AtProgramOfSpec DEF NextDivider, At
<1>1. PICK next : next = NextProgram
  OBVIOUS
<1>2. /\ SkipTo(next) /\ Undisturbed /\ UNCHANGED <<active_random_inputs, active_waveforms>>
  BY <1>1 DEF NextDivider, Undisturbed, deployerVars
<1>3. /\ next.spec = pc.spec /\ next.phase = "dividers" /\ next.i = pc.i + 1 /\ next.j = 1
  BY <1>0, <1>1 DEF NextProgram, AtProgram
<1>4. \A w : /\ Due(next, w) => Due(pc, w)
             /\ DueRom(next, w) => DueRom(pc, w)
  <2> SUFFICES ASSUME NEW w PROVE (Due(next, w) => Due(pc, w)) /\ (DueRom(next, w) => DueRom(pc, w))
    OBVIOUS
  <2>1. /\ (DueSlot(next, w) <=> DueSlot(pc, w)) /\ (DueDma(next, w) <=> DueDma(pc, w))
        /\ (DueMemory(next, w) <=> DueMemory(pc, w)) /\ (DueUse(next, w) <=> DueUse(pc, w))
        /\ (DueNoise(next, w) <=> DueNoise(pc, w)) /\ (DueSequencer(next, w) <=> DueSequencer(pc, w))
        /\ (DueCore(next, w) <=> DueCore(pc, w)) /\ (DueRom(next, w) <=> DueRom(pc, w))
    BY <1>0, <1>3, DueElsewhere
  <2> QED BY <2>1 DEF Due
<1>5. CountedSoFar(next, active_random_inputs', active_waveforms')
  <2>1. CountedSoFar(pc, active_random_inputs, active_waveforms)
    BY DEF Deploying
  <2>2. active_random_inputs = 0 /\ active_waveforms = 0
    BY <1>0, <2>1 DEF CountedSoFar, Beginning
  <2>3. next.i # 0 /\ next.j # 0
    BY <1>0, <1>3
  <2> QED BY <1>2, <1>3, <2>2, <2>3 DEF CountedSoFar
<1> QED BY <1>0, <1>2, <1>3, <1>4, <1>5, SkipKeepsLog DEF AfterSequencer

\* deploy() adds the initial values to the ones it has.
LEMMA SetupInterconnectIvKeepsLog ==
  ASSUME Deploying, Running, IsSequence(operations), UNCHANGED logged, SetupInterconnectIv
  PROVE  LogKept
<1> DEFINE s == pc.spec
<1>0. pc.phase = "dividers" /\ ~ InProgram
  BY DEF SetupInterconnectIv, At
<1>1. CASE process_exit /\ pc' = Idle /\ reply' = Reply("died", pc.spec, <<>>)
  BY <1>1, EndKeepsLog DEF process_exit, Reply
<1>2. CASE /\ ivs' = [key \in DOMAIN ivs \union DOMAIN InitialValues(s) |->
                        IF key \in DOMAIN InitialValues(s) THEN InitialValues(s)[key] ELSE ivs[key]]
           /\ SkipTo(NextPhase)
  <2>1. PICK next : next = NextPhase
    OBVIOUS
  <2>2. /\ pc' = next /\ UNCHANGED <<reply, operations, fpga_loaded>>
        /\ UNCHANGED <<addresses, bus_map, timebase_frequency>>
        /\ UNCHANGED <<active_random_inputs, active_waveforms>>
    BY <1>2, <2>1 DEF SkipTo, busVars, SetupInterconnectIv
  <2>3. /\ next.spec = s /\ next.phase = "output_dma"
        /\ CountedSoFar(next, active_random_inputs, active_waveforms)
        /\ \A w : DueRom(next, w) => DueRom(pc, w)
        /\ \A w : Due(next, w) => Due(pc, w)
    <3>1. /\ next.spec = s /\ Follows(pc.phase, next.phase)
          /\ CountedSoFar(next, active_random_inputs, active_waveforms)
          /\ \A w : DueRom(next, w) => DueRom(pc, w)
          /\ \A w : Due(next, w) => Due(pc, w)
      BY <1>0, <2>1, NextPhaseIs
    <3> QED BY <1>0, <3>1 DEF Follows
  <2>4. LogNow'
    BY <1>0, <2>2, <2>3, NothingWritten DEF Beginning
  <2>5. Prepared'
    <3>1. bus_map' = Slots(next.spec) /\ pc'.spec = next.spec
      BY <2>2, <2>3 DEF Deploying, Prepared
    <3>2. timebase_frequency' = Timebase(ProgramSeq(next.spec))
      BY <1>0, <2>2, <2>3 DEF Deploying, Prepared, Untimed
    <3>3. \A key \in DOMAIN InitialValues(next.spec) :
            key \in DOMAIN ivs' /\ ivs'[key] = InitialValues(next.spec)[key]
      BY <1>2, <2>3
    <3> QED BY <2>2, <3>1, <3>2, <3>3 DEF Prepared
  <2>6. ~sink_mode' => HardwareFollows'
    <3>1. UNCHANGED <<operations, registers, fCore, sink_mode>>
      BY <1>2 DEF SkipTo, busVars
    <3> QED BY <3>1, HardwareStays DEF Deploying
  <2> QED BY <2>2, <2>3, <2>4, <2>5, <2>6, PreparedKeepsLog
<1> QED BY <1>1, <1>2 DEF SetupInterconnectIv

\* load_core: the log gets the program, loaded or not.
LEMMA LoadCoreKeepsLog ==
  ASSUME Deploying, Running, IsSequence(operations), UNCHANGED logged, LoadCore
  PROVE  LogKept
<1> DEFINE s == pc.spec
           entry == BusOp(<<RomAddress(P)>>, P.binary, "rom_plane_write")
           rom == <<RomAddress(P), P.binary>>
<1>0. /\ pc.phase = "load_cores" /\ InProgram
      /\ LoadThen(RomAddress(P), P.binary, NextProgram) /\ Undisturbed
      /\ UNCHANGED <<active_random_inputs, active_waveforms>>
  BY DEF LoadCore, At, Undisturbed, deployerVars
<1>1. /\ s \in Specs /\ pc.i \in DOMAIN ProgramSeq(s) /\ P = ProgramSeq(s)[pc.i]
      /\ pc.i \in Nat /\ P \in ProgramsOf(s) /\ DOMAIN ProgramSeq(s) \subseteq Nat
  BY <1>0, AtProgramOfSpec, SpecSequences
<1>2. PICK next : next = NextProgram
  OBVIOUS
<1>3. /\ next.spec = s /\ next.phase = "load_cores" /\ next.i = pc.i + 1 /\ next.j = 1
  BY <1>0, <1>2 DEF NextProgram, AtProgram
<1>4. /\ IsSequence(<<entry>>) /\ ControlWrites(<<entry>>) = {} /\ RomWrites(<<entry>>) = {rom}
  <2>1. /\ entry.type = "rom_plane_write" /\ entry.address[1] = RomAddress(P)
        /\ entry.data = P.binary
    BY DEF BusOp
  <2> HIDE DEF entry
  <2>2. <<entry>> \in Seq({entry}) /\ Range(<<entry>>) = {entry}
    BY DEF Range
  <2>3. IsSequence(<<entry>>)
    BY <2>2, SequenceIntro
  <2>4. ControlWrites(<<entry>>) = {}
    BY <2>1, <2>2 DEF ControlWrites
  <2>5. RomWrites(<<entry>>) = {rom}
    <3>1. {x \in Range(<<entry>>) : x.type = "rom_plane_write"} = {entry}
      BY <2>1, <2>2
    <3>2. RomWrites(<<entry>>) = {<<o.address[1], o.data>> : o \in {entry}}
      BY <3>1 DEF RomWrites
    <3>3. rom = <<entry.address[1], entry.data>>
      BY <2>1
    <3> HIDE DEF rom
    <3> QED BY <3>2, <3>3
  <2> QED BY <2>3, <2>4, <2>5
<1>5. /\ IsSequence(operations \o <<entry>>)
      /\ ControlWrites(operations \o <<entry>>) = ControlWrites(operations)
      /\ RomWrites(operations \o <<entry>>) = RomWrites(operations) \union {rom}
  <2>1. /\ ControlWrites(operations \o <<entry>>) = ControlWrites(operations) \union ControlWrites(<<entry>>)
        /\ RomWrites(operations \o <<entry>>) = RomWrites(operations) \union RomWrites(<<entry>>)
    BY <1>4, WritesOfConcat
  <2>2. IsSequence(operations \o <<entry>>)
    BY <1>4, RangeOfConcat
  <2> QED BY <1>4, <2>1, <2>2
<1>6. CASE ~up'
  <2>1. operations' = operations \/ operations' = Append(operations, entry)
    BY <1>0 DEF LoadThen, apply_program, load_program
  <2>2. Append(operations, entry) = operations \o <<entry>>
    BY DEF IsSequence
  <2>3. IsSequence(operations')
    BY <1>5, <2>1, <2>2
  <2>4. pc' = Idle /\ reply' = Reply("died", pc.spec, <<>>)
    BY <1>0, <1>6 DEF LoadThen
  <2> QED BY <2>3, <2>4, EndKeepsLog DEF Reply
<1>7. CASE up'
  <2>1. /\ pc' = next /\ UNCHANGED reply /\ UNCHANGED fpga_loaded
        /\ operations' = Append(operations, entry)
    BY <1>0, <1>2, <1>7 DEF LoadThen, apply_program, load_program
  <2>2. operations' = operations \o <<entry>>
    BY <2>1 DEF IsSequence
  <2>3. /\ IsSequence(operations')
        /\ ControlWrites(operations') = {}
        /\ RomWrites(operations') = RomWrites(operations) \union {rom}
    BY <1>0, <1>5, <2>2 DEF Deploying, LogNow, LogAt, Beginning
  <2>4. PICK c, loaded, written, roms :
          /\ c = next /\ loaded = fpga_loaded
          /\ written = ControlWrites(operations') /\ roms = RomWrites(operations')
    OBVIOUS
  <2>5. LogAt(c, loaded, written, roms)
    <3>1. ASSUME NEW w, DueRom(c, w) PROVE w \in roms
      <4>1. PICK i \in DOMAIN ProgramSeq(s) :
              /\ w = <<RomAddress(ProgramSeq(s)[i]), ProgramSeq(s)[i].binary>>
              /\ i < pc.i + 1
        BY <1>3, <2>4, <3>1 DEF DueRom
      <4>2. i < pc.i \/ i = pc.i
        BY <1>1, <4>1
      <4>3. CASE i < pc.i
        BY <2>3, <2>4, <4>1, <4>3 DEF DueRom, Deploying, LogNow, LogAt
      <4>4. CASE i = pc.i
        BY <1>1, <2>3, <2>4, <4>1, <4>4
      <4> QED BY <4>2, <4>3, <4>4
    <3>2. \A w \in roms : w \in ExpectedRoms(c.spec)
      <4>1. rom \in ExpectedRoms(s)
        BY <1>1 DEF ExpectedRoms
      <4> QED BY <1>3, <2>3, <2>4, <4>1 DEF Deploying, LogNow, LogAt
    <3>3. loaded => \A w : Due(c, w) => w \in written
      <4>1. ASSUME NEW w, Due(c, w) PROVE Due(pc, w)
        <5>1. c.spec = pc.spec /\ c.phase = pc.phase /\ pc.phase = "load_cores"
          BY <1>0, <1>3, <2>4
        <5> QED BY <4>1, <5>1, DueElsewhere DEF Due
      <4>2. \A w : ~ (fpga_loaded /\ Due(pc, w))
        BY <1>0 DEF Deploying, LogNow, LogAt, Beginning
      <4> QED BY <2>4, <4>1, <4>2
    <3>4. written = {}
      BY <2>3, <2>4
    <3> QED BY <3>1, <3>2, <3>3, <3>4 DEF LogAt
  <2>6. LogAt(c, loaded, written, roms)'
    BY <1>0, <2>5, LogAtKept DEF Undisturbed
  <2>7. LogNow'
    BY <2>1, <2>4, <2>6 DEF LogNow
  <2>8. CountedSoFar(next, active_random_inputs', active_waveforms')
    <3>1. active_random_inputs = 0 /\ active_waveforms = 0
      BY <1>0 DEF Deploying, CountedSoFar, Beginning
    <3>2. next.i # 0 /\ next.j # 0
      BY <1>1, <1>3
    <3> QED BY <1>0, <1>3, <3>1, <3>2 DEF CountedSoFar
  <2>9. ~sink_mode' => HardwareFollows'
    <3>1. IsSequence(P.binary)
      BY <1>1, SpecAssumption DEF ProgramsOf, ProgramSeq
    <3>2. load_program(RomAddress(P), P.binary) /\ UNCHANGED sink_mode
      BY <1>0 DEF LoadThen, apply_program, load_program
    <3>3. ControlWrites(operations') = ControlWrites(operations)
      BY <1>5, <2>2
    <3> QED BY <1>7, <2>3, <3>1, <3>2, <3>3, ProgramReaches DEF Deploying
  <2> QED BY <1>0, <1>3, <2>1, <2>3, <2>7, <2>8, <2>9, GoesOn DEF Beginning
<1> QED BY <1>6, <1>7

----------------------------------------------------------------------------
(* The end of deploy() *)

\* With all phases done the log is what the specification calls for.
LEMMA LogIsWhole ==
  ASSUME Deploying, Running, pc.phase = "finish"
  PROVE  /\ RomWrites(operations) = ExpectedRoms(pc.spec)
         /\ fpga_loaded => Expected(pc.spec) \subseteq ControlWrites(operations)
         /\ fpga_loaded /\ ~ Unclear(pc.spec) => ControlWrites(operations) = Expected(pc.spec)
         /\ fpga_loaded => WhollyLogged(pc.spec)
<1>1. LogAt(pc, fpga_loaded, ControlWrites(operations), RomWrites(operations))
  BY DEF Deploying, LogNow
<1>2. \A w : w \in ExpectedRoms(pc.spec) => w \in RomWrites(operations)
  <2>1. ASSUME NEW w \in ExpectedRoms(pc.spec) PROVE DueRom(pc, w)
    <3>1. \E i \in DOMAIN ProgramSeq(pc.spec) :
            w = <<RomAddress(ProgramSeq(pc.spec)[i]), ProgramSeq(pc.spec)[i].binary>>
      BY ProgramPosition DEF ExpectedRoms
    <3> QED BY <3>1 DEF DueRom
  <2> QED BY <1>1, <2>1 DEF LogAt
<1>3. RomWrites(operations) = ExpectedRoms(pc.spec)
  BY <1>1, <1>2 DEF LogAt
<1>4. \A w \in Expected(pc.spec) : Due(pc, w)
  BY DueAtFinish
<1>5. fpga_loaded => Expected(pc.spec) \subseteq ControlWrites(operations)
  BY <1>1, <1>4 DEF LogAt
<1>6. ~ Unclear(pc.spec) => ControlWrites(operations) \subseteq Expected(pc.spec)
  BY <1>1 DEF LogAt, Explained, StrayFill, Expected
<1>7. \A w \in ControlWrites(operations) : w \in Expected(pc.spec) \/ StrayFill(pc.spec, w)
  BY <1>1 DEF LogAt, Explained, Expected
<1> QED BY <1>3, <1>5, <1>6, <1>7 DEF WhollyLogged

\* The words of the programs are logged.
LEMMA ExpectedWords ==
  ASSUME NEW s \in Specs, NEW w \in ExpectedRoms(s) PROVE IsSequence(w[2])
<1>1. PICK p \in ProgramsOf(s) : w = <<RomAddress(p), p.binary>>
  BY DEF ExpectedRoms
<1>2. IsSequence(p.binary)
  BY SpecAssumption DEF ProgramsOf, ProgramSeq
<1> QED BY <1>1, <1>2

\* The programs, and all there is to write, are the same under the same map.
LEMMA ExpectedKept ==
  ASSUME UNCHANGED addresses
  PROVE  /\ \A s : ExpectedRoms(s)' = ExpectedRoms(s) /\ Expected(s)' = Expected(s)
         /\ UNCHANGED ivs => \A s : StaleInitialValue(s)' <=> StaleInitialValue(s)
<1>1. ASSUME NEW CONSTANT s PROVE ExpectedRoms(s)' = ExpectedRoms(s)
  BY WritesKept
<1>2. ASSUME NEW CONSTANT s PROVE Expected(s)' = Expected(s)
  <2>1. PICK c : c.spec = s
    <3>1. [spec |-> s].spec = s
      OBVIOUS
    <3> QED BY <3>1
  <2>2. ASSUME NEW CONSTANT w PROVE (w \in Expected(c.spec))' <=> w \in Expected(c.spec)
    BY DueKept
  <2> QED BY <2>1, <2>2
<1>3. UNCHANGED ivs => \A s : StaleInitialValue(s)' <=> StaleInitialValue(s)
  BY DEF StaleInitialValue
<1> QED BY <1>1, <1>2, <1>3

LEMMA WhollyLoggedKept ==
  ASSUME UNCHANGED <<addresses, ivs, operations>>, NEW CONSTANT s
  PROVE  WhollyLogged(s)' <=> WhollyLogged(s)
<1>1. /\ ExpectedRoms(s)' = ExpectedRoms(s) /\ Expected(s)' = Expected(s)
      /\ StaleInitialValue(s)' <=> StaleInitialValue(s)
  BY ExpectedKept
<1>2. ASSUME NEW CONSTANT w PROVE StrayFill(s, w)' <=> StrayFill(s, w)
  BY <1>1, AddressesKept DEF StrayFill, Unclear
<1> QED BY <1>1, <1>2 DEF WhollyLogged

\* deploy_hil answers that the specification is deployed.
LEMMA FinishDeployKeepsLog ==
  ASSUME Bracket, Deploying, Running, IsSequence(operations), FinishDeploy
  PROVE  LogPart'
<1>0. /\ pc.phase = "finish" /\ pc' = Idle /\ reply' = Reply("deployed", pc.spec, <<>>)
      /\ logged' = (IF fpga_loaded THEN pc.spec ELSE NoSpec)
      /\ pc.cmd = "deploy"
      /\ UNCHANGED <<operations, registers, fCore, fpga_loaded, addresses, ivs>>
  BY DEF FinishDeploy, At, busVars, hardwareVars, deployerVars
<1>1. PICK s : s = pc.spec
  OBVIOUS
<1>2. /\ RomWrites(operations) = ExpectedRoms(s)
      /\ fpga_loaded => Expected(s) \subseteq ControlWrites(operations)
      /\ fpga_loaded /\ ~ Unclear(s) => ControlWrites(operations) = Expected(s)
      /\ fpga_loaded => WhollyLogged(s)
  BY <1>0, <1>1, LogIsWhole
<1>3. /\ ExpectedRoms(s)' = ExpectedRoms(s) /\ Expected(s)' = Expected(s)
      /\ StaleInitialValue(s)' <=> StaleInitialValue(s)
  BY <1>0, ExpectedKept
<1>4. reply'.kind = "deployed" /\ reply'.spec = s
  BY <1>0, <1>1 DEF Reply
<1>5. LogIsSpecification'
  BY <1>0, <1>2, <1>3, <1>4 DEF LogIsSpecification, Unclear
<1>6. (logged # NoSpec => Recorded(logged) /\ WordsLogged)'
  <2>1. fpga_loaded => Recorded(s)'
    BY <1>0, <1>2, <1>3 DEF Recorded
  <2>2. s \in Specs /\ RomWrites(operations') = ExpectedRoms(s)
    BY <1>0, <1>1, <1>2 DEF Running, RunningPc
  <2>3. WordsLogged'
    BY <2>2, ExpectedWords DEF WordsLogged
  <2> QED BY <1>0, <1>1, <2>1, <2>3
<1>7. Deploying' /\ IsSequence(operations)'
  BY <1>0, IdleIsNotRunning DEF Deploying, Running
<1>8. DeployReached'
  <2>1. HardwareFollows
    BY <1>0 DEF Bracket, Deploying
  <2>2. HardwareFollows'
    BY <1>0, <2>1, HardwareStays
  <2>3. s \in Specs
    BY <1>1 DEF Running, RunningPc
  <2>4. fpga_loaded => WhollyLogged(s)'
    BY <1>0, <1>2, WhollyLoggedKept
  <2> QED BY <1>0, <1>4, <2>2, <2>3, <2>4 DEF DeployReached
<1> QED BY <1>5, <1>6, <1>7, <1>8 DEF LogPart

\* get_hardware_sim_data starts the emulation without the bus, and answers.
LEMMA FinishSimulationKeepsLog ==
  ASSUME Deploying, Running, IsSequence(operations), FinishSimulation
  PROVE  LogPart'
<1> DEFINE entry == BusOp(<<Bases.hil_control>>, <<1>>, "control_plane_write")
           start == <<Bases.hil_control, 1>>
<1>0. /\ pc.phase = "finish" /\ pc' = Idle
      /\ reply'.kind = "simulated" /\ reply'.spec = pc.spec
      /\ logged' = (IF fpga_loaded THEN pc.spec ELSE NoSpec)
      /\ operations' = (IF fpga_loaded THEN Append(operations, entry) ELSE operations)
      /\ UNCHANGED <<fpga_loaded, addresses, ivs>>
  BY DEF FinishSimulation, At, deployerVars, Reply
<1>1. PICK s : s = pc.spec
  OBVIOUS
<1>2. /\ RomWrites(operations) = ExpectedRoms(s)
      /\ fpga_loaded => Expected(s) \subseteq ControlWrites(operations)
      /\ fpga_loaded /\ ~ Unclear(s) => ControlWrites(operations) = Expected(s)
  BY <1>0, <1>1, LogIsWhole
<1>3. /\ ExpectedRoms(s)' = ExpectedRoms(s) /\ Expected(s)' = Expected(s)
      /\ StaleInitialValue(s)' <=> StaleInitialValue(s)
      /\ Bases' = Bases
  BY <1>0, ExpectedKept, AddressesKept
<1>4. /\ IsSequence(<<entry>>) /\ ControlWrites(<<entry>>) = {start} /\ RomWrites(<<entry>>) = {}
  <2>1. /\ entry.type = "control_plane_write" /\ entry.address[1] = Bases.hil_control
        /\ entry.data[1] = 1
    BY DEF BusOp
  <2> HIDE DEF entry
  <2>2. <<entry>> \in Seq({entry}) /\ Range(<<entry>>) = {entry}
    BY DEF Range
  <2>3. IsSequence(<<entry>>)
    BY <2>2, SequenceIntro
  <2>4. RomWrites(<<entry>>) = {}
    BY <2>1, <2>2 DEF RomWrites
  <2>5. ControlWrites(<<entry>>) = {start}
    <3>1. {x \in Range(<<entry>>) : x.type = "control_plane_write"} = {entry}
      BY <2>1, <2>2
    <3>2. ControlWrites(<<entry>>) = {<<o.address[1], o.data[1]>> : o \in {entry}}
      BY <3>1 DEF ControlWrites
    <3>3. start = <<entry.address[1], entry.data[1]>>
      BY <2>1
    <3> HIDE DEF start
    <3> QED BY <3>2, <3>3
  <2> QED BY <2>3, <2>4, <2>5
<1> HIDE DEF entry
<1>5. fpga_loaded =>
        /\ IsSequence(operations')
        /\ ControlWrites(operations') = ControlWrites(operations) \union {start}
        /\ RomWrites(operations') = RomWrites(operations)
  <2>1. SUFFICES ASSUME fpga_loaded
                 PROVE  /\ IsSequence(operations')
                        /\ ControlWrites(operations') = ControlWrites(operations) \union {start}
                        /\ RomWrites(operations') = RomWrites(operations)
    OBVIOUS
  <2>2. operations' = operations \o <<entry>>
    BY <1>0, <2>1 DEF IsSequence
  <2>3. /\ ControlWrites(operations \o <<entry>>) = ControlWrites(operations) \union ControlWrites(<<entry>>)
        /\ RomWrites(operations \o <<entry>>) = RomWrites(operations) \union RomWrites(<<entry>>)
    BY <1>4, WritesOfConcat
  <2>4. IsSequence(operations \o <<entry>>)
    BY <1>4, RangeOfConcat
  <2> QED BY <1>4, <2>2, <2>3, <2>4
<1>6. LogIsSpecification'
  <2>1. CASE ~ fpga_loaded
    BY <1>0, <2>1 DEF LogIsSpecification
  <2>2. CASE fpga_loaded
    <3>1. RomWrites(operations') = ExpectedRoms(s)'
      BY <1>2, <1>3, <1>5, <2>2
    <3>2. ~ Unclear(s)' => ControlWrites(operations') = Expected(s)' \union {start'}
      <4>1. start' = start
        BY <1>3
      <4>2. Unclear(s)' <=> Unclear(s)
        BY <1>3 DEF Unclear
      <4>3. ~ Unclear(s) => ControlWrites(operations') = Expected(s) \union {start}
        BY <1>2, <1>5, <2>2
      <4> QED BY <1>3, <4>1, <4>2, <4>3
    <3>3. reply'.spec = s /\ reply'.kind = "simulated"
      BY <1>0, <1>1
    <3> QED BY <3>1, <3>2, <3>3 DEF LogIsSpecification, Unclear
  <2> QED BY <2>1, <2>2
<1>7. (logged # NoSpec => Recorded(logged) /\ WordsLogged)'
  <2>1. fpga_loaded => Recorded(s)'
    BY <1>2, <1>3, <1>5 DEF Recorded
  <2>2. s \in Specs /\ (fpga_loaded => RomWrites(operations') = ExpectedRoms(s))
    BY <1>1, <1>2, <1>5 DEF Running, RunningPc
  <2>3. fpga_loaded => WordsLogged'
    BY <2>2, ExpectedWords DEF WordsLogged
  <2> QED BY <1>0, <1>1, <2>1, <2>3
<1>8. Deploying' /\ IsSequence(operations)'
  BY <1>0, <1>5, IdleIsNotRunning DEF Deploying, Running
<1>9. DeployReached'
  BY <1>0 DEF DeployReached
<1> QED BY <1>6, <1>7, <1>8, <1>9 DEF LogPart

\* Every step of deploy(), one helper call each.
LEMMA DeployStepKeepsLog ==
  ASSUME AddressesFit, LogInvariant, DeployStep
  PROVE  LogPart'
<1>0. Running /\ Deploying /\ IsSequence(operations)
  BY PhaseNames, IdleOrRunning
  DEF LogInvariant, LogPart, DeployStep, LoadCore, ComputeTimebase, RaiseTimebaseDivider,
      NextDivider, SetupInterconnectIv, SetupOutputEntry,
      FinishOutputDma, SetupMemory, SetupInput, FinishInput, FinishCoreInputs, SetupSequencer,
      SetupCore, EndOfLoop, FinishDeploy, FinishSimulation, At, Idle
<1>1. CASE FinishDeploy
  BY <1>0, <1>1, FinishDeployKeepsLog DEF LogInvariant
<1>2. CASE FinishSimulation
  BY <1>0, <1>2, FinishSimulationKeepsLog
<1>3. CASE /\ \/ LoadCore \/ ComputeTimebase \/ RaiseTimebaseDivider \/ NextDivider
              \/ SetupInterconnectIv \/ SetupOutputEntry \/ FinishOutputDma
              \/ SetupMemory \/ SetupInput \/ FinishInput \/ FinishCoreInputs
              \/ SetupSequencer \/ SetupCore \/ EndOfLoop
           /\ UNCHANGED logged
  <2>1. LogKept
    BY <1>0, <1>3, LoadCoreKeepsLog, ComputeTimebaseKeepsLog, RaiseTimebaseDividerKeepsLog,
       NextDividerKeepsLog, SetupInterconnectIvKeepsLog, SetupOutputEntryKeepsLog,
       FinishOutputDmaKeepsLog, SetupMemoryKeepsLog, SetupInputKeepsLog, FinishInputKeepsLog,
       FinishCoreInputsKeepsLog, SetupSequencerKeepsLog, SetupCoreKeepsLog, EndOfLoopKeepsLog
  <2> QED BY <2>1 DEF LogKept, LogPart, DeployReached
<1> QED BY <1>1, <1>2, <1>3 DEF DeployStep

----------------------------------------------------------------------------
(* The lines of a simulation *)

\* The text for a hardware simulation has a line for every write in the log.
LEMMA WritesAreLines ==
  ASSUME NEW ops, IsSequence(ops)
  PROVE  ControlWrites(ops) \subseteq Range(ControlLines(ops))
<1> DEFINE writes == {i \in DOMAIN ops : ops[i].type = "control_plane_write"}
           line(n) == <<ops[Nth(writes, n)].address[1], ops[Nth(writes, n)].data[1]>>
<1>1. Len(ops) \in Nat /\ writes \in SUBSET (1 .. Len(ops))
  BY SequenceDomain
<1>2. ControlLines(ops) = [n \in 1 .. Cardinality(writes) |-> line(n)]
  BY DEF ControlLines
<1>3. ASSUME NEW w \in ControlWrites(ops) PROVE w \in Range(ControlLines(ops))
  <2>1. PICK i \in DOMAIN ops : ops[i].type = "control_plane_write"
                                /\ w = <<ops[i].address[1], ops[i].data[1]>>
    BY DEF ControlWrites, Range
  <2>2. i \in writes
    BY <2>1
  <2> HIDE DEF writes
  <2>3. PICK n \in 1 .. Cardinality(writes) : Nth(writes, n) = i
    BY <1>1, <2>2, NthPosition
  <2>4. line(n) = w
    BY <2>1, <2>3
  <2> HIDE DEF line
  <2> QED BY <1>2, <2>3, <2>4 DEF Range
<1> QED BY <1>3

\* The elements of a sequence of sequences, flattened.
Parts(seqs, N) == seqs = [n \in 1 .. N |-> seqs[n]] /\ \A n \in 1 .. N : IsSequence(seqs[n])
Gathers(all, seqs, N) ==
  /\ IsSequence(all)
  /\ \A x : x \in Range(all) <=> \E n \in 1 .. N : x \in Range(seqs[n])

\* They flatten to a sequence of all their elements.
LEMMA FlattenGathers ==
  ASSUME NEW N \in Nat, NEW seqs, Parts(seqs, N)
  PROVE  Gathers(FlattenSeq(seqs), seqs, N)
<1> DEFINE S == UNION {Range(seqs[n]) : n \in 1 .. N}
<1>1. Sequences(seqs, N, S)
  <2>1. ASSUME NEW n \in 1 .. N PROVE seqs[n] \in Seq(S)
    <3>1. seqs[n] \in Seq(Range(seqs[n])) /\ Range(seqs[n]) \subseteq S
      BY DEF Parts, IsSequence
    <3> HIDE DEF S
    <3> QED BY <3>1, SequenceOfSubset
  <2> QED BY <2>1 DEF Parts, Sequences
<1> HIDE DEF S
<1>2. PICK u \in [0 .. N -> Seq(S)] : Flattens(u, seqs, N)
  BY <1>1, FlattenSteps
<1>3. /\ u[0] = <<>> /\ u[N] = FlattenSeq(seqs)
      /\ \A n \in 1 .. N : u[n] = u[n - 1] \o seqs[n]
  BY <1>2 DEF Flattens
<1> DEFINE Gathered(m) == \A x : x \in Range(u[m]) <=> \E n \in 1 .. m : x \in Range(seqs[n])
           G == {m \in Nat : m <= N => Gathered(m)}
<1>4. 0 \in G
  <2>1. Range(u[0]) = {} /\ 1 .. 0 = {}
    BY <1>3 DEF Range
  <2> QED BY <2>1
<1>5. ASSUME NEW m \in Nat, m \in G PROVE m + 1 \in G
  <2>1. SUFFICES ASSUME m + 1 <= N PROVE Gathered(m + 1)
    OBVIOUS
  <2>2. m + 1 \in 1 .. N /\ m \in 0 .. N /\ (m + 1) - 1 = m /\ 1 .. m + 1 = (1 .. m) \union {m + 1}
    BY <2>1
  <2>3. u[m + 1] = u[m] \o seqs[m + 1]
    BY <1>3, <2>2
  <2>4. IsSequence(u[m]) /\ IsSequence(seqs[m + 1])
    <3>1. u[m] \in Seq(S)
      BY <1>2, <2>2
    <3> QED BY <2>2, <3>1, SequenceIntro DEF Parts
  <2>5. Range(u[m + 1]) = Range(u[m]) \union Range(seqs[m + 1])
    BY <2>3, <2>4, RangeOfConcat
  <2>6. Gathered(m)
    BY <1>5, <2>1
  <2> QED BY <2>2, <2>5, <2>6
<1> HIDE DEF G
<1>6. \A m \in Nat : m \in G
  BY <1>4, <1>5, AllNumbers
<1>7. Gathered(N)
  <2>1. N \in G /\ N <= N
    BY <1>6
  <2> QED BY <2>1, Zenon DEF G
<1>8. IsSequence(u[N])
  <2>1. u[N] \in Seq(S)
    BY <1>2
  <2> QED BY <2>1, SequenceIntro
<1> QED BY <1>3, <1>7, <1>8 DEF Gathers

\* A fresh log has nothing.
LEMMA NothingLogged ==
  ControlWrites(<<>>) = {} /\ RomWrites(<<>>) = {} /\ IsSequence(<<>>)
<1>1. Range(<<>>) = {}
  BY DEF Range
<1> QED BY <1>1 DEF ControlWrites, RomWrites, IsSequence

\* A line for every word of a program.
LEMMA WordsAreLines ==
  ASSUME NEW ops, IsSequence(ops), \A w \in RomWrites(ops) : IsSequence(w[2]),
         NEW w \in RomWrites(ops), NEW n \in DOMAIN w[2]
  PROVE  <<w[1] + 4 * (n - 1), w[2][n]>> \in Range(RomLines(ops))
<1> DEFINE word(o, i) == <<o.address[1] + 4 * (i - 1), o.data[i]>>
           lines(o) == IF o.type = "rom_plane_write"
                         THEN [i \in DOMAIN o.data |-> word(o, i)] ELSE <<>>
           seqs == [m \in DOMAIN ops |-> lines(ops[m])]
<1>1. PICK N : N \in Nat /\ DOMAIN ops = 1 .. N
  BY SequenceDomain
<1>2. RomLines(ops) = FlattenSeq(seqs)
  BY DEF RomLines
<1>3. \A m \in 1 .. N : ops[m].type = "rom_plane_write"
                        => <<ops[m].address[1], ops[m].data>> \in RomWrites(ops)
  BY <1>1 DEF RomWrites, Range
<1>4. PICK k \in 1 .. N : ops[k].type = "rom_plane_write" /\ w = <<ops[k].address[1], ops[k].data>>
  BY <1>1 DEF RomWrites, Range
<1>5. ASSUME NEW o, o.type = "rom_plane_write" => IsSequence(o.data) PROVE IsSequence(lines(o))
  <2>1. CASE o.type = "rom_plane_write"
    <3>1. PICK M : M \in Nat /\ DOMAIN o.data = 1 .. M
      BY <1>5, <2>1, SequenceDomain
    <3> HIDE DEF word
    <3> DEFINE words == {word(o, i) : i \in 1 .. M}
    <3>4. [i \in 1 .. M |-> word(o, i)] \in [1 .. M -> words]
      OBVIOUS
    <3> HIDE DEF words
    <3>2. [i \in 1 .. M |-> word(o, i)] \in Seq(words)
      BY <3>1, <3>4
    <3>3. lines(o) = [i \in 1 .. M |-> word(o, i)]
      BY <2>1, <3>1
    <3> HIDE DEF lines
    <3> QED BY <3>2, <3>3, SequenceIntro
  <2>2. CASE o.type # "rom_plane_write"
    <3>1. lines(o) = <<>>
      BY <2>2
    <3> HIDE DEF lines
    <3> QED BY <3>1, NothingLogged
  <2> QED BY <2>1, <2>2
<1>6. \A m \in 1 .. N : IsSequence(lines(ops[m]))
  <2>1. ASSUME NEW m \in 1 .. N PROVE IsSequence(lines(ops[m]))
    <3>1. PICK o : o = ops[m]
      OBVIOUS
    <3>2. o.type = "rom_plane_write" => IsSequence(o.data)
      <4>1. ASSUME o.type = "rom_plane_write" PROVE IsSequence(<<o.address[1], o.data>>[2])
        BY <1>3, <3>1, <4>1
      <4> QED BY <4>1
    <3> HIDE DEF lines
    <3> QED BY <1>5, <3>1, <3>2
  <2> QED BY <2>1
<1>7. Parts(seqs, N)
  <2> HIDE DEF lines
  <2> QED BY <1>1, <1>6 DEF Parts
<1>8. w[1] = ops[k].address[1] /\ w[2] = ops[k].data
  BY <1>4
<1>9. <<w[1] + 4 * (n - 1), w[2][n]>> \in Range(seqs[k])
  <2>1. seqs[k] = [i \in DOMAIN ops[k].data |-> word(ops[k], i)]
    BY <1>1, <1>4
  <2>2. n \in DOMAIN ops[k].data
    BY <1>8
  <2>3. word(ops[k], n) = <<w[1] + 4 * (n - 1), w[2][n]>>
    BY <1>8
  <2> HIDE DEF seqs, word
  <2> QED BY <2>1, <2>2, <2>3 DEF Range
<1> HIDE DEF seqs, lines, word
<1>10. Gathers(FlattenSeq(seqs), seqs, N)
  BY <1>1, <1>7, FlattenGathers
<1> QED BY <1>2, <1>9, <1>10 DEF Gathers

\* Of a specification that is recorded, the answer from the log has every write
\* and every word.
LEMMA AnsweredWhole ==
  ASSUME IsSequence(operations), WordsLogged, NEW s, Recorded(s)
  PROVE  /\ Expected(s) \subseteq Range(ControlLines(operations))
         /\ \A p \in ProgramsOf(s) : \A n \in DOMAIN p.binary :
              <<RomAddress(p) + 4 * (n - 1), p.binary[n]>> \in Range(RomLines(operations))
<1>1. Expected(s) \subseteq Range(ControlLines(operations))
  BY WritesAreLines DEF Recorded
<1>2. ASSUME NEW p \in ProgramsOf(s), NEW n \in DOMAIN p.binary
      PROVE  <<RomAddress(p) + 4 * (n - 1), p.binary[n]>> \in Range(RomLines(operations))
  <2>1. PICK w : w = <<RomAddress(p), p.binary>>
    OBVIOUS
  <2>2. w \in RomWrites(operations) /\ w[1] = RomAddress(p) /\ w[2] = p.binary
    BY <2>1 DEF Recorded, ExpectedRoms
  <2>3. n \in DOMAIN w[2]
    BY <2>2
  <2>4. <<w[1] + 4 * (n - 1), w[2][n]>> \in Range(RomLines(operations))
    BY <2>2, <2>3, WordsAreLines DEF WordsLogged
  <2> QED BY <2>2, <2>4
<1> QED BY <1>1, <1>2

----------------------------------------------------------------------------
(* The other commands *)

\* Nothing is due of a log that starts anew.
LEMMA NothingDue ==
  \A c, loaded : c.spec \in Specs /\ c.phase = "load_cores" /\ c.i = 1 => LogAt(c, loaded, {}, {})
<1>1. SUFFICES ASSUME NEW c, NEW loaded, c.spec \in Specs, c.phase = "load_cores", c.i = 1
               PROVE  LogAt(c, loaded, {}, {})
  OBVIOUS
<1>2. \A i \in DOMAIN ProgramSeq(c.spec) : ~(i < 1)
  BY <1>1, SpecSequences
<1>3. \A w : ~ DueRom(c, w)
  BY <1>1, <1>2 DEF DueRom
<1>4. \A w : ~ Due(c, w)
  BY <1>1
  DEF Due, DueSlot, DueDma, DueMemory, DueUse, DueNoise, DueSequencer, DueCore, Passed, AfterDma,
      AfterMemories, AfterInputs, AfterSequencer
<1> QED BY <1>3, <1>4 DEF LogAt

LEMMA NothingDueNext ==
  (\A c, loaded : c.spec \in Specs /\ c.phase = "load_cores" /\ c.i = 1 => LogAt(c, loaded, {}, {}))'
BY NothingDue, PTL

\* deploy() starts with a log it has cleared.
LEMMA PrologueStartsLog ==
  ASSUME NEW cmd \in {"deploy", "sim"}, NEW s \in Specs, Prologue(cmd, s)
  PROVE  LogPart' /\ reply'.kind # "simulated_deployed"
<1> DEFINE fits == SpecData[s].set_specs = "ok" /\ Len(SpecData[s].programs) <= MaxCores
           start == [Idle EXCEPT !.phase = Phases[1], !.cmd = cmd, !.spec = s]
<1>1. /\ operations' = <<>> /\ logged' = NoSpec
      /\ active_random_inputs' = 0 /\ active_waveforms' = 0
      /\ fits => bus_map' = Slots(s)
      /\ pc' = IF fits THEN start ELSE Idle
  BY DEF Prologue, set_map
<1>2. /\ fits => reply' = NoReply
      /\ ~ fits => reply'.kind \in {"deployment_error", "died"}
  BY DEF Prologue, Reply
<1>3. IsSequence(operations') /\ ControlWrites(operations') = {} /\ RomWrites(operations') = {}
  BY <1>1, NothingLogged
<1>4. reply'.kind \notin {"deployed", "simulated", "simulated_deployed"}
  BY <1>2 DEF NoReply, Reply
<1>5. LogIsSpecification' /\ DeployReached'
  BY <1>4 DEF LogIsSpecification, DeployReached
<1>6. Deploying'
  <2>1. CASE fits
    <3>1. /\ start.phase = "load_cores" /\ start.spec = s /\ start.i = 1 /\ start.j = 1
      BY DEF Idle, Phases
    <3> HIDE DEF start, fits
    <3>2. PICK c, loaded : c = start /\ loaded = fpga_loaded'
      OBVIOUS
    <3>3. pc' = c /\ c.phase = "load_cores" /\ c.spec = s /\ c.i = 1 /\ c.j = 1
      BY <1>1, <2>1, <3>1, <3>2
    <3>4. LogAt(c, loaded, {}, {})'
      BY <3>3, NothingDueNext
    <3>5. LogNow'
      BY <1>3, <3>2, <3>3, <3>4 DEF LogNow
    <3>6. Prepared'
      BY <1>1, <2>1, <3>3 DEF Prepared, Beginning, Untimed
    <3>7. CountedSoFar(c, 0, 0)
      BY <3>3 DEF CountedSoFar
    <3>8. CountedSoFar(pc, active_random_inputs, active_waveforms)'
      BY <1>1, <3>3, <3>7
    <3>9. HardwareFollows'
      BY <1>3 DEF HardwareFollows, RegistersFollow, RomsFollow
    <3> QED BY <1>1, <1>2, <2>1, <3>5, <3>6, <3>8, <3>9 DEF Deploying
  <2>2. CASE ~ fits
    BY <1>1, <2>2, IdleIsNotRunning DEF Deploying, Running
  <2> QED BY <2>1, <2>2
<1> QED BY <1>1, <1>3, <1>4, <1>5, <1>6 DEF LogPart

\* Any store extends the log, or leaves it.
LEMMA WritesExtendLog ==
  ASSUME IsSequence(operations), NEW stores, IsSequence(stores), write_direct_all(stores)
  PROVE  LogGrows
<1>1. CASE fpga_loaded
  <2> DEFINE entry(i) == BusOp(<<stores[i][1]>>, <<stores[i][2]>>, "control_plane_write")
             entries == [i \in DOMAIN stores |-> entry(i)]
  <2>1. operations' = operations \o entries
    BY <1>1 DEF write_direct_all, write_registers
  <2> HIDE DEF entry
  <2>2. Len(stores) \in Nat /\ DOMAIN stores = 1 .. Len(stores)
    BY SequenceDomain
  <2>3. entries \in Seq({entry(i) : i \in DOMAIN stores})
    BY <2>2
  <2>4. IsSequence(entries)
    BY <2>3, SequenceIntro
  <2> HIDE DEF entries
  <2>5. IsSequence(operations \o entries)
    BY <2>4, RangeOfConcat
  <2>6. /\ ControlWrites(operations \o entries) = ControlWrites(operations) \union ControlWrites(entries)
        /\ RomWrites(operations \o entries) = RomWrites(operations) \union RomWrites(entries)
    BY <2>4, WritesOfConcat
  <2>7. RomWrites(entries) = {}
    <3>1. \A i : entry(i).type = "control_plane_write"
      BY DEF entry, BusOp
    <3>2. \A x \in Range(entries) : x.type # "rom_plane_write"
      BY <3>1 DEF entries, Range
    <3> QED BY <3>2 DEF RomWrites
  <2> QED BY <2>1, <2>5, <2>6, <2>7 DEF LogGrows, WordsLogged
<1>2. CASE ~fpga_loaded
  BY <1>2 DEF write_direct_all, busVars, LogGrows, WordsLogged
<1> QED BY <1>1, <1>2

\* What is recorded of a specification is still when the log grows.
LEMMA RecordedKept ==
  ASSUME LogGrows, UNCHANGED addresses, NEW CONSTANT s, Recorded(s), WordsLogged
  PROVE  Recorded(s)' /\ WordsLogged'
<1>1. Expected(s)' = Expected(s) /\ ExpectedRoms(s)' = ExpectedRoms(s)
  BY ExpectedKept
<1> QED BY <1>1 DEF LogGrows, Recorded

\* A log nothing is added to.
LEMMA LogStays ==
  ASSUME IsSequence(operations), UNCHANGED operations PROVE LogGrows
BY DEF LogGrows, WordsLogged

\* A command that answers neither of the two, and adds to the log it has, if
\* what it has is still said to be of a specification.
LEMMA IdleKeepsLog ==
  ASSUME LogPart, pc' = Idle, IsSequence(operations'), reply'.kind \notin {"deployed", "simulated"},
         \/ logged' = NoSpec
         \/ UNCHANGED <<logged, addresses>> /\ LogGrows
  PROVE  LogPart'
<1>1. Deploying' /\ LogIsSpecification' /\ DeployReached'
  BY IdleIsNotRunning DEF Deploying, Running, LogIsSpecification, DeployReached
<1>2. (logged # NoSpec => Recorded(logged) /\ WordsLogged)'
  <2>1. CASE logged' = NoSpec
    BY <2>1
  <2>2. CASE UNCHANGED <<logged, addresses>> /\ LogGrows
    <3>1. PICK s : s = logged
      OBVIOUS
    <3>2. s # NoSpec => Recorded(s) /\ WordsLogged
      BY <3>1 DEF LogPart
    <3>3. s # NoSpec => Recorded(s)' /\ WordsLogged'
      BY <2>2, <3>2, RecordedKept
    <3> QED BY <2>2, <3>1, <3>3
  <2> QED BY <2>1, <2>2
<1> QED BY <1>1, <1>2 DEF LogPart

\* A command that writes registers.
LEMMA CommandKeepsLog ==
  ASSUME LogPart, pc = Idle, NEW stores, IsSequence(stores), Command(stores)
  PROVE  LogPart' /\ reply'.kind # "simulated_deployed"
<1>1. LogGrows /\ IsSequence(operations')
  BY WritesExtendLog DEF Command, LogPart, LogGrows
<1>2. /\ pc' = Idle /\ UNCHANGED <<logged, addresses>>
      /\ reply'.kind \in {"none", "died"}
  BY DEF Command, deployerVars, NoReply, Reply
<1> QED BY <1>1, <1>2, IdleKeepsLog

\* hil_set_in writes the three registers of each entry of the input.
LEMMA SetInputStores ==
  ASSUME IsSequence(inputs), NEW core, NEW name, NEW channel, NEW value,
         set_input(core, name, channel, value)
  PROVE  \E stores : IsSequence(stores) /\ Command(stores)
<1> DEFINE same == {i \in DOMAIN inputs : inputs[i].core = core /\ inputs[i].name = name
                                            /\ inputs[i].channel = channel}
           in(n) == inputs[Nth(same, (n + 2) \div 3)]
           store(n) == ConstantStores(in(n).engine, in(n).selector, in(n).dest, value)[((n - 1) % 3) + 1]
           stores == [n \in 1 .. 3 * Cardinality(same) |-> store(n)]
<1>1. Command(stores)
  BY DEF set_input
<1> HIDE DEF store
<1>2. Cardinality(same) \in Nat
  <2>1. DOMAIN inputs = 1 .. Len(inputs) /\ Len(inputs) \in Nat
    BY SequenceDomain
  <2>2. IsFiniteSet(1 .. Len(inputs))
    BY <2>1, FS_Interval
  <2>3. same \in SUBSET (1 .. Len(inputs))
    BY <2>1
  <2> HIDE DEF same
  <2> QED BY <2>2, <2>3, FS_Subset, FS_CardinalityType
<1> HIDE DEF same
<1>3. 3 * Cardinality(same) \in Nat
  BY <1>2
<1>4. stores \in Seq({store(n) : n \in 1 .. 3 * Cardinality(same)})
  BY <1>3
<1>5. IsSequence(stores)
  BY <1>4, SequenceIntro
<1> QED BY <1>1, <1>5

\* The commands that only write registers.
LEMMA RegisterCommandsKeepLog ==
  ASSUME LogPart, IsSequence(inputs), pc = Idle,
         HilStart \/ HilStop \/ HilSelectOut \/ HilSetIn
  PROVE  LogPart' /\ reply'.kind # "simulated_deployed"
<1>1. \/ \E stores : IsSequence(stores) /\ Command(stores)
      \/ process_exit /\ reply' = Reply("died", NoSpec, <<>>) /\ UNCHANGED <<deployerVars, pc, logged>>
  <2>1. \A address, value : IsSequence(<<<<address, value>>>>)
    BY OneStore DEF AreStores
  <2>2. CASE HilStart \/ HilStop
    BY <2>1, <2>2 DEF HilStart, HilStop
  <2>3. CASE HilSelectOut
    BY <2>1, <2>3 DEF HilSelectOut, select_output
  <2>4. CASE HilSetIn
    BY <2>4, SetInputStores DEF HilSetIn
  <2> QED BY <2>2, <2>3, <2>4
<1>2. CASE \E stores : IsSequence(stores) /\ Command(stores)
  BY <1>2, CommandKeepsLog
<1>3. CASE process_exit /\ reply' = Reply("died", NoSpec, <<>>) /\ UNCHANGED <<deployerVars, pc, logged>>
  <2>1. UNCHANGED <<operations, addresses, logged>> /\ pc' = Idle /\ reply'.kind = "died"
    BY <1>3 DEF process_exit, deployerVars, Reply
  <2> QED BY <2>1, LogStays, IdleKeepsLog DEF LogPart
<1> QED BY <1>1, <1>2, <1>3

\* get_hardware_sim_data answers with what is in the log when it trusts it.
LEMMA SimulateDeployedKeepsLog ==
  ASSUME LogPart, pc = Idle, NEW s \in Specs, SimulateDeployed(s)
  PROVE  LogPart' /\ CachedSimulationIsComplete'
<1>1. /\ UNCHANGED <<operations, logged, addresses>> /\ pc' = Idle
      /\ reply'.kind = "simulated_deployed" /\ reply'.spec = s
      /\ reply'.data.control = ControlLines(operations)
      /\ reply'.data.code = RomLines(operations)
  BY DEF SimulateDeployed, busVars, deployerVars, Reply, SimData
<1>2. LogPart'
  BY <1>1, LogStays, IdleKeepsLog DEF LogPart
<1>3. CachedSimulationIsComplete'
  <2>1. SUFFICES ASSUME logged' = s, PastEnd(s) = {}
                 PROVE  /\ Expected(s)' \subseteq Range(ControlLines(operations))
                        /\ \A p \in ProgramsOf(s) : \A n \in DOMAIN p.binary :
                             <<RomAddress(p)' + 4 * (n - 1), p.binary[n]>> \in Range(RomLines(operations))
    BY <1>1 DEF CachedSimulationIsComplete
  <2>2. Recorded(s) /\ WordsLogged /\ IsSequence(operations)
    BY <1>1, <2>1, HilAssumption DEF LogPart
  <2>3. Expected(s)' = Expected(s) /\ \A p : RomAddress(p)' = RomAddress(p)
    BY <1>1, ExpectedKept, AddressesKept
  <2> QED BY <2>2, <2>3, AnsweredWhole
<1> QED BY <1>2, <1>3

\* What the steps of deploy() answer.
LEMMA DeployStepReplies ==
  ASSUME DeployStep
  PROVE  \/ UNCHANGED reply
         \/ \E s, data : \E kind \in {"died", "deployment_error", "deployed", "simulated"} :
              reply' = Reply(kind, s, data)
<1>0. /\ \A stores, next : WriteThen(stores, next) =>
            UNCHANGED reply \/ reply' = Reply("died", pc.spec, <<>>)
      /\ Throw => \/ reply' = Reply("died", pc.spec, <<>>)
                  \/ reply' = Reply("deployment_error", pc.spec, <<>>)
  BY Zenon DEF WriteThen, Throw
<1>1. CASE LoadCore
  BY <1>1 DEF LoadCore, LoadThen
<1>2. CASE ComputeTimebase \/ RaiseTimebaseDivider \/ NextDivider \/ SetupInterconnectIv
  BY <1>2 DEF ComputeTimebase, RaiseTimebaseDivider, NextDivider, SetupInterconnectIv, SkipTo
<1>3. CASE SetupOutputEntry
  BY <1>0, <1>3 DEF SetupOutputEntry, SkipTo
<1>4. CASE FinishOutputDma \/ SetupMemory \/ FinishCoreInputs \/ SetupSequencer \/ SetupCore
  BY <1>4 DEF FinishOutputDma, SetupMemory, FinishCoreInputs, SetupSequencer, SetupCore,
              SkipTo, WriteThen
<1>5. CASE SetupInput
  BY <1>0, <1>5 DEF SetupInput, setup_constant, setup_random, setup_waveform, SkipTo
<1>6. CASE FinishInput \/ EndOfLoop
  BY <1>6 DEF FinishInput, EndOfLoop, SkipTo
<1>7. CASE FinishDeploy \/ FinishSimulation
  BY <1>7 DEF FinishDeploy, FinishSimulation
<1> QED BY <1>1, <1>2, <1>3, <1>4, <1>5, <1>6, <1>7 DEF DeployStep

\* No step of deploy() answers as if there had been one before.
LEMMA DeployStepReply ==
  ASSUME Deploying, Running, DeployStep
  PROVE  reply'.kind # "simulated_deployed"
<1>1. reply.kind = "none"
  BY DEF Deploying, NoReply, Reply
<1> QED BY <1>1, DeployStepReplies DEF Reply

\* The inputs set up are in a vector that only grows, or starts anew.
LEMMA InputsAreSequence ==
  ASSUME IsSequence(inputs), [Next]_vars
  PROVE  IsSequence(inputs')
<1>1. IsSequence(<<>>)
  BY NothingLogged
<1>2. ASSUME NEW x PROVE IsSequence(Append(inputs, x))
  <2>1. Append(inputs, x) \in Seq(Range(inputs) \union {x})
    BY DEF IsSequence
  <2> QED BY <2>1, SequenceIntro
<1>3. inputs' = inputs \/ inputs' = <<>> \/ \E x : inputs' = Append(inputs, x)
  <2>1. CASE DeployHil \/ HilHardwareSim
    BY <2>1 DEF DeployHil, HilHardwareSim, process_deploy_hil, SimulateAnew, SimulateDeployed, Prologue,
                deployerVars
  <2>2. CASE SetupInput
    BY <2>2 DEF SetupInput, setup_constant, setup_random, setup_waveform
  <2>3. CASE DeployStep /\ ~ SetupInput
    BY <2>3 DEF DeployStep, LoadCore, ComputeTimebase, RaiseTimebaseDivider, NextDivider,
                SetupInterconnectIv, SetupOutputEntry, FinishOutputDma, SetupMemory, FinishInput,
                FinishCoreInputs, SetupSequencer, SetupCore, EndOfLoop, FinishDeploy,
                FinishSimulation, deployerVars
  <2>4. CASE HilStart \/ HilStop \/ HilSelectOut \/ HilSetIn
    BY <2>4 DEF HilStart, HilStop, HilSelectOut, HilSetIn, select_output, set_input, Command, deployerVars
  <2>5. CASE LoadBitstream \/ SetAddressMap \/ GetAddressMap \/ GetSamplingFrequency \/ Terminate
             \/ Relaunch \/ UNCHANGED vars
    BY <2>5 DEF LoadBitstream, SetAddressMap, GetAddressMap, GetSamplingFrequency, Answer, Terminate,
                Relaunch, deployerVars, vars
  <2> QED BY <2>1, <2>2, <2>3, <2>4, <2>5 DEF Next, ServerStep
<1> QED BY <1>1, <1>2, <1>3

\* A driver that has started has logged nothing.
LEMMA LogInit == Init => LogInvariant
<1>1. SUFFICES ASSUME Init PROVE LogInvariant
  OBVIOUS
<1>2. /\ operations = <<>> /\ inputs = <<>> /\ pc = Idle /\ logged = NoSpec
      /\ reply.kind = "none"
  BY <1>1 DEF Init, BusInit, DeployerInit, NoReply, Reply
<1>3. LogPart
  BY <1>2, NothingLogged, IdleIsNotRunning DEF LogPart, Deploying, Running, LogIsSpecification, DeployReached
<1> QED BY <1>1, <1>2, <1>3, BracketInit, NothingLogged DEF LogInvariant, CachedSimulationIsComplete

\* The inductive step.
LEMMA LogNext ==
  ASSUME AddressesFit, LogInvariant, [Next]_vars
  PROVE  LogInvariant'
<1>1. Bracket' /\ IsSequence(inputs')
  BY BracketNext, InputsAreSequence DEF LogInvariant
<1> SUFFICES LogPart' /\ CachedSimulationIsComplete'
  BY <1>1 DEF LogInvariant
<1>2. LogPart /\ IsSequence(operations) /\ (pc.phase = "idle" => pc = Idle)
  BY IdleOrRunning DEF LogInvariant, LogPart
<1>3. reply'.kind # "simulated_deployed" => CachedSimulationIsComplete'
  BY DEF CachedSimulationIsComplete
<1>4. CASE DeployHil
  <2>1. PICK s \in Specs : Prologue("deploy", s)
    BY <1>4 DEF DeployHil, process_deploy_hil
  <2> QED BY <1>3, <2>1, PrologueStartsLog
<1>5. CASE HilHardwareSim
  <2>1. pc = Idle
    BY <1>2, <1>5 DEF HilHardwareSim, At
  <2>2. PICK s \in Specs : SimulateDeployed(s) \/ SimulateAnew(s)
    BY <1>5 DEF HilHardwareSim
  <2>3. LogPart' /\ CachedSimulationIsComplete'
    BY <1>2, <1>3, <2>1, <2>2, SimulateDeployedKeepsLog, PrologueStartsLog DEF SimulateAnew
  <2> QED BY <2>3
<1>6. CASE DeployStep
  <2>1. Deploying /\ Running
    BY <1>6, PhaseNames, IdleOrRunning
    DEF LogInvariant, LogPart, DeployStep, LoadCore, ComputeTimebase, RaiseTimebaseDivider,
        NextDivider, SetupInterconnectIv, SetupOutputEntry, FinishOutputDma, SetupMemory, SetupInput, FinishInput, FinishCoreInputs, SetupSequencer,
        SetupCore, EndOfLoop, FinishDeploy, FinishSimulation, At, Idle
  <2> QED BY <1>3, <1>6, <2>1, DeployStepKeepsLog, DeployStepReply
<1>7. CASE HilStart \/ HilStop \/ HilSelectOut \/ HilSetIn
  <2>1. pc = Idle
    BY <1>2, <1>7 DEF HilStart, HilStop, HilSelectOut, HilSetIn, CanServe, At
  <2> QED BY <1>2, <1>3, <1>7, <2>1, RegisterCommandsKeepLog DEF LogInvariant
<1>8. CASE LoadBitstream \/ GetAddressMap \/ GetSamplingFrequency \/ Terminate
  <2>1. pc' = Idle
    BY <1>2, <1>8
    DEF LoadBitstream, GetAddressMap, GetSamplingFrequency, Answer, CanServe, At, Terminate
  <2>2. UNCHANGED <<operations, logged, addresses>>
    BY <1>8
    DEF LoadBitstream, load_bitstream, GetAddressMap, GetSamplingFrequency, Answer, Terminate,
        process_exit, busVars, deployerVars
  <2>3. reply'.kind \in {"none", "address_map", "sampling_frequency"}
    BY <1>8
    DEF LoadBitstream, GetAddressMap, GetSamplingFrequency, Answer, Terminate, NoReply, Reply
  <2> QED BY <1>2, <1>3, <2>1, <2>2, <2>3, LogStays, IdleKeepsLog
<1>9. CASE SetAddressMap
  <2>1. /\ pc' = Idle /\ UNCHANGED operations
        /\ reply' = NoReply \/ reply' = Reply("died", NoSpec, <<>>)
    BY <1>2, <1>9 DEF SetAddressMap, At, process_exit, busVars
  <2>3. reply'.kind \in {"none", "died"}
    BY <2>1 DEF NoReply, Reply
  <2>2. logged' = NoSpec \/ UNCHANGED <<logged, addresses>>
    BY <1>9 DEF SetAddressMap
  <2> QED BY <1>2, <1>3, <2>1, <2>2, <2>3, LogStays, IdleKeepsLog
<1>10. CASE Relaunch
  <2>1. pc' = Idle /\ operations' = <<>> /\ reply'.kind = "none" /\ logged' = NoSpec
    BY <1>10 DEF Relaunch, launch, NoReply, Reply
  <2>2. IsSequence(operations')
    BY <2>1, NothingLogged
  <2> QED BY <1>2, <1>3, <2>1, <2>2, IdleKeepsLog
<1>11. CASE UNCHANGED vars
  <2>1. UNCHANGED <<up, fpga_loaded, operations, addresses, ivs, bus_map, timebase_frequency,
                    active_random_inputs, active_waveforms, pc, reply, logged, sink_mode,
                    registers, fCore>>
    BY <1>11 DEF vars, busVars, hardwareVars, deployerVars
  <2>2. \A s : (Expected(s)' = Expected(s) /\ ExpectedRoms(s)' = ExpectedRoms(s))
               /\ (StaleInitialValue(s)' <=> StaleInitialValue(s))
    BY <2>1, ExpectedKept
  <2>3. LogIsSpecification' /\ CachedSimulationIsComplete'
    BY <2>1, <2>2, AddressesKept DEF LogPart, LogInvariant, LogIsSpecification, CachedSimulationIsComplete
  <2>4. (logged # NoSpec => Recorded(logged) /\ WordsLogged)'
    BY <2>1, <2>2 DEF LogPart, LogInvariant, Recorded, WordsLogged
  <2>6. HardwareFollows => HardwareFollows'
    BY <2>1, HardwareStays
  <2>5. Deploying'
    <3>1. LogNow => LogNow'
      <4>1. PICK c, loaded, written, roms : c = pc /\ loaded = fpga_loaded
                /\ written = ControlWrites(operations) /\ roms = RomWrites(operations)
        OBVIOUS
      <4>2. LogAt(c, loaded, written, roms)' <=> LogAt(c, loaded, written, roms)
        BY <2>1, LogAtKept
      <4> QED BY <2>1, <4>1, <4>2 DEF LogNow
    <3>2. Prepared => Prepared'
      BY <2>1 DEF Prepared
    <3>3. CountedSoFar(pc, active_random_inputs, active_waveforms)
            => CountedSoFar(pc, active_random_inputs, active_waveforms)'
      BY <2>1
    <3>4. (Running' <=> Running) /\ Deploying
      BY <1>2, <2>1 DEF LogPart, Running
    <3> QED BY <2>1, <2>6, <3>1, <3>2, <3>3, <3>4 DEF Deploying
  <2>7. DeployReached'
    <3>1. PICK s : s = reply.spec
      OBVIOUS
    <3>2. WhollyLogged(s)' <=> WhollyLogged(s)
      BY <2>1, WhollyLoggedKept
    <3> QED BY <1>2, <2>1, <2>6, <3>1, <3>2 DEF LogPart, DeployReached
  <2> QED BY <1>2, <2>1, <2>3, <2>4, <2>5, <2>7 DEF LogPart
<1> QED BY <1>4, <1>5, <1>6, <1>7, <1>8, <1>9, <1>10, <1>11 DEF Next, ServerStep

\* At every step of deploy() the log holds what is due there, and nothing that
\* the specification does not explain.
THEOREM LogIsInvariant ==
  ASSUME AddressesFit
  PROVE  Spec => []LogInvariant
BY LogInit, LogNext, PTL DEF Spec

\* A deploy or a fresh simulation that completes has logged what its
\* specification calls for and nothing else.
THEOREM LogIsOfSpecification ==
  ASSUME AddressesFit
  PROVE  Spec => []LogIsSpecification
<1>1. LogInvariant => LogIsSpecification
  BY DEF LogInvariant, LogPart
<1> QED BY <1>1, LogIsInvariant, PTL

\* A simulation answered from the log is answered with the whole of it.
THEOREM CachedSimulationIsWhole ==
  ASSUME AddressesFit
  PROVE  Spec => []CachedSimulationIsComplete
<1>1. LogInvariant => CachedSimulationIsComplete
  BY DEF LogInvariant
<1> QED BY <1>1, LogIsInvariant, PTL

\* The address map gives the enable register of the sequencer to nothing else
\* that the specification in progress has registers for.
ControllerApart ==
  pc.phase # "idle" =>
    /\ \A w \in BeforeEnable(pc.spec) : w[1] # Controller
    /\ \A p \in ProgramsOf(pc.spec) : DmaAddress(p) + 8 # Controller /\ DmaAddress(p) + 4 # Controller

\* The cores are enabled only with their programs and all of their configuration.
THEOREM CoresEnabledAfterConfiguration ==
  ASSUME AddressesFit
  PROVE  Spec => [](ControllerApart => EnabledAfterConfiguration)
<1>1. ASSUME LogInvariant, ControllerApart PROVE EnabledAfterConfiguration
  <2>1. SUFFICES ASSUME up, pc.phase # "idle",
                        NEW e \in ControlWrites(operations), e[1] = Controller
                 PROVE  /\ ExpectedRoms(pc.spec) \subseteq RomWrites(operations)
                        /\ BeforeEnable(pc.spec) \subseteq ControlWrites(operations)
    BY DEF EnabledAfterConfiguration
  <2>2. LogAt(pc, fpga_loaded, ControlWrites(operations), RomWrites(operations))
    BY <1>1, <2>1, IdleOrRunning DEF LogInvariant, LogPart, Deploying, LogNow, Idle
  <2>3. fpga_loaded /\ Explained(pc, e)
    BY <2>2 DEF LogAt
  <2>4. pc.phase \in AfterSequencer
    BY <1>1, <2>1, <2>3 DEF ControllerApart, Explained, StrayFill
  <2>5. pc.phase \in AfterInputs /\ pc.phase # "load_cores"
    BY <2>4 DEF AfterSequencer, AfterInputs
  <2>6. BeforeEnable(pc.spec) \subseteq ControlWrites(operations)
    BY <2>2, <2>3, <2>5, DueBeforeEnable DEF LogAt
  <2>7. ASSUME NEW w \in ExpectedRoms(pc.spec) PROVE w \in RomWrites(operations)
    <3>1. \E i \in DOMAIN ProgramSeq(pc.spec) :
            w = <<RomAddress(ProgramSeq(pc.spec)[i]), ProgramSeq(pc.spec)[i].binary>>
      BY ProgramPosition DEF ExpectedRoms
    <3>2. DueRom(pc, w)
      BY <2>5, <3>1 DEF DueRom
    <3> QED BY <2>2, <3>2 DEF LogAt
  <2> QED BY <2>6, <2>7
<1>2. LogInvariant => (ControllerApart => EnabledAfterConfiguration)
  BY <1>1
<1> QED BY <1>2, LogIsInvariant, PTL
----------------------------------------------------------------------------
(* What a completed deploy has left in the hardware *)

WordAligned(a) == a \in Int /\ (a - ControlAddr) % 4 = 0

\* The registers of a core's DMA, and the writes that are of it.
InDma(p, a) == DmaAddress(p) <= a /\ a < DmaAddress(p) + 4 * (2 * DmaChannels + 3)
DmaWrite(s, p, w) ==
  \/ w = <<DmaAddress(p), Cardinality(SlotsOf(s, p))>>
  \/ \E j \in SlotsOf(s, p) : w \in SlotWrites(s, p, j)

\* What an address map has to be for a specification: registers are words, what
\* is written to the DMA of a core is of that core, and the DMAs and the programs of
\* different cores are apart.
RegistersApart(s) ==
  /\ \A w \in Expected(s) : WordAligned(w[1])
  /\ \A w \in Expected(s) : \A p \in ProgramsOf(s) : InDma(p, w[1]) => DmaWrite(s, p, w)
  /\ \A p \in ProgramsOf(s) : RomAddress(p) \in Int
  /\ \A p, q \in ProgramsOf(s) : p # q =>
       /\ \/ DmaAddress(p) + 4 * (2 * DmaChannels + 3) <= DmaAddress(q)
          \/ DmaAddress(q) + 4 * (2 * DmaChannels + 3) <= DmaAddress(p)
       /\ \/ fcore_address_to_index(RomAddress(p)) + Len(p.binary) <= fcore_address_to_index(RomAddress(q))
          \/ fcore_address_to_index(RomAddress(q)) + Len(q.binary) <= fcore_address_to_index(RomAddress(p))

\* The slots of a core have the numbers from 0 on, each its own.
LEMMA SlotRanks ==
  ASSUME NEW s \in Specs, NEW p, NEW j \in SlotsOf(s, p)
  PROVE  /\ SlotRank(s, p, j) \in Nat /\ Cardinality(SlotsOf(s, p)) \in Nat
         /\ SlotRank(s, p, j) < Cardinality(SlotsOf(s, p))
         /\ \A i \in SlotsOf(s, p) : SlotRank(s, p, i) = SlotRank(s, p, j) => i = j
<1>1. Len(Slots(s)) \in Nat /\ SlotsOf(s, p) \in SUBSET (1 .. Len(Slots(s)))
  BY SpecSequences DEF SlotsOf
<1>2. ASSUME NEW i \in SlotsOf(s, p)
      PROVE  /\ SlotRank(s, p, i) + 1 \in 1 .. Cardinality(SlotsOf(s, p))
             /\ SlotRank(s, p, i) \in Nat
             /\ Nth(SlotsOf(s, p), SlotRank(s, p, i) + 1) = i
  <2>1. /\ i \in DOMAIN Slots(s) /\ Slots(s)[i].source_id = p.name /\ i \in Nat
    BY <1>1 DEF SlotsOf
  <2>2. SlotRank(s, p, i + 1) = SlotRank(s, p, i) + 1
    BY <2>1, SlotRankSteps
  <2>3. {x \in SlotsOf(s, p) : x < i + 1} = SlotsOf(s, p) \cap (1 .. i)
    BY <1>1, <2>1
  <2>4. SlotRank(s, p, i) + 1 = Cardinality(SlotsOf(s, p) \cap (1 .. i))
    BY <2>2, <2>3 DEF SlotRank
  <2>5. SlotRank(s, p, i) \in Nat
    <3>1. IsFiniteSet(1 .. Len(Slots(s)))
      BY <1>1, FS_Interval
    <3>2. {x \in SlotsOf(s, p) : x < i} \in SUBSET (1 .. Len(Slots(s)))
      BY <1>1
    <3>3. IsFiniteSet({x \in SlotsOf(s, p) : x < i})
      BY <3>1, <3>2, FS_Subset
    <3> QED BY <3>3, FS_CardinalityType DEF SlotRank
  <2>6. /\ Cardinality(SlotsOf(s, p) \cap (1 .. i)) \in 1 .. Cardinality(SlotsOf(s, p))
        /\ Nth(SlotsOf(s, p), Cardinality(SlotsOf(s, p) \cap (1 .. i))) = i
    BY <1>1, NthPosition
  <2> QED BY <2>4, <2>5, <2>6
<1>3. \A i \in SlotsOf(s, p) : SlotRank(s, p, i) = SlotRank(s, p, j) => i = j
  BY <1>2
<1>4. IsFiniteSet(1 .. Len(Slots(s)))
  BY <1>1, FS_Interval
<1>5. Cardinality(SlotsOf(s, p)) \in Nat
  BY <1>1, <1>4, FS_Subset, FS_CardinalityType
<1> QED BY <1>2, <1>3, <1>5

\* The writes of a core's DMA by their addresses.
LEMMA DmaWriteForms ==
  ASSUME NEW s, NEW p \in ProgramsOf(s), NEW w, DmaWrite(s, p, w)
  PROVE  \/ w = <<DmaAddress(p), Cardinality(SlotsOf(s, p))>>
         \/ \E j \in SlotsOf(s, p) :
              w = <<DmaAddress(p) + 3 * 4 + SlotRank(s, p, j) * 4, SlotMapping(Slots(s)[j])>>
         \/ \E j \in SlotsOf(s, p) :
              w = <<DmaAddress(p) + 4 * (DmaChannels + 3) + SlotRank(s, p, j) * 4,
                    SlotMetadata(Slots(s)[j])>>
         \/ w \in ExpectedFills(s) /\ w[1] \in {DmaAddress(p) + 4, DmaAddress(p) + 8}
<1>1. ASSUME NEW j \in SlotsOf(s, p), w \in SlotWrites(s, p, j)
      PROVE  \/ w = <<DmaAddress(p) + 3 * 4 + SlotRank(s, p, j) * 4, SlotMapping(Slots(s)[j])>>
             \/ w = <<DmaAddress(p) + 4 * (DmaChannels + 3) + SlotRank(s, p, j) * 4,
                      SlotMetadata(Slots(s)[j])>>
             \/ w \in ExpectedFills(s) /\ w[1] \in {DmaAddress(p) + 4, DmaAddress(p) + 8}
  <2>1. CASE j \in Initialised(s) \ PastEnd(s)
    <3>1. j \in (SlotsOf(s, p) \cap Initialised(s)) \ PastEnd(s)
      BY <2>1
    <3>2. \/ w = <<MappingAddress(DmaAddress(p), SlotRank(s, p, j)), SlotMapping(Slots(s)[j])>>
          \/ w = <<MetadataAddress(DmaAddress(p), SlotRank(s, p, j)), SlotMetadata(Slots(s)[j])>>
          \/ w = <<DmaAddress(p) + 8, SlotRank(s, p, j)>>
          \/ w = <<DmaAddress(p) + 4, InitialOf(s, j)[Slots(s)[j].source_channel + 1]>>
      BY <1>1, <2>1 DEF SlotWrites
    <3>3. <<DmaAddress(p) + 8, SlotRank(s, p, j)>> \in ExpectedFills(s)
      BY <3>1 DEF ExpectedFills
    <3>4. <<DmaAddress(p) + 4, InitialOf(s, j)[Slots(s)[j].source_channel + 1]>> \in ExpectedFills(s)
      BY <3>1 DEF ExpectedFills
    <3> QED BY <3>2, <3>3, <3>4 DEF MappingAddress, MetadataAddress
  <2>2. CASE j \notin Initialised(s) \ PastEnd(s)
    BY <1>1, <2>2 DEF SlotWrites, MappingAddress, MetadataAddress
  <2> QED BY <2>1, <2>2
<1> QED BY <1>1 DEF DmaWrite

\* The entries of a core's DMA.
DmaEntry(s, p, w) ==
  \/ w = <<DmaAddress(p), Cardinality(SlotsOf(s, p))>>
  \/ \E j \in SlotsOf(s, p) :
       w = <<DmaAddress(p) + 3 * 4 + SlotRank(s, p, j) * 4, SlotMapping(Slots(s)[j])>>
  \/ \E j \in SlotsOf(s, p) :
       w = <<DmaAddress(p) + 4 * (DmaChannels + 3) + SlotRank(s, p, j) * 4,
             SlotMetadata(Slots(s)[j])>>

\* No entry is hidden by another while the slots are as many as it has channels.
LEMMA DmaEntriesApart ==
  ASSUME NEW s \in Specs, NEW p \in ProgramsOf(s), DmaAddress(p) \in Int,
         Cardinality(SlotsOf(s, p)) <= DmaChannels, NEW w, DmaEntry(s, p, w)
  PROVE  /\ InDma(p, w[1]) /\ w[1] \notin {DmaAddress(p) + 4, DmaAddress(p) + 8}
         /\ \A x : DmaEntry(s, p, x) /\ x[1] = w[1] => x[2] = w[2]
<1> DEFINE d == DmaAddress(p)
           c == Cardinality(SlotsOf(s, p))
           r(j) == SlotRank(s, p, j)
<1> HIDE DEF d, c, r
<1>1. /\ DmaChannels \in Nat /\ d \in Int /\ (SlotsOf(s, p) # {} => c \in Nat) /\ c <= DmaChannels
      /\ \A j \in SlotsOf(s, p) : r(j) \in Nat /\ r(j) < c
      /\ \A i, j \in SlotsOf(s, p) : r(i) = r(j) => i = j
  BY HilAssumption, SlotRanks DEF d, c, r
<1>2. \A x : DmaEntry(s, p, x) <=>
        \/ x = <<d, c>>
        \/ \E j \in SlotsOf(s, p) : x = <<d + 3 * 4 + r(j) * 4, SlotMapping(Slots(s)[j])>>
        \/ \E j \in SlotsOf(s, p) :
             x = <<d + 4 * (DmaChannels + 3) + r(j) * 4, SlotMetadata(Slots(s)[j])>>
  BY DEF DmaEntry, d, c, r
<1>3. InDma(p, w[1]) /\ w[1] \notin {d + 4, d + 8}
  BY <1>1, <1>2 DEF InDma, d
<1>4. ASSUME NEW x, DmaEntry(s, p, x), x[1] = w[1] PROVE x[2] = w[2]
  <2>1. CASE w = <<d, c>>
    BY <1>1, <1>2, <1>4, <2>1
  <2>2. ASSUME NEW j \in SlotsOf(s, p), w = <<d + 3 * 4 + r(j) * 4, SlotMapping(Slots(s)[j])>>
        PROVE  x[2] = w[2]
    <3>1. x # <<d, c>>
      BY <1>1, <1>4, <2>2
    <3>2. ASSUME NEW i \in SlotsOf(s, p), x = <<d + 3 * 4 + r(i) * 4, SlotMapping(Slots(s)[i])>>
          PROVE  x[2] = w[2]
      BY <1>1, <1>4, <2>2, <3>2
    <3>3. ASSUME NEW i \in SlotsOf(s, p),
                 x = <<d + 4 * (DmaChannels + 3) + r(i) * 4, SlotMetadata(Slots(s)[i])>>
          PROVE  FALSE
      BY <1>1, <1>4, <2>2, <3>3
    <3> QED BY <1>2, <1>4, <3>1, <3>2, <3>3
  <2>3. ASSUME NEW j \in SlotsOf(s, p),
               w = <<d + 4 * (DmaChannels + 3) + r(j) * 4, SlotMetadata(Slots(s)[j])>>
        PROVE  x[2] = w[2]
    <3>1. x # <<d, c>>
      BY <1>1, <1>4, <2>3
    <3>2. ASSUME NEW i \in SlotsOf(s, p), x = <<d + 3 * 4 + r(i) * 4, SlotMapping(Slots(s)[i])>>
          PROVE  FALSE
      BY <1>1, <1>4, <2>3, <3>2
    <3>3. ASSUME NEW i \in SlotsOf(s, p),
                 x = <<d + 4 * (DmaChannels + 3) + r(i) * 4, SlotMetadata(Slots(s)[i])>>
          PROVE  x[2] = w[2]
      BY <1>1, <1>4, <2>3, <3>3
    <3> QED BY <1>2, <1>4, <3>1, <3>2, <3>3
  <2> QED BY <1>2, <2>1, <2>2, <2>3
<1> QED BY <1>3, <1>4 DEF d

\* A write that no other hides is in its register.
LEMMA UnhiddenInRegisters ==
  ASSUME NEW s \in Specs, RegistersApart(s), WhollyLogged(s), HardwareFollows, NEW w \in Expected(s),
         \A x \in Expected(s) : x[1] = w[1] => x[2] = w[2],
         ~ \E x : StrayFill(s, x) /\ x[1] = w[1]
  PROVE  InRegisters(w)
<1>1. PICK x \in ControlWrites(operations) :
        /\ register_address_to_index(x[1]) = register_address_to_index(w[1])
        /\ registers[register_address_to_index(w[1])] = x[2]
  BY DEF WhollyLogged, HardwareFollows, RegistersFollow, RegistersApart, WordAligned
<1>2. WordAligned(w[1]) /\ WordAligned(x[1])
  <2>1. ASSUME StrayFill(s, x) PROVE WordAligned(x[1])
    <3>1. PICK p \in ProgramsOf(s) : x[1] = DmaAddress(p) + 8 \/ x[1] = DmaAddress(p) + 4
      BY <2>1 DEF StrayFill
    <3>2. <<DmaAddress(p), Cardinality(SlotsOf(s, p))>> \in Expected(s)
      BY DEF Expected, BeforeEnable, ExpectedDma
    <3>3. WordAligned(DmaAddress(p))
      BY <3>2 DEF RegistersApart
    <3> QED BY <3>1, <3>3, BusAssumption DEF WordAligned
  <2> QED BY <2>1 DEF WhollyLogged, RegistersApart
<1>3. x[1] = w[1]
  <2>1. ASSUME NEW a \in Int, NEW b \in Int, a % 4 = 0, b % 4 = 0, a \div 4 = b \div 4
        PROVE  a = b
    BY <2>1
  <2>2. PICK a, b : a = x[1] - ControlAddr /\ b = w[1] - ControlAddr
    OBVIOUS
  <2>3. /\ a \in Int /\ b \in Int /\ a % 4 = 0 /\ b % 4 = 0
        /\ x[1] = a + ControlAddr /\ w[1] = b + ControlAddr
    BY <1>2, <2>2, BusAssumption DEF WordAligned
  <2>4. a \div 4 = b \div 4
    BY <1>1, <2>2 DEF register_address_to_index
  <2>5. a = b
    BY <2>1, <2>3, <2>4
  <2> QED BY <2>3, <2>5
<1>4. x[2] = w[2]
  BY <1>3 DEF WhollyLogged
<1> QED BY <1>1, <1>4 DEF InRegisters

\* What a completed deploy has logged is in the hardware.
LEMMA ConfigurationReached ==
  ASSUME NEW s \in Specs, RegistersApart(s), WhollyLogged(s), HardwareFollows
  PROVE  /\ \A p \in ProgramsOf(s) : \A n \in DOMAIN p.binary :
              fCore[fcore_address_to_index(RomAddress(p)) + n - 1] = p.binary[n]
         /\ \A w \in Unambiguous(Expected(s)) :
              (w \in ExpectedFills(s) => PastEnd(s) = {} /\ ~StaleInitialValue(s)) => InRegisters(w)
         /\ (\A p \in ProgramsOf(s) : Cardinality(SlotsOf(s, p)) <= DmaChannels)
              => \A w \in ExpectedDma(s) : InRegisters(w)
<1>1. \A p \in ProgramsOf(s) :
        /\ <<DmaAddress(p), Cardinality(SlotsOf(s, p))>> \in Expected(s)
        /\ DmaAddress(p) \in Int /\ RomAddress(p) \in Int
  <2>1. ASSUME NEW p \in ProgramsOf(s)
        PROVE  <<DmaAddress(p), Cardinality(SlotsOf(s, p))>> \in Expected(s)
    BY DEF Expected, BeforeEnable, ExpectedDma
  <2> QED BY <2>1 DEF RegistersApart, WordAligned
<1>a. ASSUME NEW p \in ProgramsOf(s) PROVE DmaAddress(p) \in Int /\ RomAddress(p) \in Int
  BY <1>1
<1>2. ASSUME NEW p \in ProgramsOf(s), NEW n \in DOMAIN p.binary
      PROVE  fCore[fcore_address_to_index(RomAddress(p)) + n - 1] = p.binary[n]
  <2> DEFINE r == <<RomAddress(p), p.binary>>
  <2>1. /\ r \in RomWrites(operations) /\ r[1] = RomAddress(p) /\ r[2] = p.binary
        /\ \A q \in RomWrites(operations) : \E o \in ProgramsOf(s) : q = <<RomAddress(o), o.binary>>
    BY DEF WhollyLogged, ExpectedRoms
  <2> HIDE DEF r
  <2>2. \A q \in RomWrites(operations) : q[1] \in Int /\ IsSequence(q[2])
    <3>1. ASSUME NEW q \in RomWrites(operations) PROVE q[1] \in Int
      <4>1. PICK o \in ProgramsOf(s) : q = <<RomAddress(o), o.binary>>
        BY <2>1
      <4> QED BY <1>1, <4>1
    <3> QED BY <3>1 DEF HardwareFollows
  <2>0. PICK q \in RomWrites(operations) : \E m \in DOMAIN q[2] :
          /\ fcore_address_to_index(q[1]) + m = fcore_address_to_index(r[1]) + n
          /\ fCore[fcore_address_to_index(r[1]) + n - 1] = q[2][m]
    BY <2>1, <2>2 DEF HardwareFollows, RomsFollow
  <2>3. PICK m \in DOMAIN q[2] :
          /\ fcore_address_to_index(q[1]) + m = fcore_address_to_index(r[1]) + n
          /\ fCore[fcore_address_to_index(r[1]) + n - 1] = q[2][m]
    BY <2>0
  <2>4. PICK o \in ProgramsOf(s) : q = <<RomAddress(o), o.binary>>
    BY <2>1
  <2>5. /\ m \in 1 .. Len(o.binary) /\ n \in 1 .. Len(p.binary)
        /\ Len(o.binary) \in Nat /\ Len(p.binary) \in Nat
    BY <2>1, <2>2, <2>4, SequenceDomain
  <2>6. /\ fcore_address_to_index(RomAddress(o)) \in Int
        /\ fcore_address_to_index(RomAddress(p)) \in Int
    <3>1. RomAddress(o) \in Int /\ RomAddress(p) \in Int
      BY <1>a
    <3> QED BY <3>1, BusAssumption DEF fcore_address_to_index
  <2>7. o = p
    <3>1. PICK a, b : /\ a = fcore_address_to_index(RomAddress(o))
                      /\ b = fcore_address_to_index(RomAddress(p))
      OBVIOUS
    <3>2. a + m = b + n /\ a \in Int /\ b \in Int
      BY <2>1, <2>3, <2>4, <2>6, <3>1
    <3>3. o # p => \/ a + Len(o.binary) <= b
                   \/ b + Len(p.binary) <= a
      BY <3>1 DEF RegistersApart
    <3> QED BY <2>5, <3>2, <3>3
  <2>8. m = n
    BY <2>1, <2>3, <2>4, <2>5, <2>6, <2>7
  <2> QED BY <2>1, <2>3, <2>4, <2>7, <2>8
<1>3. ASSUME NEW w \in Unambiguous(Expected(s)),
             w \in ExpectedFills(s) => PastEnd(s) = {} /\ ~StaleInitialValue(s)
      PROVE  InRegisters(w)
  <2>1. w \in Expected(s) /\ \A x \in Expected(s) : x[1] = w[1] => x[2] = w[2]
    BY DEF Unambiguous
  <2>2. ASSUME NEW x, StrayFill(s, x), x[1] = w[1] PROVE FALSE
    <3>1. PICK p \in ProgramsOf(s) : w[1] = DmaAddress(p) + 8 \/ w[1] = DmaAddress(p) + 4
      BY <2>2 DEF StrayFill
    <3>2. InDma(p, w[1]) /\ DmaAddress(p) \in Int
      <4>1. DmaAddress(p) \in Int
        BY <1>a
      <4> QED BY <3>1, <4>1, HilAssumption DEF InDma
    <3>3. DmaWrite(s, p, w)
      BY <2>1, <3>2 DEF RegistersApart
    <3>4. w \in ExpectedFills(s)
      <4>1. \A j \in SlotsOf(s, p) : SlotRank(s, p, j) \in Nat
        BY SlotRanks
      <4> QED BY <3>1, <3>2, <3>3, <4>1, DmaWriteForms, HilAssumption
    <3> QED BY <1>3, <2>2, <3>4 DEF StrayFill, Unclear
  <2> QED BY <2>1, <2>2, UnhiddenInRegisters
<1>4. ASSUME \A p \in ProgramsOf(s) : Cardinality(SlotsOf(s, p)) <= DmaChannels,
             NEW w \in ExpectedDma(s)
      PROVE  InRegisters(w)
  <2>1. w \in Expected(s)
    BY DEF Expected, BeforeEnable
  <2>2. PICK p \in ProgramsOf(s) : DmaEntry(s, p, w)
    BY DEF ExpectedDma, DmaEntry, MappingAddress, MetadataAddress
  <2>3. /\ InDma(p, w[1]) /\ w[1] \notin {DmaAddress(p) + 4, DmaAddress(p) + 8}
        /\ \A x : DmaEntry(s, p, x) /\ x[1] = w[1] => x[2] = w[2]
    BY <1>1, <1>4, <2>2, DmaEntriesApart
  <2>4. ASSUME NEW x \in Expected(s), x[1] = w[1] PROVE x[2] = w[2]
    <3>1. DmaWrite(s, p, x)
      BY <2>3, <2>4 DEF RegistersApart
    <3>2. DmaEntry(s, p, x)
      BY <2>3, <2>4, <3>1, DmaWriteForms DEF DmaEntry
    <3> QED BY <2>3, <2>4, <3>2
  <2>5. ASSUME NEW x, StrayFill(s, x), x[1] = w[1] PROVE FALSE
    <3>1. PICK q \in ProgramsOf(s) : w[1] = DmaAddress(q) + 8 \/ w[1] = DmaAddress(q) + 4
      BY <2>5 DEF StrayFill
    <3>2. q # p /\ w[1] \in Int /\ DmaAddress(p) \in Int /\ DmaAddress(q) \in Int
      <4>1. DmaAddress(p) \in Int /\ DmaAddress(q) \in Int
        BY <1>a
      <4> QED BY <2>3, <3>1, <4>1
    <3>3. \/ DmaAddress(p) + 4 * (2 * DmaChannels + 3) <= DmaAddress(q)
          \/ DmaAddress(q) + 4 * (2 * DmaChannels + 3) <= DmaAddress(p)
      BY <3>2 DEF RegistersApart
    <3> QED BY <2>3, <3>1, <3>2, <3>3, HilAssumption DEF InDma
  <2> QED BY <2>1, <2>4, <2>5, UnhiddenInRegisters
<1> QED BY <1>2, <1>3, <1>4
\* A deploy that completes is in the hardware, where the address map keeps the
\* registers of the specification apart.
THEOREM DeployReachesHardware ==
  ASSUME AddressesFit
  PROVE  Spec => []((reply.kind = "deployed" => RegistersApart(reply.spec)) => ConfigurationInHardware)
<1>1. ASSUME LogInvariant, reply.kind = "deployed" => RegistersApart(reply.spec)
      PROVE  ConfigurationInHardware
  <2>1. SUFFICES ASSUME up, reply.kind = "deployed", fpga_loaded PROVE ConfigurationInHardware
    BY DEF ConfigurationInHardware
  <2>2. reply.spec \in Specs /\ WhollyLogged(reply.spec) /\ HardwareFollows
    BY <1>1, <2>1 DEF LogInvariant, LogPart, DeployReached
  <2> QED BY <1>1, <2>1, <2>2, ConfigurationReached DEF ConfigurationInHardware
<1>2. Spec => []LogInvariant
  BY LogIsInvariant
<1> QED BY <1>1, <1>2, PTL

----------------------------------------------------------------------------
(* The tables a deployment leaves behind *)

\* set_specs takes the specification.
IsAccepted(s) == SpecData[s].set_specs = "ok"

\* What inputs has for a use of a constant input.
EntryOf(s, u) ==
  [core |-> ProgramSeq(s)[u[1]].name, name |-> UsedInput(s, u).name, channel |-> u[3],
   engine |-> UseEngine(s, u), selector |-> UseSelector(s, u), dest |-> UseDest(s, u)]
\* Two entries that set_input cannot tell apart.
SameInput(e, f) == e.core = f.core /\ e.name = f.name /\ e.channel = f.channel

\* A use has its entry in inputs, the last of its core, name and channel.
Listed(s, u) ==
  \E n \in DOMAIN inputs :
    /\ inputs[n] = EntryOf(s, u)
    /\ \A m \in DOMAIN inputs : SameInput(inputs[m], EntryOf(s, u)) => m <= n

\* The loops have a use of a constant behind them.
Behind(c, u) == c.phase \in AfterInputs \/ (c.phase = "inputs" /\ Before(u, Here(c)))

\* The tables are those of the deployed specification: bus_map whenever it was
\* accepted, inputs as far as the loops of deploy() have come.
TablesFollow ==
  /\ deployed_hash # NoSpec /\ IsAccepted(deployed_hash) => bus_map = Slots(deployed_hash)
  /\ configured # NoSpec => IsAccepted(configured)
  /\ pc.phase # "idle" =>
       /\ pc.spec = deployed_hash /\ IsAccepted(pc.spec)
       /\ pc.cmd = "deploy" => configured = NoSpec
       /\ \A u \in NamedUses(pc.spec) : Behind(pc, u) => Listed(pc.spec, u)
  /\ up /\ pc.phase = "idle" /\ configured # NoSpec /\ configured = deployed_hash =>
       \A u \in NamedUses(configured) : Listed(configured, u)

\* What a use is listed with depends on the address map and the list alone.
LEMMA EntryKept ==
  ASSUME UNCHANGED addresses, NEW CONSTANT s, NEW CONSTANT u
  PROVE  EntryOf(s, u)' = EntryOf(s, u) /\ NamedUses(s)' = NamedUses(s)
<1>1. /\ UseEngine(s, u)' = UseEngine(s, u)
  BY DEF UseEngine, ConstEngine, CoreControl, Bases, Offsets
<1>2. /\ UseSelector(s, u)' = UseSelector(s, u)
      /\ UseDest(s, u)' = UseDest(s, u) /\ UsedInput(s, u)' = UsedInput(s, u)
      /\ ProgramSeq(s)' = ProgramSeq(s) /\ NamedUses(s)' = NamedUses(s)
  OBVIOUS
<1> QED BY <1>1, <1>2 DEF EntryOf

\* A use stays listed while neither the list nor the address map changes.
LEMMA ListedKept ==
  ASSUME UNCHANGED <<addresses, inputs>>, NEW CONSTANT s, NEW CONSTANT u
  PROVE  Listed(s, u)' <=> Listed(s, u)
BY EntryKept DEF Listed

\* The steps of deploy() but its last and those that list a constant, and what
\* they have behind them.
Goes(next) ==
  /\ next.spec = pc.spec /\ next.cmd = pc.cmd /\ next \in RunningPc
  /\ \A u \in NamedUses(pc.spec) : Behind(next, u) => Behind(pc, u)

LEMMA ProgramGoes ==
  ASSUME Deploying, Running, pc.phase \notin {"inputs"} PROVE Goes(NextProgram)
<1>1. PICK next : next = NextProgram
  OBVIOUS
<1>2. next.spec = pc.spec /\ next.cmd = pc.cmd /\ next.phase = pc.phase
  BY <1>1 DEF NextProgram, AtProgram
<1>3. next \in RunningPc
  BY <1>1, NextProgramContinues DEF Continues
<1>4. \A u \in NamedUses(pc.spec) : Behind(next, u) => Behind(pc, u)
  BY <1>2 DEF Behind
<1> QED BY <1>1, <1>2, <1>3, <1>4 DEF Goes

LEMMA PhaseGoes ==
  ASSUME Deploying, Running, pc.phase # "finish",
         ~ InProgram \/ pc.phase \in {"timebase", "sequencer"}
  PROVE  Goes(NextPhase)
<1>1. PICK next : next = NextPhase
  OBVIOUS
<1>2. PICK phase : NextPhase = AtProgram(phase, 1) /\ Follows(pc.phase, phase)
  BY NextPhaseFollows
<1>3. /\ next.spec = pc.spec /\ next.cmd = pc.cmd /\ Follows(pc.phase, next.phase)
      /\ next.i = 1 /\ next.j = 1 /\ next.k = 0
  BY <1>1, <1>2 DEF AtProgram
<1>4. next \in RunningPc
  BY <1>1, NextPhaseContinues DEF Continues
<1>5. pc.spec \in Specs /\ pc.i \in Nat /\ pc.j \in Nat /\ pc.k \in Nat
  BY AtProgramOfSpec
<1>6. ASSUME NEW u \in NamedUses(pc.spec), Behind(next, u)
      PROVE  Behind(pc, u)
  <2>1. u \in Uses(pc.spec)
    BY DEF NamedUses, ConstantUses
  <2>2. CASE pc.phase = "memories"
    <3>1. next.phase = "inputs" /\ Here(next) = <<1, 1, 0>>
      BY <1>3, <2>2 DEF Follows, Here
    <3>2. ~ Before(u, <<1, 1, 0>>)
      BY <1>5, <2>1, BeforeSteps
    <3> QED BY <1>6, <3>1, <3>2 DEF Behind, AfterInputs
  <2>3. CASE pc.phase = "inputs"
    <3>1. pc.i > Len(ProgramSeq(pc.spec))
      BY <2>3, AtProgramOfSpec
    <3>2. Before(u, <<pc.i, pc.j, pc.k>>)
      BY <1>5, <2>1, <3>1, BeforeSteps
    <3> QED BY <2>3, <3>2 DEF Behind, Here
  <2>4. CASE pc.phase \notin {"memories", "inputs"}
    BY <1>3, <1>6, <2>4 DEF Behind, Follows, AfterInputs
  <2> QED BY <2>2, <2>3, <2>4
<1> QED BY <1>1, <1>3, <1>4, <1>6 DEF Goes

\* A position reached within a loop whose phase is not the one of inputs.
LEMMA LoopGoes ==
  ASSUME Deploying, Running, pc.phase # "inputs"
  PROVE  Goes([pc EXCEPT !.j = @ + 1]) /\ Goes([pc EXCEPT !.j = @ + 1, !.n = @ + 1])
<1>1. pc.j + 1 \in Nat /\ pc.n + 1 \in Nat
  BY DEF Running, RunningPc
<1>2. ASSUME NEW j \in Nat, NEW n \in Nat
      PROVE  Goes([pc EXCEPT !.j = j]) /\ Goes([pc EXCEPT !.j = j, !.n = n])
  <2>1. ASSUME NEW next, next \in RunningPc, next.spec = pc.spec, next.cmd = pc.cmd, next.phase = pc.phase
        PROVE  Goes(next)
    BY <2>1 DEF Goes, Behind
  <2>2. PICK c, d : c = [pc EXCEPT !.j = j] /\ d = [pc EXCEPT !.j = j, !.n = n]
    OBVIOUS
  <2>3. /\ c \in RunningPc /\ c.spec = pc.spec /\ c.cmd = pc.cmd /\ c.phase = pc.phase
        /\ d \in RunningPc /\ d.spec = pc.spec /\ d.cmd = pc.cmd /\ d.phase = pc.phase
    BY <2>2 DEF Running, RunningPc
  <2> QED BY <2>1, <2>2, <2>3
<1> QED BY <1>1, <1>2

\* How such a step ends.
Ends ==
  \/ pc' = Idle /\ (up' => pc.cmd = "deploy")
  \/ \E next : pc' = next /\ Goes(next)

\* A step that writes ends so, whether or not a write faults.
LEMMA WriteEnds ==
  ASSUME NEW stores, NEW next, Goes(next), WriteThen(stores, next)
  PROVE  Ends
BY DEF WriteThen, Ends

\* So does a step that only goes on.
LEMMA SkipEnds == ASSUME NEW next, Goes(next), SkipTo(next) PROVE Ends
BY DEF SkipTo, Ends

\* And one that throws.
LEMMA ThrowEnds == ASSUME Throw PROVE Ends
BY DEF Throw, Ends

\* The steps that touch neither the tables of the commands nor the counters.
LEMMA StepEnds ==
  ASSUME LogInvariant, up,
         \/ LoadCore \/ ComputeTimebase \/ RaiseTimebaseDivider \/ NextDivider
         \/ SetupInterconnectIv \/ SetupOutputEntry \/ FinishOutputDma
         \/ SetupMemory \/ FinishInput \/ FinishCoreInputs \/ SetupSequencer \/ SetupCore \/ EndOfLoop,
         Deploying, Running
  PROVE  Ends /\ UNCHANGED <<addresses, inputs, bus_map, deployed_hash>>
<1>1. CASE LoadCore
  <2>1. Goes(NextProgram)
    BY <1>1, ProgramGoes DEF LoadCore, At
  <2>2. pc' = NextProgram \/ (pc' = Idle /\ ~up')
    BY <1>1 DEF LoadCore, LoadThen
  <2> QED BY <1>1, <2>1, <2>2 DEF LoadCore, deployerVars, Ends
<1>2. CASE ComputeTimebase
  <2>1. Goes(NextPhase)
    BY <1>2, PhaseGoes DEF ComputeTimebase, At
  <2> QED BY <1>2, <2>1, SkipEnds DEF ComputeTimebase
<1>10. CASE RaiseTimebaseDivider
  <2>1. Goes(pc)
    BY DEF Goes, Running
  <2> QED BY <1>10, <2>1, SkipEnds DEF RaiseTimebaseDivider
<1>11. CASE NextDivider
  <2>1. Goes(NextProgram)
    BY <1>11, ProgramGoes DEF NextDivider, At
  <2> QED BY <1>11, <2>1, SkipEnds DEF NextDivider, deployerVars
<1>12. CASE SetupInterconnectIv
  <2>1. Goes(NextPhase)
    BY <1>12, PhaseGoes DEF SetupInterconnectIv, At
  <2>2. pc' = NextPhase \/ (pc' = Idle /\ ~up')
    BY <1>12 DEF SetupInterconnectIv, SkipTo, process_exit
  <2> QED BY <1>12, <2>1, <2>2 DEF SetupInterconnectIv, Ends
<1>3. CASE SetupOutputEntry
  <2>1. Goes([pc EXCEPT !.j = @ + 1]) /\ Goes([pc EXCEPT !.j = @ + 1, !.n = @ + 1])
    BY <1>3, LoopGoes DEF SetupOutputEntry, At
  <2>2. \/ SkipTo([pc EXCEPT !.j = @ + 1])
        \/ Throw
        \/ \E stores : WriteThen(stores, [pc EXCEPT !.j = @ + 1, !.n = @ + 1])
    BY <1>3, Zenon DEF SetupOutputEntry
  <2>3. Ends
    BY <2>1, <2>2, SkipEnds, ThrowEnds, WriteEnds
  <2> QED BY <1>3, <2>3 DEF SetupOutputEntry
<1>4. CASE FinishOutputDma \/ SetupCore
  <2>1. Goes(NextProgram)
    BY <1>4, ProgramGoes DEF FinishOutputDma, SetupCore, At
  <2>2. \E stores : WriteThen(stores, NextProgram)
    BY <1>4 DEF FinishOutputDma, SetupCore
  <2> QED BY <1>4, <2>1, <2>2, WriteEnds DEF FinishOutputDma, SetupCore, deployerVars
<1>5. CASE SetupMemory
  <2>1. Goes(NextProgram) /\ Goes([pc EXCEPT !.j = @ + 1])
    BY <1>5, ProgramGoes, LoopGoes DEF SetupMemory, At
  <2>2. SkipTo(NextProgram) \/ \E stores : WriteThen(stores, [pc EXCEPT !.j = @ + 1])
    BY <1>5 DEF SetupMemory
  <2> QED BY <1>5, <2>1, <2>2, WriteEnds, SkipEnds DEF SetupMemory, deployerVars
<1>6. CASE FinishInput
  <2> DEFINE in == CoreInputs[pc.j]
  <2>1. PICK m : m = IF IsConstant(in) THEN pc.n + 1 ELSE pc.n
    OBVIOUS
  <2>2. PICK next : next = [pc EXCEPT !.j = @ + 1, !.k = 0, !.n = m]
    OBVIOUS
  <2>3. SkipTo(next)
    BY <1>6, <2>1, <2>2 DEF FinishInput
  <2>0. /\ pc.phase = "inputs" /\ InProgram /\ pc.j <= Len(CoreInputs)
        /\ pc.k >= InputChannels(P, in)
    BY <1>6 DEF FinishInput, At
  <2>4. /\ pc.spec \in Specs /\ pc.i \in DOMAIN ProgramSeq(pc.spec) /\ P = ProgramSeq(pc.spec)[pc.i]
        /\ CoreInputs = InputsAt(pc.spec, pc.i) /\ pc.j \in Nat \ {0} /\ pc.n \in Nat
        /\ pc.i \in Nat /\ pc.k \in Nat
    BY <2>0, AtProgramOfSpec
  <2>5. pc.j \in DOMAIN InputsAt(pc.spec, pc.i)
    <3>1. DOMAIN InputsAt(pc.spec, pc.i) = 1 .. Len(InputsAt(pc.spec, pc.i))
          /\ Len(InputsAt(pc.spec, pc.i)) \in Nat
      BY <2>4, SpecSequences
    <3> QED BY <2>0, <2>4, <3>1
  <2>6. m \in Nat /\ pc.j + 1 \in Nat
    BY <2>1, <2>4
  <2>7. /\ next.spec = pc.spec /\ next.cmd = pc.cmd /\ next.phase = "inputs" /\ next \in RunningPc
        /\ next.i = pc.i /\ next.j = pc.j + 1 /\ next.k = 0
    <3>1. pc = [phase |-> pc.phase, cmd |-> pc.cmd, spec |-> pc.spec, i |-> pc.i, j |-> pc.j,
                k |-> pc.k, n |-> pc.n]
      BY DEF Running, RunningPc
    <3>2. next = [phase |-> pc.phase, cmd |-> pc.cmd, spec |-> pc.spec, i |-> pc.i, j |-> pc.j + 1,
                k |-> 0, n |-> m]
      BY <2>2, <3>1
    <3> QED BY <2>0, <2>6, <3>2 DEF Running, RunningPc
  <2>8. ASSUME NEW u \in NamedUses(pc.spec), Behind(next, u)
        PROVE  Behind(pc, u)
    <3>1. u \in Uses(pc.spec)
      BY DEF NamedUses, ConstantUses
    <3>2. Before(u, <<pc.i, pc.j + 1, 0>>) <=> Before(u, <<pc.i, pc.j, pc.k>>)
      BY <2>0, <2>4, <2>5, <3>1, BeforeSteps
    <3> QED BY <2>0, <2>7, <2>8, <3>2 DEF Behind, Here, AfterInputs
  <2>9. Goes(next)
    BY <2>7, <2>8 DEF Goes
  <2> QED BY <1>6, <2>3, <2>9, SkipEnds DEF FinishInput, deployerVars
<1>7. CASE FinishCoreInputs
  <2>1. PICK next : next = NextProgram
    OBVIOUS
  <2>0. pc.phase = "inputs" /\ InProgram /\ pc.j > Len(CoreInputs)
    BY <1>7 DEF FinishCoreInputs, At
  <2>2. /\ pc.spec \in Specs /\ pc.i \in DOMAIN ProgramSeq(pc.spec)
        /\ CoreInputs = InputsAt(pc.spec, pc.i) /\ pc.j \in Nat
        /\ pc.i \in Nat /\ pc.k \in Nat
    BY <2>0, AtProgramOfSpec
  <2>3. /\ next.spec = pc.spec /\ next.cmd = pc.cmd /\ next.phase = "inputs"
        /\ next.i = pc.i + 1 /\ next.j = 1 /\ next.k = 0
    BY <2>0, <2>1 DEF NextProgram, AtProgram
  <2>4. next \in RunningPc
    BY <2>1, NextProgramContinues DEF Continues
  <2>5. ASSUME NEW u \in NamedUses(pc.spec), Behind(next, u)
        PROVE  Behind(pc, u)
    <3>1. u \in Uses(pc.spec)
      BY DEF NamedUses, ConstantUses
    <3>2. Before(u, <<pc.i + 1, 1, 0>>) <=> Before(u, <<pc.i, pc.j, pc.k>>)
      BY <2>0, <2>2, <3>1, BeforeSteps
    <3> QED BY <2>0, <2>3, <2>5, <3>2 DEF Behind, Here, AfterInputs
  <2>6. Goes(NextProgram)
    BY <2>1, <2>3, <2>4, <2>5 DEF Goes
  <2>7. SkipTo(NextProgram) \/ \E stores : WriteThen(stores, NextProgram)
    BY <1>7 DEF FinishCoreInputs
  <2> QED BY <1>7, <2>6, <2>7, SkipEnds, WriteEnds DEF FinishCoreInputs, deployerVars
<1>8. CASE SetupSequencer
  <2>1. Goes(NextPhase)
    BY <1>8, PhaseGoes DEF SetupSequencer, At
  <2>2. \E stores : WriteThen(stores, NextPhase)
    BY <1>8 DEF SetupSequencer
  <2> QED BY <1>8, <2>1, <2>2, WriteEnds DEF SetupSequencer, deployerVars, LogInvariant, Bracket
<1>9. CASE EndOfLoop
  <2>1. Goes(NextPhase)
    BY <1>9, PhaseGoes DEF EndOfLoop
  <2>2. SkipTo(NextPhase)
    BY <1>9 DEF EndOfLoop
  <2> QED BY <1>9, <2>1, <2>2, SkipEnds DEF EndOfLoop, deployerVars
<1> QED BY <1>1, <1>2, <1>3, <1>4, <1>5, <1>6, <1>7, <1>8, <1>9, <1>10, <1>11, <1>12

\* A step that leaves the tables as they are keeps what they follow.
LEMMA EndsKeepsTables ==
  ASSUME Bracket, Running, TablesFollow, Ends,
         UNCHANGED <<addresses, inputs, bus_map, deployed_hash, configured>>
  PROVE  TablesFollow'
<1>0. /\ pc.phase # "idle" /\ pc.spec = deployed_hash /\ IsAccepted(pc.spec)
      /\ pc.cmd = "deploy" => configured = NoSpec
      /\ \A u \in NamedUses(pc.spec) : Behind(pc, u) => Listed(pc.spec, u)
  BY IdleOrRunning, IdleIsNotRunning DEF TablesFollow
<1>1. /\ deployed_hash' # NoSpec /\ IsAccepted(deployed_hash') => bus_map' = Slots(deployed_hash')
      /\ configured' # NoSpec => IsAccepted(configured')
  BY DEF TablesFollow
<1>2. CASE pc' = Idle /\ (up' => pc.cmd = "deploy")
  BY <1>0, <1>1, <1>2, IdleIsNotRunning DEF TablesFollow
<1>3. CASE \E next : pc' = next /\ Goes(next)
  <2>1. PICK c : c = pc'
    OBVIOUS
  <2>2. /\ c.spec = pc.spec /\ c.cmd = pc.cmd /\ c \in RunningPc
        /\ \A u \in NamedUses(c.spec) : Behind(c, u) => Listed(c.spec, u)
    BY <1>0, <1>3, <2>1 DEF Goes
  <2>3. \A u \in NamedUses(c.spec)' : Behind(c, u)' => Listed(c.spec, u)'
    <3>1. ASSUME NEW u \in NamedUses(c.spec), Behind(c, u) PROVE Listed(c.spec, u)'
      <4>1. Listed(c.spec, u)
        BY <2>2, <3>1
      <4> QED BY <4>1, ListedKept
    <3> QED BY <3>1 DEF Behind
  <2>4. c.phase # "idle"
    BY <2>2, PhaseNames DEF RunningPc
  <2> QED BY <1>0, <1>1, <2>1, <2>2, <2>3, <2>4 DEF TablesFollow
<1> QED BY <1>2, <1>3 DEF Ends

\* setup_input lists a constant, and no later one of the specification has its name.
LEMMA SetupInputKeepsTables ==
  ASSUME LogInvariant, TablesFollow, Running, Deploying, SetupInput, UNCHANGED configured
  PROVE  TablesFollow'
<1> DEFINE in == CoreInputs[pc.j]
           u == Here(pc)
<1>0. /\ pc.phase = "inputs" /\ InProgram /\ pc.j <= Len(CoreInputs)
      /\ pc.k < InputChannels(P, in)
  BY DEF SetupInput, At
<1>1. /\ u \in Uses(pc.spec) /\ UsedInput(pc.spec, u) = in /\ UseDest(pc.spec, u) = InputDest(in, pc.k)
      /\ UseEngine(pc.spec, u) = ConstEngine(P) /\ UseSelector(pc.spec, u) = pc.n + BusShift * pc.k
      /\ u[1] = pc.i /\ u[3] = pc.k
  BY <1>0, UseAtHere DEF Here
<1>2. /\ pc.spec \in Specs /\ pc.i \in DOMAIN ProgramSeq(pc.spec) /\ P = ProgramSeq(pc.spec)[pc.i]
      /\ CoreInputs = InputsAt(pc.spec, pc.i) /\ pc.j \in Nat \ {0}
      /\ pc.i \in Nat /\ pc.k \in Nat
  BY <1>0, AtProgramOfSpec
<1>3. PICK next : next = [pc EXCEPT !.k = @ + 1]
  OBVIOUS
<1>4. /\ next.spec = pc.spec /\ next.cmd = pc.cmd /\ next.phase = "inputs" /\ next \in RunningPc
      /\ next.i = pc.i /\ next.j = pc.j /\ next.k = pc.k + 1
  <2>1. pc = [phase |-> pc.phase, cmd |-> pc.cmd, spec |-> pc.spec, i |-> pc.i, j |-> pc.j,
              k |-> pc.k, n |-> pc.n]
    BY DEF Running, RunningPc
  <2>2. next = [phase |-> pc.phase, cmd |-> pc.cmd, spec |-> pc.spec, i |-> pc.i, j |-> pc.j,
              k |-> pc.k + 1, n |-> pc.n]
    BY <1>3, <2>1
  <2> QED BY <1>0, <2>2 DEF Running, RunningPc
<1>5. pc.j \in DOMAIN InputsAt(pc.spec, pc.i)
  <2>1. DOMAIN InputsAt(pc.spec, pc.i) = 1 .. Len(InputsAt(pc.spec, pc.i))
        /\ Len(InputsAt(pc.spec, pc.i)) \in Nat
    BY <1>2, SpecSequences
  <2> QED BY <1>0, <1>2, <2>1
<1>6. \A v \in NamedUses(pc.spec) : Behind(next, v) => Behind(pc, v) \/ v = u
  <2>1. SUFFICES ASSUME NEW v \in NamedUses(pc.spec), Behind(next, v)
                 PROVE  Behind(pc, v) \/ v = u
    OBVIOUS
  <2>2. v \in Uses(pc.spec)
    BY DEF NamedUses, ConstantUses
  <2>3. Before(v, <<pc.i, pc.j, pc.k + 1>>) <=> Before(v, <<pc.i, pc.j, pc.k>>) \/ v = <<pc.i, pc.j, pc.k>>
    BY <1>0, <1>2, <1>5, <2>2, BeforeSteps
  <2> QED BY <1>0, <1>4, <2>1, <2>3 DEF Behind, Here, AfterInputs
<1>7. UNCHANGED <<addresses, bus_map, deployed_hash>>
  BY DEF SetupInput
<1>8. CASE ~IsConstant(in)
  <2>1. Goes(next)
    <3>1. \A v \in NamedUses(pc.spec) : v # u
      BY <1>1, <1>8 DEF NamedUses, ConstantUses
    <3> QED BY <1>4, <1>6, <3>1 DEF Goes
  <2>2. /\ UNCHANGED inputs
        /\ SkipTo(next) \/ Throw \/ \E stores : WriteThen(stores, next)
    BY <1>3, <1>8, Zenon DEF SetupInput, setup_random, setup_waveform
  <2>3. Ends
    BY <2>1, <2>2, SkipEnds, ThrowEnds, WriteEnds
  <2> QED BY <1>7, <2>2, <2>3, EndsKeepsTables DEF LogInvariant
<1>9. CASE IsConstant(in)
  <2> DEFINE entry == [core |-> P.name, name |-> in.name, channel |-> pc.k,
                       engine |-> ConstEngine(P), selector |-> pc.n + BusShift * pc.k,
                       dest |-> InputDest(in, pc.k)]
  <2>0. ~ IsGenerated(in) /\ in.source_type # "random" /\ in.source_type # "waveform"
    BY <1>9 DEF IsConstant, IsGenerated
  <2>1. /\ inputs' = Append(inputs, entry)
        /\ \E stores : WriteThen(stores, next)
    BY <1>3, <1>9, <2>0 DEF SetupInput, setup_constant
  <2>2. entry = EntryOf(pc.spec, u)
    BY <1>1, <1>2 DEF EntryOf
  <2> HIDE DEF entry
  <2>3. pc' = next \/ (pc' = Idle /\ ~up')
    BY <2>1 DEF WriteThen
  <2>4. /\ deployed_hash' # NoSpec /\ IsAccepted(deployed_hash') => bus_map' = Slots(deployed_hash')
        /\ configured' # NoSpec => IsAccepted(configured')
    BY <1>7 DEF TablesFollow
  <2>5. CASE pc' = Idle /\ ~up'
    BY <2>4, <2>5, IdleIsNotRunning DEF TablesFollow
  <2>6. CASE pc' = next
    <3>1. /\ Len(inputs) \in Nat /\ DOMAIN inputs = 1 .. Len(inputs)
          /\ Len(inputs') = Len(inputs) + 1 /\ DOMAIN inputs' = 1 .. Len(inputs) + 1
          /\ inputs'[Len(inputs) + 1] = entry
          /\ \A n \in DOMAIN inputs : inputs'[n] = inputs[n]
      <4>1. inputs \in Seq(Range(inputs))
        BY DEF LogInvariant, IsSequence
      <4> QED BY <2>1, <4>1
    <3>0. PICK s : s = pc.spec
      OBVIOUS
    <3>2. ASSUME NEW v \in NamedUses(s), Behind(next, v)
          PROVE  Listed(s, v)'
      <4>1. EntryOf(s, v)' = EntryOf(s, v)
        BY <1>7, EntryKept
      <4>2. SUFFICES \E n \in DOMAIN inputs' :
                       /\ inputs'[n] = EntryOf(s, v)
                       /\ \A m \in DOMAIN inputs' : SameInput(inputs'[m], EntryOf(s, v)) => m <= n
        BY <4>1, <4>2 DEF Listed, SameInput
      <4>3. CASE v = u
        BY <2>2, <3>1, <3>0, <4>3
      <4>4. CASE v # u
        <5>1. PICK n \in DOMAIN inputs :
                /\ inputs[n] = EntryOf(s, v)
                /\ \A m \in DOMAIN inputs : SameInput(inputs[m], EntryOf(s, v)) => m <= n
          <6>1. Behind(pc, v) /\ pc.phase # "idle"
            BY <1>0, <1>6, <3>0, <3>2, <4>4
          <6> QED BY <3>0, <6>1 DEF TablesFollow, Listed
        <5>2. ~ SameInput(entry, EntryOf(s, v))
          <6>1. u \in ConstantUses(s) /\ v \in NamedUses(s) /\ s \in Specs
            BY <1>1, <1>2, <1>9, <3>0 DEF NamedUses, ConstantUses
          <6> QED BY <2>2, <3>0, <4>4, <6>1 DEF NamedUses, SameInput, EntryOf
        <5> QED BY <3>1, <5>1, <5>2
      <4> QED BY <4>3, <4>4
    <3>3. PICK c : c = next
      OBVIOUS
    <3>4. \A v \in NamedUses(c.spec) : Behind(c, v) => Listed(c.spec, v)'
      <4>1. \A v \in NamedUses(s) : Behind(next, v) => Listed(s, v)'
        BY <3>2
      <4>2. c.spec = s
        BY <1>4, <3>0, <3>3
      <4> QED BY <3>3, <4>1, <4>2
    <3>5. c.phase # "idle" /\ c.spec = pc.spec /\ c.cmd = pc.cmd
      BY <1>4, <3>3
    <3>6. /\ pc.spec = deployed_hash /\ IsAccepted(pc.spec) /\ (pc.cmd = "deploy" => configured = NoSpec)
      BY <1>0 DEF TablesFollow
    <3> QED BY <1>7, <2>4, <2>6, <3>3, <3>4, <3>5, <3>6 DEF TablesFollow, Behind
  <2> QED BY <2>3, <2>5, <2>6
<1> QED BY <1>8, <1>9

\* deploy() ends.
LEMMA FinishKeepsTables ==
  ASSUME Bracket, Running, TablesFollow, FinishDeploy \/ FinishSimulation
  PROVE  TablesFollow'
<1>1. /\ pc.phase = "finish" /\ pc' = Idle
      /\ UNCHANGED <<addresses, inputs, bus_map, deployed_hash>>
      /\ configured' \in {NoSpec, configured, pc.spec}
  BY DEF FinishDeploy, FinishSimulation, At, deployerVars
<1>2. PICK s : s = pc.spec
  OBVIOUS
<1>3. s = deployed_hash /\ IsAccepted(s) /\ \A u \in NamedUses(s) : Listed(s, u)
  BY <1>1, <1>2 DEF TablesFollow, Behind, AfterInputs
<1>4. \A u \in NamedUses(s) : Listed(s, u)'
  BY <1>1, <1>3, ListedKept
<1>5. PICK t : t = configured'
  OBVIOUS
<1>6. t # NoSpec /\ t = deployed_hash' => \A u \in NamedUses(t) : Listed(t, u)'
  BY <1>1, <1>3, <1>4
<1>7. \A u \in NamedUses(t) : Listed(t, u)' <=> Listed(configured, u)'
  BY <1>5
<1>8. t # NoSpec => IsAccepted(t)
  BY <1>1, <1>2, <1>3, <1>5 DEF TablesFollow
<1> QED BY <1>1, <1>5, <1>6, <1>7, <1>8, IdleIsNotRunning DEF TablesFollow

\* A command that is not a deployment.
LEMMA IdleKeepsTables ==
  ASSUME TablesFollow, pc = Idle, pc' = Idle, UNCHANGED <<inputs, bus_map, deployed_hash>>,
         configured' = NoSpec \/ UNCHANGED <<configured, addresses>>, up' => up
  PROVE  TablesFollow'
<1>1. PICK t : t = configured
  OBVIOUS
<1>2. CASE configured' = NoSpec
  BY <1>2, IdleIsNotRunning DEF TablesFollow
<1>3. CASE UNCHANGED <<configured, addresses>>
  <2>1. up /\ t # NoSpec /\ t = deployed_hash => \A u \in NamedUses(t) : Listed(t, u)'
    BY <1>1, <1>3, ListedKept, IdleIsNotRunning DEF TablesFollow
  <2>2. \A u \in NamedUses(t) : Listed(t, u)' <=> Listed(configured, u)'
    BY <1>1, <1>3
  <2> QED BY <1>1, <1>3, <2>1, <2>2, IdleIsNotRunning DEF TablesFollow
<1> QED BY <1>2, <1>3

\* deploy() begins, or is refused: then there is no answer or the specification is
\* not configured.
LEMMA PrologueKeepsTables ==
  ASSUME TablesFollow, NEW s \in Specs, process_deploy_hil(s) \/ SimulateAnew(s)
  PROVE  TablesFollow'
<1>1. PICK cmd \in {"deploy", "sim"} :
        /\ Prologue(cmd, s)
        /\ cmd = "deploy" => configured' = NoSpec
        /\ configured' \in {configured, NoSpec}
  BY DEF process_deploy_hil, SimulateAnew
<1>2. /\ deployed_hash' = s /\ s # NoSpec
      /\ IsAccepted(s) => bus_map' = Slots(s)
      /\ configured' # NoSpec => IsAccepted(configured')
  <2>1. s # NoSpec
    BY HilAssumption
  <2>2. deployed_hash' = s /\ (IsAccepted(s) => bus_map' = Slots(s))
    BY <1>1, Zenon DEF Prologue, IsAccepted, set_map
  <2> QED BY <1>1, <2>1, <2>2 DEF TablesFollow
<1>3. \/ /\ IsAccepted(s) /\ pc' = [Idle EXCEPT !.phase = Phases[1], !.cmd = cmd, !.spec = s]
      \/ pc' = Idle /\ (cmd = "sim" => ~up')
  BY <1>1, Zenon DEF Prologue, IsAccepted
<1>4. CASE pc' = Idle /\ (cmd = "sim" => ~up')
  BY <1>1, <1>2, <1>4, IdleIsNotRunning DEF TablesFollow
<1>5. CASE IsAccepted(s) /\ pc' = [Idle EXCEPT !.phase = Phases[1], !.cmd = cmd, !.spec = s]
  <2>1. PICK c : c = pc'
    OBVIOUS
  <2>2. c.phase = "load_cores" /\ c.cmd = cmd /\ c.spec = s
    BY <1>5, <2>1 DEF Idle, Phases
  <2>3. \A u : ~ Behind(c, u)'
    BY <2>2 DEF Behind, AfterInputs
  <2> QED BY <1>1, <1>2, <1>5, <2>1, <2>2, <2>3 DEF TablesFollow
<1> QED BY <1>3, <1>4, <1>5

\* The tables are followed beside the log, which says what deploy() has behind it.
TablesInvariant == LogInvariant /\ TablesFollow

\* A driver that has started has deployed nothing.
LEMMA TablesInit == Init => TablesInvariant
<1>1. Init => TablesFollow
  BY IdleIsNotRunning DEF Init, DeployerInit, TablesFollow
<1> QED BY <1>1, LogInit DEF TablesInvariant

\* Every step keeps the tables those of the deployed specification.
LEMMA TablesNext ==
  ASSUME AddressesFit, TablesInvariant, [Next]_vars
  PROVE  TablesInvariant'
<1>1. LogInvariant'
  BY LogNext DEF TablesInvariant
<1> SUFFICES TablesFollow'
  BY <1>1 DEF TablesInvariant
<1>2. /\ TablesFollow /\ LogInvariant /\ LogPart /\ Bracket
      /\ pc.phase = "idle" => pc = Idle
  BY IdleOrRunning DEF TablesInvariant, LogInvariant
<1>3. CASE DeployHil \/ HilHardwareSim
  <2>1. pc = Idle
    BY <1>2, <1>3 DEF DeployHil, HilHardwareSim, At
  <2>2. PICK s \in Specs : process_deploy_hil(s) \/ SimulateDeployed(s) \/ SimulateAnew(s)
    BY <1>3 DEF DeployHil, HilHardwareSim
  <2>3. CASE SimulateDeployed(s)
    <3>1. UNCHANGED <<inputs, bus_map, deployed_hash, configured, addresses, up, pc>>
      BY <2>3 DEF SimulateDeployed, deployerVars, busVars
    <3> QED BY <1>2, <2>1, <3>1, IdleKeepsTables
  <2> QED BY <1>2, <2>2, <2>3, PrologueKeepsTables
<1>4. CASE DeployStep
  <2>1. Deploying /\ Running /\ up
    BY <1>2, <1>4, PhaseNames, IdleOrRunning
    DEF LogPart, DeployStep, LoadCore, ComputeTimebase, RaiseTimebaseDivider, NextDivider,
        SetupInterconnectIv, SetupOutputEntry,
        FinishOutputDma, SetupMemory, SetupInput, FinishInput, FinishCoreInputs, SetupSequencer,
        SetupCore, EndOfLoop, FinishDeploy, FinishSimulation, At, Idle
  <2>2. CASE FinishDeploy \/ FinishSimulation
    BY <1>2, <2>1, <2>2, FinishKeepsTables
  <2>3. CASE SetupInput /\ UNCHANGED configured
    BY <1>2, <2>1, <2>3, SetupInputKeepsTables
  <2>4. CASE /\ \/ LoadCore \/ ComputeTimebase \/ RaiseTimebaseDivider \/ NextDivider
                \/ SetupInterconnectIv \/ SetupOutputEntry \/ FinishOutputDma
                \/ SetupMemory \/ FinishInput \/ FinishCoreInputs
                \/ SetupSequencer \/ SetupCore \/ EndOfLoop
             /\ UNCHANGED configured
    <3>1. Ends /\ UNCHANGED <<addresses, inputs, bus_map, deployed_hash>>
      BY <1>2, <2>1, <2>4, StepEnds
    <3> QED BY <1>2, <2>1, <2>4, <3>1, EndsKeepsTables
  <2> QED BY <1>4, <2>2, <2>3, <2>4 DEF DeployStep
<1>5. CASE HilStart \/ HilStop \/ HilSelectOut \/ HilSetIn
  <2>1. /\ pc = Idle /\ up /\ pc' = pc /\ UNCHANGED <<configured, deployerVars>>
    BY <1>2, <1>5 DEF HilStart, HilStop, HilSelectOut, HilSetIn, CanServe, At, Command,
                      select_output, set_input
  <2> QED BY <1>2, <2>1, IdleKeepsTables DEF deployerVars
<1>6. CASE LoadBitstream \/ GetAddressMap \/ GetSamplingFrequency
  <2>1. pc = Idle /\ pc' = Idle /\ UNCHANGED deployerVars /\ (configured' = NoSpec \/ UNCHANGED configured)
    BY <1>2, <1>6
    DEF LoadBitstream, GetAddressMap, GetSamplingFrequency, Answer, CanServe, At
  <2>2. up
    BY <1>6 DEF LoadBitstream, GetAddressMap, GetSamplingFrequency, Answer, CanServe, At
  <2> QED BY <1>2, <2>1, <2>2, IdleKeepsTables DEF deployerVars
<1>7. CASE Terminate
  <2>1. ~up' /\ pc' = Idle /\ UNCHANGED <<configured, deployerVars>>
    BY <1>7 DEF Terminate, process_exit
  <2> QED BY <1>2, <2>1, IdleIsNotRunning DEF TablesFollow, deployerVars
<1>8. CASE SetAddressMap
  <2>1. /\ pc = Idle /\ pc' = Idle /\ UNCHANGED <<inputs, bus_map, deployed_hash>> /\ up
        /\ configured' = NoSpec \/ UNCHANGED <<configured, addresses>>
    BY <1>2, <1>8 DEF SetAddressMap, At
  <2> QED BY <1>2, <2>1, IdleKeepsTables
<1>9. CASE Relaunch
  <2>1. pc' = Idle /\ deployed_hash' = NoSpec /\ UNCHANGED configured
    BY <1>9 DEF Relaunch
  <2> QED BY <1>2, <2>1, IdleIsNotRunning DEF TablesFollow
<1>10. CASE UNCHANGED vars
  <2>1. UNCHANGED <<up, pc, inputs, bus_map, deployed_hash, configured, addresses>>
    BY <1>10 DEF vars, deployerVars, busVars
  <2>2. PICK c, t : c = pc /\ t = configured
    OBVIOUS
  <2>3. /\ \A u \in NamedUses(c.spec) : Listed(c.spec, u)' <=> Listed(c.spec, u)
        /\ \A u \in NamedUses(t) : Listed(t, u)' <=> Listed(t, u)
        /\ \A u : Behind(c, u)' <=> Behind(c, u)
    BY <2>1, ListedKept DEF Behind
  <2> QED BY <1>2, <2>1, <2>2, <2>3 DEF TablesFollow
<1> QED BY <1>3, <1>4, <1>5, <1>6, <1>7, <1>8, <1>9, <1>10 DEF Next, ServerStep

\* What the commands that come after a deployment read of it is that
\* deployment's, at every step of every deployment and command.
THEOREM TablesAreInvariant ==
  ASSUME AddressesFit
  PROVE  Spec => []TablesInvariant
BY TablesInit, TablesNext, PTL DEF Spec

\* A set of positions that is not empty has a first.
LEMMA SmallestExists ==
  ASSUME NEW n \in Nat, NEW S \in SUBSET (1 .. n), S # {}
  PROVE  Min(S) \in S /\ \A y \in S : Min(S) <= y
<1>1. S \subseteq Nat
  OBVIOUS
<1>2. PICK x \in S : \A y \in S : ~ (<<y, x>> \in OpToRel(<, Nat))
  <2>1. IsWellFoundedOn(OpToRel(<, Nat), Nat)
    BY NatLessThanWellFounded
  <2> QED BY <1>1, <2>1, WFMin
<1>3. \A y \in S : x <= y
  <2>1. ASSUME NEW y \in S PROVE x <= y
    <3>1. x \in Nat /\ y \in Nat /\ ~ (y < x)
      BY <1>1, <1>2 DEF OpToRel
    <3> QED BY <3>1
  <2> QED BY <2>1
<1> QED BY <1>3 DEF Min

\* A run of stores of which none faults: each register keeps the last that hits it.
LEMMA StoresReach ==
  ASSUME NEW stores, NEW n \in Nat, DOMAIN stores = 1 .. n, fpga_loaded, ~sink_mode,
         write_direct_all(stores), \A i \in DOMAIN stores : stores[i][1] \in Int /\ ControlMapped(stores[i][1]),
         NEW i \in DOMAIN stores,
         \A j \in DOMAIN stores :
           register_address_to_index(stores[j][1]) = register_address_to_index(stores[i][1]) => j <= i
  PROVE  InRegisters(stores[i])'
<1> DEFINE k == register_address_to_index(stores[i][1])
<1>1. registers' = Stored(stores)
  BY DEF write_direct_all, write_registers
<1>2. Performed(stores) = DOMAIN stores
  <2>1. \A l \in DOMAIN stores : 1 .. l \subseteq DOMAIN stores
    OBVIOUS
  <2> QED BY <2>1 DEF Performed
<1>3. k \in 0 .. ControlWords - 1
  BY MappedRegister
<1>4. i \in LastHit(stores, DOMAIN stores, k)
  BY DEF LastHit
<1>5. \A l \in LastHit(stores, DOMAIN stores, k) : l = i
  <2>1. ASSUME NEW l \in LastHit(stores, DOMAIN stores, k) PROVE l = i
    <3>1. l \in DOMAIN stores /\ register_address_to_index(stores[l][1]) = k /\ i <= l
      BY DEF LastHit
    <3> QED BY <3>1
  <2> QED BY <2>1
<1>6. (CHOOSE l \in LastHit(stores, DOMAIN stores, k) : TRUE) = i
  BY <1>4, <1>5
<1>7. registers'[k] = stores[i][2]
  BY <1>1, <1>2, <1>3, <1>4, <1>6 DEF Stored
<1> QED BY <1>7 DEF InRegisters

\* The registers of the scope's multiplexer are in the window.
ScopeMuxMapped ==
  \A c \in ScopeChannels :
    Bases.scope_mux + 4 * c + 4 \in Int /\ ControlMapped(Bases.scope_mux + 4 * c + 4)

\* select_output writes the slot's address to the multiplexer of its channel.
LEMMA SelectOutputDrives ==
  ASSUME TablesInvariant, ScopeMuxMapped, NEW s \in Specs, InStep(s), CanServe,
         NEW c \in ScopeChannels, NEW j \in DOMAIN Slots(s),
         select_output(c, <<Slots(s)[j].source_id, Slots(s)[j].source_name, Slots(s)[j].source_channel>>)
  PROVE  \E x \in Range(Slots(s)) :
           /\ SlotKey(x) = SlotKey(Slots(s)[j]) /\ x.source_channel = Slots(s)[j].source_channel
           /\ InRegisters(<<Bases.scope_mux + 4 * c + 4, x.destination_bus + BusShift * x.destination_channel>>)'
<1> DEFINE out == <<Slots(s)[j].source_id, Slots(s)[j].source_name, Slots(s)[j].source_channel>>
           carrying == {i \in DOMAIN bus_map : out = <<bus_map[i].source_id, bus_map[i].source_name,
                                                       bus_map[i].source_channel>>}
           e == bus_map[Min(carrying)]
           a == Bases.scope_mux + 4 * c + 4
           stores == <<<<a, e.destination_bus + BusShift * e.destination_channel>>>>
<1>1. bus_map = Slots(s)
  BY DEF TablesInvariant, TablesFollow, InStep
<1>2. ~sink_mode /\ fpga_loaded
  <2>1. pc.cmd = "none" /\ up
    BY IdleOrRunning, IdleIsNotRunning DEF TablesInvariant, LogInvariant, CanServe, At
  <2> QED BY <2>1 DEF TablesInvariant, LogInvariant, Bracket, InStep
<1>3. j \in carrying
  BY <1>1
<1>4. Command(stores)
  BY <1>3 DEF select_output
<1>5. Min(carrying) \in carrying
  <2>1. carrying \subseteq 1 .. Len(Slots(s)) /\ Len(Slots(s)) \in Nat
    BY <1>1, SpecSequences
  <2> HIDE DEF carrying
  <2> QED BY <1>3, <2>1, SmallestExists
<1>6. /\ e \in Range(Slots(s)) /\ SlotKey(e) = SlotKey(Slots(s)[j])
      /\ e.source_channel = Slots(s)[j].source_channel
  <2>1. Min(carrying) \in DOMAIN Slots(s) /\ e = Slots(s)[Min(carrying)]
    BY <1>1, <1>5
  <2>2. out = <<e.source_id, e.source_name, e.source_channel>>
    BY <1>5
  <2> QED BY <2>1, <2>2 DEF Range, SlotKey
<1> HIDE DEF e
<1>7. PICK st, mux, b : /\ st = stores /\ mux = a
                        /\ b = e.destination_bus + BusShift * e.destination_channel
  OBVIOUS
<1>8. InRegisters(st[1])'
  <2>1. /\ DOMAIN st = 1 .. 1 /\ \A i \in DOMAIN st : st[i][1] = mux /\ i = 1
        /\ mux \in Int /\ ControlMapped(mux)
    BY <1>7 DEF ScopeMuxMapped
  <2>2. write_direct_all(st)
    BY <1>4, <1>7 DEF Command
  <2>3. /\ 1 \in DOMAIN st /\ 1 \in Nat
        /\ \A i \in DOMAIN st : st[i][1] \in Int /\ ControlMapped(st[i][1])
        /\ \A i \in DOMAIN st :
             register_address_to_index(st[i][1]) = register_address_to_index(st[1][1]) => i <= 1
    BY <2>1
  <2> QED BY <1>2, <2>1, <2>2, <2>3, StoresReach
<1>9. PICK x \in Range(Slots(s)) : x = e
  BY <1>6
<1>10. st[1] = <<mux, b>> /\ b = x.destination_bus + BusShift * x.destination_channel
  BY <1>7, <1>9
<1>11. InRegisters(<<mux, x.destination_bus + BusShift * x.destination_channel>>)'
  BY <1>8, <1>10
<1>12. mux = (Bases.scope_mux + 4 * c + 4)'
  BY <1>4, <1>7 DEF Command, deployerVars, Bases
<1>13. InRegisters(<<Bases.scope_mux + 4 * c + 4, x.destination_bus + BusShift * x.destination_channel>>)'
  BY <1>11, <1>12 DEF InRegisters
<1> QED BY <1>6, <1>9, <1>13

\* hil_select_out routes what the deployed specification carries.
THEOREM SelectionFollowsDeployment ==
  ASSUME AddressesFit
  PROVE  Spec /\ []ScopeMuxMapped => SelectionIsOfDeployed
<1> DEFINE Selects ==
      \A s \in Specs : InStep(s) /\ CanServe =>
       \A c \in ScopeChannels : \A j \in DOMAIN Slots(s) :
         LET e == Slots(s)[j]
             address(x) == x.destination_bus + BusShift * x.destination_channel
             same == {x \in Range(Slots(s)) : SlotKey(x) = SlotKey(e)
                                                /\ x.source_channel = e.source_channel}
         IN select_output(c, <<e.source_id, e.source_name, e.source_channel>>) =>
              \E x \in same : InRegisters(<<Bases.scope_mux + 4 * c + 4, address(x)>>)'
<1>1. TablesInvariant /\ ScopeMuxMapped => Selects
  BY SelectOutputDrives
<1> QED BY <1>1, TablesAreInvariant, PTL DEF SelectionIsOfDeployed

\* The three registers of a constant engine are three.
LEMMA EngineRegisters ==
  ASSUME NEW a \in Int
  PROVE  /\ register_address_to_index(a + 8) = register_address_to_index(a) + 2
         /\ register_address_to_index(a + 12) = register_address_to_index(a) + 3
         /\ register_address_to_index(a) \in Int
BY BusAssumption DEF register_address_to_index

\* The constant engines of every input set up are in the window.
EnginesMapped ==
  \A e \in Range(inputs) :
    e.engine \in Int /\ \A d \in {0, 8, 12} : ControlMapped(e.engine + d)

LEMMA FinitelyMany == ASSUME NEW n \in Nat PROVE IsFiniteSet(1 .. n)
BY FS_Interval

\* set_input writes to every entry of the name; the last is the one the
\* specification's use was listed with.
LEMMA SetInputDrives ==
  ASSUME TablesInvariant, EnginesMapped, NEW s \in Specs, InStep(s), CanServe,
         NEW u \in NamedUses(s), NEW v \in Values,
         set_input(ProgramSeq(s)[u[1]].name, UsedInput(s, u).name, u[3], v)
  PROVE  /\ InRegisters(<<UseEngine(s, u) + 12, UseSelector(s, u)>>)'
         /\ InRegisters(<<UseEngine(s, u) + 8, UseDest(s, u)>>)'
         /\ InRegisters(<<UseEngine(s, u), v>>)'
<1> DEFINE core == ProgramSeq(s)[u[1]].name
           name == UsedInput(s, u).name
           same == {i \in DOMAIN inputs : inputs[i].core = core /\ inputs[i].name = name
                                            /\ inputs[i].channel = u[3]}
           in(n) == inputs[Nth(same, (n + 2) \div 3)]
           triple(n) == ConstantStores(in(n).engine, in(n).selector, in(n).dest, v)
           stores == [n \in 1 .. 3 * Cardinality(same) |-> triple(n)[((n - 1) % 3) + 1]]
<1>1. Command(stores)
  BY DEF set_input
<1>2. DOMAIN inputs = 1 .. Len(inputs) /\ Len(inputs) \in Nat
  BY SequenceDomain DEF TablesInvariant, LogInvariant
<1>3. IsFiniteSet(same) /\ Cardinality(same) \in Nat /\ same \in SUBSET (1 .. Len(inputs))
  <2>1. IsFiniteSet(1 .. Len(inputs))
    BY <1>2, FinitelyMany
  <2>2. same \in SUBSET (1 .. Len(inputs))
    BY <1>2
  <2> HIDE DEF same
  <2> QED BY <2>1, <2>2, FS_Subset, FS_CardinalityType
<1>4. PICK last \in DOMAIN inputs :
        /\ inputs[last] = EntryOf(s, u)
        /\ \A m \in DOMAIN inputs : SameInput(inputs[m], EntryOf(s, u)) => m <= last
  <2>1. configured = s /\ s # NoSpec /\ deployed_hash = s /\ up /\ pc.phase = "idle"
    BY DEF InStep, CanServe, At
  <2> QED BY <2>1 DEF TablesInvariant, TablesFollow, Listed
<1>5. last \in same /\ \A m \in same : m <= last
  BY <1>4 DEF SameInput, EntryOf
<1>6. PICK total : total = Cardinality(same)
  OBVIOUS
<1>7. Nth(same, total) = last /\ total \in Nat \ {0} /\ \A m \in 1 .. total : Nth(same, m) \in same
  <2>1. same \cap (1 .. last) = same
    BY <1>2, <1>3, <1>5
  <2> HIDE DEF same
  <2>2. Nth(same, Cardinality(same \cap (1 .. last))) = last
        /\ Cardinality(same \cap (1 .. last)) \in 1 .. Cardinality(same)
    BY <1>2, <1>3, <1>5, NthPosition
  <2>3. \A m \in 1 .. Cardinality(same) : Nth(same, m) \in same
    BY <1>2, <1>3, NthIsPosition
  <2>4. Cardinality(same \cap (1 .. last)) = total
    BY <1>6, <2>1
  <2>5. Nth(same, total) = last /\ total \in 1 .. total
    BY <1>6, <2>2, <2>4
  <2>6. total \in Nat
    BY <1>3, <1>6
  <2>7. \A m \in 1 .. total : Nth(same, m) \in same
    BY <1>6, <2>3
  <2>8. total \in Nat \ {0}
    BY <2>5, <2>6
  <2> QED BY <2>5, <2>7, <2>8
<1>8. \A m \in same : inputs[m] \in Range(inputs)
  BY DEF Range
<1> HIDE DEF same
<1>9. PICK st : st = stores
  OBVIOUS
<1>10. DOMAIN st = 1 .. 3 * total /\ 3 * total \in Nat
  BY <1>6, <1>7, <1>9
<1>11. ASSUME NEW n \in DOMAIN st
       PROVE  /\ st[n][1] \in Int /\ ControlMapped(st[n][1])
  <2>1. n \in 1 .. 3 * total /\ (n + 2) \div 3 \in 1 .. total /\ (n - 1) % 3 \in 0 .. 2
    BY <1>7, <1>10, <1>11
  <2>2. in(n) \in Range(inputs)
    BY <1>7, <1>8, <2>1
  <2>3. st[n] = triple(n)[((n - 1) % 3) + 1]
    BY <1>6, <1>9, <2>1
  <2> HIDE DEF in
  <2>4. PICK r : r = ((n - 1) % 3) + 1
    OBVIOUS
  <2>5. r \in {1, 2, 3}
    BY <2>1, <2>4
  <2>6. st[n][1] \in {in(n).engine + 12, in(n).engine + 8, in(n).engine}
    BY <2>3, <2>4, <2>5 DEF ConstantStores
  <2>7. in(n).engine \in Int /\ \A d \in {0, 8, 12} : ControlMapped(in(n).engine + d)
    BY <2>2 DEF EnginesMapped
  <2> QED BY <2>6, <2>7
<1>12. PICK a, b, c : a = UseEngine(s, u) /\ b = UseSelector(s, u) /\ c = UseDest(s, u)
  OBVIOUS
<1>13. inputs[last].engine = a /\ inputs[last].selector = b /\ inputs[last].dest = c
  BY <1>4, <1>12 DEF EntryOf
<1>14. /\ 3 * total - 2 \in DOMAIN st /\ 3 * total - 1 \in DOMAIN st /\ 3 * total \in DOMAIN st
  BY <1>7, <1>10
<1>15. /\ st[3 * total - 2] = <<a + 12, b>> /\ st[3 * total - 1] = <<a + 8, c>> /\ st[3 * total] = <<a, v>>
  <2>1. /\ ((3 * total - 2) + 2) \div 3 = total /\ ((3 * total - 2) - 1) % 3 = 0
        /\ ((3 * total - 1) + 2) \div 3 = total /\ ((3 * total - 1) - 1) % 3 = 1
        /\ (3 * total + 2) \div 3 = total /\ (3 * total - 1) % 3 = 2
    BY <1>7
  <2>2. \A n \in DOMAIN st : (n + 2) \div 3 = total =>
          triple(n) = <<<<a + 12, b>>, <<a + 8, c>>, <<a, v>>>>
    BY <1>7, <1>13 DEF ConstantStores
  <2>3. \A n \in DOMAIN st : st[n] = triple(n)[((n - 1) % 3) + 1]
    BY <1>6, <1>9, <1>10
  <2> HIDE DEF triple
  <2> QED BY <1>14, <2>1, <2>2, <2>3
<1>16. a \in Int
  BY <1>8, <1>5, <1>13 DEF EnginesMapped
<1>17. \A i \in {3 * total - 2, 3 * total - 1, 3 * total} : \A j \in DOMAIN st :
         register_address_to_index(st[j][1]) = register_address_to_index(st[i][1]) => j <= i
  <2>1. /\ register_address_to_index(st[3 * total - 2][1]) = register_address_to_index(a) + 3
        /\ register_address_to_index(st[3 * total - 1][1]) = register_address_to_index(a) + 2
        /\ register_address_to_index(st[3 * total][1]) = register_address_to_index(a)
        /\ register_address_to_index(a) \in Int
    BY <1>15, <1>16, EngineRegisters
  <2>2. \A j \in DOMAIN st : j <= 3 * total - 2 \/ j = 3 * total - 1 \/ j = 3 * total
    BY <1>7, <1>10
  <2>3. \A j \in DOMAIN st : j \in Int
    BY <1>10
  <2> QED BY <1>7, <2>1, <2>2, <2>3
<1>18. ~sink_mode /\ fpga_loaded
  <2>1. pc.cmd = "none" /\ up
    BY IdleOrRunning, IdleIsNotRunning DEF TablesInvariant, LogInvariant, CanServe, At
  <2> QED BY <2>1 DEF TablesInvariant, LogInvariant, Bracket, InStep
<1>19. write_direct_all(st) /\ UNCHANGED addresses
  BY <1>1, <1>9 DEF Command, deployerVars
<1>20. \A i \in {3 * total - 2, 3 * total - 1, 3 * total} : InRegisters(st[i])'
  BY <1>10, <1>11, <1>14, <1>17, <1>18, <1>19, StoresReach
<1>21. /\ UseEngine(s, u)' = a /\ UseSelector(s, u)' = b /\ UseDest(s, u)' = c
  BY <1>12, <1>19 DEF UseEngine, ConstEngine, CoreControl, Bases, Offsets
<1>22. /\ InRegisters(<<a + 12, b>>)' /\ InRegisters(<<a + 8, c>>)' /\ InRegisters(<<a, v>>)'
  BY <1>15, <1>20
<1> QED BY <1>21, <1>22 DEF InRegisters

\* hil_set_in drives the input of the deployed specification.
THEOREM SetInputFollowsDeployment ==
  ASSUME AddressesFit, NamesApart
  PROVE  Spec /\ []EnginesMapped => SetInputDrivesDeployedInput
<1> DEFINE Drives ==
      \A s \in Specs : InStep(s) /\ CanServe =>
       \A u \in ConstantUses(s), v \in Values :
         set_input(ProgramSeq(s)[u[1]].name, UsedInput(s, u).name, u[3], v) =>
           /\ InRegisters(<<UseEngine(s, u) + 12, UseSelector(s, u)>>)'
           /\ InRegisters(<<UseEngine(s, u) + 8, UseDest(s, u)>>)'
           /\ InRegisters(<<UseEngine(s, u), v>>)'
<1>1. TablesInvariant /\ EnginesMapped => Drives
  BY SetInputDrives DEF NamesApart
<1> QED BY <1>1, TablesAreInvariant, PTL DEF SetInputDrivesDeployedInput

----------------------------------------------------------------------------
(* The tables of a simulation *)

\* The loop over the slots has one behind it, for the program it leaves from.
SlotBehind(c, i, j) ==
  Passed(c, "output_dma", AfterDma, i) \/ (c.phase = "output_dma" /\ i = c.i /\ j < c.j)

\* The addresses that have a label at position c, for a slot and for an input.
SlotAddress(e) == e.destination_bus + BusShift * e.destination_channel
Carried(c, a) ==
  \E i \in DOMAIN ProgramSeq(c.spec) : \E j \in SlotsOf(c.spec, ProgramSeq(c.spec)[i]) :
    a = SlotAddress(Slots(c.spec)[j]) /\ SlotBehind(c, i, j)
Generated(c, a) ==
  \E u \in Uses(c.spec) :
    IsGenerated(UsedInput(c.spec, u)) /\ a = UseDest(c.spec, u) /\ Behind(c, u)

\* What the input table has for a use of a constant, and under which path.
PathOf(s, u) == SignalPath(ProgramSeq(s)[u[1]], UsedInput(s, u), u[3])
SourceOf(s, u) ==
  <<UseEngine(s, u), UseDest(s, u), UseSelector(s, u), ProgramSeq(s)[u[1]].index>>

\* The labels at position c are those of what the loops have behind them.
LabelsAt(c) ==
  /\ \A a : a \in DOMAIN bus_labels <=> Carried(c, a) \/ Generated(c, a)
  /\ \A x : x \in DOMAIN inputs_labels
              <=> \E u \in ConstantUses(c.spec) : Behind(c, u) /\ x = PathOf(c.spec, u)
  /\ \A u \in ConstantUses(c.spec) :
       Behind(c, u) => inputs_labels[PathOf(c.spec, u)] = SourceOf(c.spec, u)

LabelsFollow ==
  /\ pc.phase # "idle" => LabelsAt(pc)
  /\ SimulationTablesAreSpecification

\* Putting a label in a table.
LEMMA LabelPut ==
  ASSUME NEW a, NEW v, NEW f
  PROVE  /\ \A x : x \in DOMAIN Labelled(f, a, v) <=> x \in DOMAIN f \/ x = a
         /\ Labelled(f, a, v)[a] = v
         /\ \A x \in DOMAIN f : x # a => Labelled(f, a, v)[x] = f[x]
BY DEF Labelled

\* Constants that clients can tell apart have paths of their own.
LEMMA PathsApart ==
  ASSUME NamesApart, NEW s \in Specs, NEW u \in ConstantUses(s), NEW v \in ConstantUses(s),
         PathOf(s, u) = PathOf(s, v)
  PROVE  u = v
<1> DEFINE p == ProgramSeq(s)[u[1]]
           q == ProgramSeq(s)[v[1]]
           in == UsedInput(s, u)
           jn == UsedInput(s, v)
<1>1. u \in Uses(s) /\ v \in Uses(s) /\ v \in NamedUses(s)
  BY DEF NamesApart, ConstantUses
<1>2. /\ u[1] \in DOMAIN ProgramSeq(s) /\ v[1] \in DOMAIN ProgramSeq(s)
      /\ u[3] \in 0 .. InputChannels(p, in) - 1 /\ v[3] \in 0 .. InputChannels(q, jn) - 1
  BY <1>1, UsesMember
<1>3. p.n_channels \in Nat /\ q.n_channels \in Nat
  BY <1>2, ProgramPosition, SpecAssumption DEF ProgramsOf, ProgramSeq
<1> HIDE DEF p, q, in, jn
<1>4. /\ p.n_channels <= 1 => u[3] = 0
      /\ q.n_channels <= 1 => v[3] = 0
  BY <1>2 DEF InputChannels
<1>5. SignalPath(p, in, u[3]) = SignalPath(q, jn, v[3])
  BY DEF PathOf, p, q, in, jn
<1>6. p.name = q.name /\ in.name = jn.name /\ u[3] = v[3]
  <2>1. CASE p.n_channels > 1 /\ q.n_channels > 1
    BY <1>5, <2>1 DEF SignalPath
  <2>2. CASE ~(p.n_channels > 1) /\ ~(q.n_channels > 1)
    <3>1. <<p.name, in.name>> = <<q.name, jn.name>>
      BY <1>5, <2>2 DEF SignalPath
    <3> QED BY <1>3, <1>4, <2>2, <3>1
  <2>3. \A a, b, x, y, z : <<a, b>> # <<x, y, z>>
    <3>1. SUFFICES ASSUME NEW a, NEW b, NEW x, NEW y, NEW z, <<a, b>> = <<x, y, z>> PROVE FALSE
      OBVIOUS
    <3>2. Len(<<a, b>>) = 2 /\ Len(<<x, y, z>>) = 3
      OBVIOUS
    <3> QED BY <3>1, <3>2
  <2>4. ~(p.n_channels > 1 /\ ~(q.n_channels > 1)) /\ ~(q.n_channels > 1 /\ ~(p.n_channels > 1))
    BY <1>5, <2>3 DEF SignalPath
  <2> QED BY <2>1, <2>2, <2>4
<1>7. \A w \in ConstantUses(s) :
        /\ ProgramSeq(s)[w[1]].name = ProgramSeq(s)[v[1]].name
        /\ UsedInput(s, w).name = UsedInput(s, v).name /\ w[3] = v[3]
        => w = v
  BY <1>1 DEF NamedUses
<1> QED BY <1>6, <1>7 DEF p, q, in, jn

\* A position with the same slots and uses behind it.
Steady(next) ==
  /\ next.spec = pc.spec
  /\ \A i \in DOMAIN ProgramSeq(pc.spec) : \A j \in SlotsOf(pc.spec, ProgramSeq(pc.spec)[i]) :
       SlotBehind(next, i, j) <=> SlotBehind(pc, i, j)
  /\ \A u \in Uses(pc.spec) : Behind(next, u) <=> Behind(pc, u)

\* The labels that are due depend on what is behind, and not on the state.
LEMMA SourceKept ==
  ASSUME UNCHANGED addresses, NEW CONSTANT s, NEW CONSTANT u
  PROVE  SourceOf(s, u)' = SourceOf(s, u) /\ PathOf(s, u)' = PathOf(s, u)
<1>1. UseEngine(s, u)' = UseEngine(s, u)
  BY DEF UseEngine, ConstEngine, CoreControl, Bases, Offsets
<1>2. /\ UseSelector(s, u)' = UseSelector(s, u) /\ UseDest(s, u)' = UseDest(s, u)
      /\ ProgramSeq(s)' = ProgramSeq(s) /\ PathOf(s, u)' = PathOf(s, u)
  OBVIOUS
<1> QED BY <1>1, <1>2 DEF SourceOf

\* What two positions with the same behind them have labels for.
LEMMA SteadyDue ==
  ASSUME NEW next, Steady(next)
  PROVE  /\ \A a : Carried(next, a) <=> Carried(pc, a)
         /\ \A a : Generated(next, a) <=> Generated(pc, a)
         /\ \A u \in ConstantUses(pc.spec) : Behind(next, u) <=> Behind(pc, u)
<1>1. \A a : Carried(next, a) <=> Carried(pc, a)
  BY DEF Steady, Carried
<1>2. \A a : Generated(next, a) <=> Generated(pc, a)
  BY DEF Steady, Generated
<1>3. \A u \in ConstantUses(pc.spec) : Behind(next, u) <=> Behind(pc, u)
  BY DEF Steady, ConstantUses
<1> QED BY <1>1, <1>2, <1>3

\* A loop that goes over neither slots nor inputs.
LEMMA ProgramSteady ==
  ASSUME Deploying, Running, pc.phase \in {"load_cores", "dividers", "memories", "setup_cores"}
  PROVE  Steady(NextProgram)
<1>1. PICK next : next = NextProgram
  OBVIOUS
<1>2. next.spec = pc.spec /\ next.phase = pc.phase
  BY <1>1 DEF NextProgram, AtProgram
<1> QED BY <1>1, <1>2 DEF Steady, SlotBehind, Passed, Behind, AfterDma, AfterInputs

\* The next memory value of a core.
LEMMA LoopSteady ==
  ASSUME Deploying, Running, pc.phase = "memories"
  PROVE  Steady([pc EXCEPT !.j = @ + 1])
<1>1. PICK next : next = [pc EXCEPT !.j = @ + 1]
  OBVIOUS
<1>2. pc = [phase |-> pc.phase, cmd |-> pc.cmd, spec |-> pc.spec, i |-> pc.i, j |-> pc.j,
              k |-> pc.k, n |-> pc.n]
  BY DEF Running, RunningPc
<1>3. next.spec = pc.spec /\ next.phase = pc.phase
  BY <1>1, <1>2
<1> QED BY <1>1, <1>3 DEF Steady, SlotBehind, Passed, Behind, AfterDma, AfterInputs

\* A loop that has seen all programs has all of its phase behind it.
LEMMA PhaseSteady ==
  ASSUME Deploying, Running, pc.phase # "finish",
         ~ InProgram \/ pc.phase \in {"timebase", "sequencer"}
  PROVE  Steady(NextPhase)
<1>1. PICK next : next = NextPhase
  OBVIOUS
<1>2. PICK phase : NextPhase = AtProgram(phase, 1) /\ Follows(pc.phase, phase)
  BY NextPhaseFollows
<1>3. /\ next.spec = pc.spec /\ Follows(pc.phase, next.phase)
      /\ next.i = 1 /\ next.j = 1 /\ next.k = 0
  BY <1>1, <1>2 DEF AtProgram
<1>4. pc.spec \in Specs /\ pc.i \in Nat /\ pc.j \in Nat /\ pc.k \in Nat
  BY AtProgramOfSpec
<1>5. /\ DOMAIN ProgramSeq(pc.spec) = 1 .. Len(ProgramSeq(pc.spec)) /\ Len(ProgramSeq(pc.spec)) \in Nat
      /\ DOMAIN Slots(pc.spec) = 1 .. Len(Slots(pc.spec)) /\ Len(Slots(pc.spec)) \in Nat
  BY <1>4, SpecSequences
<1>6. ASSUME NEW u \in Uses(pc.spec)
      PROVE  Behind(next, u) <=> Behind(pc, u)
  <2>2. CASE pc.phase = "memories"
    <3>1. next.phase = "inputs" /\ Here(next) = <<1, 1, 0>>
      BY <1>3, <2>2 DEF Follows, Here
    <3>2. ~ Before(u, <<1, 1, 0>>)
      BY <1>4, <1>6, BeforeSteps
    <3> QED BY <2>2, <3>1, <3>2 DEF Behind, AfterInputs
  <2>3. CASE pc.phase = "inputs"
    <3>1. pc.i > Len(ProgramSeq(pc.spec))
      BY <2>3, AtProgramOfSpec
    <3>2. Before(u, <<pc.i, pc.j, pc.k>>)
      BY <1>4, <1>6, <3>1, BeforeSteps
    <3>3. next.phase = "sequencer"
      BY <1>3, <2>3 DEF Follows
    <3> QED BY <2>3, <3>2, <3>3 DEF Behind, Here, AfterInputs
  <2>4. CASE pc.phase \notin {"memories", "inputs"}
    BY <1>3, <2>4 DEF Behind, Follows, AfterInputs
  <2> QED BY <2>2, <2>3, <2>4
<1>7. ASSUME NEW i \in DOMAIN ProgramSeq(pc.spec), NEW j \in SlotsOf(pc.spec, ProgramSeq(pc.spec)[i])
      PROVE  SlotBehind(next, i, j) <=> SlotBehind(pc, i, j)
  <2>1. i \in Nat /\ i >= 1 /\ i <= Len(ProgramSeq(pc.spec)) /\ j \in Nat /\ j >= 1
    BY <1>5, <1>7 DEF SlotsOf
  <2>2. CASE pc.phase = "dividers"
    <3>1. next.phase = "output_dma" /\ ~(i < next.i) /\ ~(j < next.j)
      BY <1>3, <2>1, <2>2 DEF Follows
    <3> QED BY <2>2, <3>1 DEF SlotBehind, Passed, AfterDma
  <2>3. CASE pc.phase = "output_dma"
    <3>1. i < pc.i
      BY <1>4, <1>5, <2>1, <2>3, AtProgramOfSpec
    <3>2. next.phase = "memories"
      BY <1>3, <2>3 DEF Follows
    <3> QED BY <2>3, <3>1, <3>2 DEF SlotBehind, Passed, AfterDma
  <2>4. CASE pc.phase \notin {"dividers", "output_dma"}
    BY <1>3, <2>4 DEF SlotBehind, Passed, Follows, AfterDma
  <2> QED BY <2>2, <2>3, <2>4
<1> QED BY <1>1, <1>3, <1>6, <1>7 DEF Steady

\* The end of a core's slots.
LEMMA OutputsSteady ==
  ASSUME Deploying, Running, FinishOutputDma
  PROVE  Steady(NextProgram)
<1>1. PICK next : next = NextProgram
  OBVIOUS
<1>2. /\ pc.phase = "output_dma" /\ pc.j > Len(Slots(pc.spec))
  BY DEF FinishOutputDma, At, Deploying, Prepared
<1>3. /\ next.spec = pc.spec /\ next.phase = pc.phase /\ next.i = pc.i + 1 /\ next.j = 1
  BY <1>1 DEF NextProgram, AtProgram
<1>4. /\ pc.spec \in Specs /\ pc.i \in Nat /\ pc.j \in Nat
  BY AtProgramOfSpec
<1>5. /\ DOMAIN ProgramSeq(pc.spec) = 1 .. Len(ProgramSeq(pc.spec)) /\ Len(ProgramSeq(pc.spec)) \in Nat
      /\ DOMAIN Slots(pc.spec) = 1 .. Len(Slots(pc.spec)) /\ Len(Slots(pc.spec)) \in Nat
  BY <1>4, SpecSequences
<1>6. ASSUME NEW i \in DOMAIN ProgramSeq(pc.spec), NEW j \in SlotsOf(pc.spec, ProgramSeq(pc.spec)[i])
      PROVE  SlotBehind(next, i, j) <=> SlotBehind(pc, i, j)
  <2>1. i \in Nat /\ j \in Nat /\ j >= 1 /\ j < pc.j
    BY <1>2, <1>4, <1>5, <1>6 DEF SlotsOf
  <2>2. i < pc.i + 1 \/ (i = pc.i + 1 /\ j < 1) <=> i < pc.i \/ (i = pc.i /\ j < pc.j)
    BY <1>4, <2>1
  <2> QED BY <1>2, <1>3, <2>2 DEF SlotBehind, Passed, AfterDma
<1>7. \A u \in Uses(pc.spec) : Behind(next, u) <=> Behind(pc, u)
  BY <1>2, <1>3 DEF Behind, AfterInputs
<1> QED BY <1>1, <1>3, <1>6, <1>7 DEF Steady

\* The end of an input, and of the inputs of a core.
LEMMA InputsSteady ==
  ASSUME Deploying, Running, NEW next, next.spec = pc.spec, next.phase = "inputs",
         \/ /\ FinishInput
            /\ next.i = pc.i /\ next.j = pc.j + 1 /\ next.k = 0
         \/ /\ FinishCoreInputs
            /\ next.i = pc.i + 1 /\ next.j = 1 /\ next.k = 0
  PROVE  Steady(next)
<1>1. pc.phase = "inputs" /\ InProgram
  BY DEF FinishInput, FinishCoreInputs, At
<1>2. /\ pc.spec \in Specs /\ pc.i \in DOMAIN ProgramSeq(pc.spec) /\ P = ProgramSeq(pc.spec)[pc.i]
      /\ CoreInputs = InputsAt(pc.spec, pc.i) /\ pc.j \in Nat \ {0}
      /\ pc.i \in Nat /\ pc.k \in Nat
  BY <1>1, AtProgramOfSpec
<1>3. DOMAIN InputsAt(pc.spec, pc.i) = 1 .. Len(InputsAt(pc.spec, pc.i))
      /\ Len(InputsAt(pc.spec, pc.i)) \in Nat
  BY <1>2, SpecSequences
<1>4. ASSUME NEW u \in Uses(pc.spec)
      PROVE  Before(u, Here(next)) <=> Before(u, <<pc.i, pc.j, pc.k>>)
  <2>1. CASE FinishInput /\ next.i = pc.i /\ next.j = pc.j + 1 /\ next.k = 0
    <3>1. pc.j \in DOMAIN InputsAt(pc.spec, pc.i) /\ pc.k >= InputChannels(P, InputsAt(pc.spec, pc.i)[pc.j])
      BY <1>2, <1>3, <2>1 DEF FinishInput
    <3>2. Before(u, <<pc.i, pc.j + 1, 0>>) <=> Before(u, <<pc.i, pc.j, pc.k>>)
      BY <1>2, <1>4, <3>1, BeforeSteps
    <3> QED BY <2>1, <3>2 DEF Here
  <2>2. CASE FinishCoreInputs /\ next.i = pc.i + 1 /\ next.j = 1 /\ next.k = 0
    <3>1. pc.j > Len(InputsAt(pc.spec, pc.i))
      BY <1>2, <2>2 DEF FinishCoreInputs
    <3>2. Before(u, <<pc.i + 1, 1, 0>>) <=> Before(u, <<pc.i, pc.j, pc.k>>)
      BY <1>2, <1>4, <3>1, BeforeSteps
    <3> QED BY <2>2, <3>2 DEF Here
  <2> QED BY <2>1, <2>2
<1>5. \A u \in Uses(pc.spec) : Behind(next, u) <=> Behind(pc, u)
  BY <1>1, <1>4 DEF Behind, Here, AfterInputs
<1>6. \A i, j : SlotBehind(next, i, j) <=> SlotBehind(pc, i, j)
  BY <1>1 DEF SlotBehind, Passed, AfterDma
<1> QED BY <1>5, <1>6 DEF Steady

\* The labels are right at a position when they are those due there: what is due
\* depends on the address map alone.
LEMMA LabelsNow ==
  ASSUME UNCHANGED addresses, NEW CONSTANT c,
         \A a : a \in DOMAIN bus_labels' <=> Carried(c, a) \/ Generated(c, a),
         \A x : x \in DOMAIN inputs_labels'
                  <=> \E u \in ConstantUses(c.spec) : Behind(c, u) /\ x = PathOf(c.spec, u),
         \A u \in ConstantUses(c.spec) :
           Behind(c, u) => inputs_labels'[PathOf(c.spec, u)] = SourceOf(c.spec, u)
  PROVE  LabelsAt(c)'
<1>1. \A u : SourceOf(c.spec, u)' = SourceOf(c.spec, u)
  BY SourceKept
<1>2. \A a : (Carried(c, a)' <=> Carried(c, a)) /\ (Generated(c, a)' <=> Generated(c, a))
  BY DEF Carried, Generated, SlotBehind, Passed, Behind, Here
<1>3. \A u : (Behind(c, u)' <=> Behind(c, u)) /\ PathOf(c.spec, u)' = PathOf(c.spec, u)
  OBVIOUS
<1>4. \A a : a \in DOMAIN bus_labels' <=> Carried(c, a)' \/ Generated(c, a)'
  BY <1>2
<1>5. \A x : x \in DOMAIN inputs_labels'
              <=> \E u \in ConstantUses(c.spec) : Behind(c, u)' /\ x = PathOf(c.spec, u)'
  BY <1>3
<1>6. \A u \in ConstantUses(c.spec) :
       Behind(c, u)' => inputs_labels'[PathOf(c.spec, u)'] = SourceOf(c.spec, u)'
  BY <1>1, <1>3
<1> QED BY <1>4, <1>5, <1>6 DEF LabelsAt

\* A step between positions with the same behind them that leaves the labels keeps
\* them right.
LEMMA LabelsKept ==
  ASSUME LabelsAt(pc), NEW next, Steady(next), pc' = next,
         UNCHANGED <<addresses, bus_labels, inputs_labels>>
  PROVE  LabelsAt(pc)'
<1>1. PICK c : c = next
  OBVIOUS
<1>2. c.spec = pc.spec
  BY <1>1 DEF Steady
<1>3. LabelsAt(c)
  BY <1>1, <1>2, SteadyDue DEF LabelsAt
<1>4. LabelsAt(c)'
  BY <1>3, LabelsNow DEF LabelsAt
<1> QED BY <1>1, <1>4

\* A label for the next address.
LEMMA AddressLabelled ==
  ASSUME LabelsAt(pc), NEW next, pc' = next, next.spec = pc.spec, NEW address, NEW label,
         bus_labels' = Labelled(bus_labels, address, label), UNCHANGED <<addresses, inputs_labels>>,
         \A a : Carried(next, a) \/ Generated(next, a)
                  <=> Carried(pc, a) \/ Generated(pc, a) \/ a = address,
         \A u \in ConstantUses(pc.spec) : Behind(next, u) <=> Behind(pc, u)
  PROVE  LabelsAt(pc)'
<1>1. PICK c : c = next
  OBVIOUS
<1>2. c.spec = pc.spec
  BY <1>1
<1>3. \A a : a \in DOMAIN bus_labels' <=> Carried(c, a) \/ Generated(c, a)
  <2>1. \A a : a \in DOMAIN bus_labels' <=> a \in DOMAIN bus_labels \/ a = address
    BY LabelPut
  <2>2. \A a : a \in DOMAIN bus_labels <=> Carried(pc, a) \/ Generated(pc, a)
    BY DEF LabelsAt
  <2> QED BY <1>1, <2>1, <2>2
<1>4. /\ \A x : x \in DOMAIN inputs_labels'
                  <=> \E u \in ConstantUses(c.spec) : Behind(c, u) /\ x = PathOf(c.spec, u)
      /\ \A u \in ConstantUses(c.spec) :
           Behind(c, u) => inputs_labels'[PathOf(c.spec, u)] = SourceOf(c.spec, u)
  BY <1>1, <1>2 DEF LabelsAt
<1>5. LabelsAt(c)'
  BY <1>3, <1>4, LabelsNow
<1> QED BY <1>1, <1>5

\* A label for the next constant.
LEMMA ConstantLabelled ==
  ASSUME NamesApart, LabelsAt(pc), pc.spec \in Specs, NEW next, pc' = next, next.spec = pc.spec,
         NEW u \in ConstantUses(pc.spec),
         inputs_labels' = Labelled(inputs_labels, PathOf(pc.spec, u), SourceOf(pc.spec, u)),
         UNCHANGED <<addresses, bus_labels>>,
         \A a : Carried(next, a) \/ Generated(next, a) <=> Carried(pc, a) \/ Generated(pc, a),
         \A v \in ConstantUses(pc.spec) : Behind(next, v) <=> Behind(pc, v) \/ v = u
  PROVE  LabelsAt(pc)'
<1>1. PICK c : c = next
  OBVIOUS
<1>2. PICK s : s = pc.spec
  OBVIOUS
<1>3. c.spec = s /\ s \in Specs /\ u \in ConstantUses(s)
  BY <1>1, <1>2
<1>4. \A a : a \in DOMAIN bus_labels' <=> Carried(c, a) \/ Generated(c, a)
  BY <1>1 DEF LabelsAt
<1>5. /\ \A x : x \in DOMAIN inputs_labels
                  <=> \E v \in ConstantUses(s) : Behind(pc, v) /\ x = PathOf(s, v)
      /\ \A v \in ConstantUses(s) : Behind(pc, v) => inputs_labels[PathOf(s, v)] = SourceOf(s, v)
  BY <1>2 DEF LabelsAt
<1>6. /\ \A x : x \in DOMAIN inputs_labels' <=> x \in DOMAIN inputs_labels \/ x = PathOf(s, u)
      /\ inputs_labels'[PathOf(s, u)] = SourceOf(s, u)
      /\ \A x \in DOMAIN inputs_labels : x # PathOf(s, u) => inputs_labels'[x] = inputs_labels[x]
  BY <1>2, LabelPut
<1>7. \A v \in ConstantUses(s) : Behind(c, v) <=> Behind(pc, v) \/ v = u
  BY <1>1, <1>2
<1>8. \A x : x \in DOMAIN inputs_labels'
               <=> \E v \in ConstantUses(s) : Behind(c, v) /\ x = PathOf(s, v)
  BY <1>3, <1>5, <1>6, <1>7
<1>9. ASSUME NEW v \in ConstantUses(s), Behind(c, v)
      PROVE  inputs_labels'[PathOf(s, v)] = SourceOf(s, v)
  <2>1. CASE v = u
    BY <1>6, <2>1
  <2>2. CASE v # u
    <3>1. PathOf(s, v) # PathOf(s, u)
      BY <1>3, <2>2, PathsApart
    <3>2. PathOf(s, v) \in DOMAIN inputs_labels /\ inputs_labels[PathOf(s, v)] = SourceOf(s, v)
      BY <1>5, <1>7, <1>9, <2>2
    <3> QED BY <1>6, <3>1, <3>2
  <2> QED BY <2>1, <2>2
<1>10. LabelsAt(c)'
  BY <1>3, <1>4, <1>8, <1>9, LabelsNow
<1> QED BY <1>1, <1>10

\* How a step that labels nothing ends.
SteadyEnds == pc' = Idle \/ \E next : pc' = next /\ Steady(next)

\* Whether or not it writes.
LEMMA SteadySteps ==
  ASSUME NEW next, Steady(next),
         SkipTo(next) \/ \E stores : WriteThen(stores, next)
  PROVE  SteadyEnds
BY DEF SkipTo, WriteThen, SteadyEnds

\* The steps that label nothing.
LEMMA StepIsSteady ==
  ASSUME Deploying, Running,
         \/ LoadCore \/ ComputeTimebase \/ RaiseTimebaseDivider \/ NextDivider
         \/ SetupInterconnectIv \/ FinishOutputDma \/ SetupMemory \/ FinishInput
         \/ FinishCoreInputs \/ SetupSequencer \/ SetupCore \/ EndOfLoop
  PROVE  SteadyEnds /\ UNCHANGED <<addresses, bus_labels, inputs_labels>>
<1>1. CASE LoadCore
  <2>1. Steady(NextProgram)
    BY <1>1, ProgramSteady DEF LoadCore, At
  <2>2. pc' = NextProgram \/ pc' = Idle
    BY <1>1 DEF LoadCore, LoadThen
  <2> QED BY <1>1, <2>1, <2>2 DEF LoadCore, deployerVars, SteadyEnds
<1>2. CASE ComputeTimebase
  <2>1. Steady(NextPhase)
    BY <1>2, PhaseSteady DEF ComputeTimebase, At
  <2> QED BY <1>2, <2>1, SteadySteps DEF ComputeTimebase
<1>10. CASE RaiseTimebaseDivider
  <2>1. Steady(pc)
    BY DEF Steady
  <2> QED BY <1>10, <2>1, SteadySteps DEF RaiseTimebaseDivider
<1>11. CASE NextDivider
  <2>1. Steady(NextProgram)
    BY <1>11, ProgramSteady DEF NextDivider, At
  <2> QED BY <1>11, <2>1, SteadySteps DEF NextDivider, deployerVars
<1>12. CASE SetupInterconnectIv
  <2>1. Steady(NextPhase)
    BY <1>12, PhaseSteady DEF SetupInterconnectIv, At
  <2>2. pc' = NextPhase \/ pc' = Idle
    BY <1>12 DEF SetupInterconnectIv, SkipTo
  <2> QED BY <1>12, <2>1, <2>2 DEF SetupInterconnectIv, SteadyEnds
<1>3. CASE FinishOutputDma
  <2>1. Steady(NextProgram)
    BY <1>3, OutputsSteady
  <2>2. \E stores : WriteThen(stores, NextProgram)
    BY <1>3 DEF FinishOutputDma
  <2> QED BY <1>3, <2>1, <2>2, SteadySteps DEF FinishOutputDma, deployerVars
<1>4. CASE SetupCore
  <2>1. Steady(NextProgram)
    BY <1>4, ProgramSteady DEF SetupCore, At
  <2>2. \E stores : WriteThen(stores, NextProgram)
    BY <1>4 DEF SetupCore
  <2> QED BY <1>4, <2>1, <2>2, SteadySteps DEF SetupCore, deployerVars
<1>5. CASE SetupMemory
  <2>1. Steady(NextProgram) /\ Steady([pc EXCEPT !.j = @ + 1])
    BY <1>5, ProgramSteady, LoopSteady DEF SetupMemory, At
  <2>2. SkipTo(NextProgram) \/ \E stores : WriteThen(stores, [pc EXCEPT !.j = @ + 1])
    BY <1>5 DEF SetupMemory
  <2> QED BY <1>5, <2>1, <2>2, SteadySteps DEF SetupMemory, deployerVars
<1>6. CASE FinishInput
  <2>1. PICK m : m = IF IsConstant(CoreInputs[pc.j]) THEN pc.n + 1 ELSE pc.n
    OBVIOUS
  <2>2. PICK next : next = [pc EXCEPT !.j = @ + 1, !.k = 0, !.n = m]
    OBVIOUS
  <2>3. SkipTo(next)
    BY <1>6, <2>1, <2>2 DEF FinishInput
  <2>4. pc = [phase |-> pc.phase, cmd |-> pc.cmd, spec |-> pc.spec, i |-> pc.i, j |-> pc.j,
              k |-> pc.k, n |-> pc.n]
    BY DEF Running, RunningPc
  <2>5. /\ next.spec = pc.spec /\ next.phase = pc.phase
        /\ next.i = pc.i /\ next.j = pc.j + 1 /\ next.k = 0
    BY <2>2, <2>4
  <2>6. pc.phase = "inputs"
    BY <1>6 DEF FinishInput, At
  <2>7. Steady(next)
    BY <1>6, <2>5, <2>6, InputsSteady
  <2> QED BY <1>6, <2>3, <2>7, SteadySteps DEF FinishInput, deployerVars
<1>7. CASE FinishCoreInputs
  <2>1. PICK next : next = NextProgram
    OBVIOUS
  <2>2. pc.phase = "inputs"
    BY <1>7 DEF FinishCoreInputs, At
  <2>3. /\ next.spec = pc.spec /\ next.phase = "inputs"
        /\ next.i = pc.i + 1 /\ next.j = 1 /\ next.k = 0
    BY <2>1, <2>2 DEF NextProgram, AtProgram
  <2>4. Steady(next)
    BY <1>7, <2>3, InputsSteady
  <2>5. SkipTo(next) \/ \E stores : WriteThen(stores, next)
    BY <1>7, <2>1 DEF FinishCoreInputs
  <2> QED BY <1>7, <2>4, <2>5, SteadySteps DEF FinishCoreInputs, deployerVars
<1>8. CASE SetupSequencer
  <2>1. Steady(NextPhase)
    BY <1>8, PhaseSteady DEF SetupSequencer, At
  <2>2. \E stores : WriteThen(stores, NextPhase)
    BY <1>8 DEF SetupSequencer
  <2> QED BY <1>8, <2>1, <2>2, SteadySteps DEF SetupSequencer, deployerVars
<1>9. CASE EndOfLoop
  <2>1. Steady(NextPhase)
    BY <1>9, PhaseSteady DEF EndOfLoop
  <2>2. SkipTo(NextPhase)
    BY <1>9 DEF EndOfLoop
  <2> QED BY <1>9, <2>1, <2>2, SteadySteps DEF EndOfLoop, deployerVars
<1> QED BY <1>1, <1>2, <1>3, <1>4, <1>5, <1>6, <1>7, <1>8, <1>9, <1>10, <1>11, <1>12

\* setup_output_entry labels the address of a slot that leaves from its core.
LEMMA SetupOutputEntryLabels ==
  ASSUME Deploying, Running, LabelsAt(pc), SetupOutputEntry
  PROVE  pc' = Idle \/ LabelsAt(pc)'
<1> DEFINE s == pc.spec
           e == Slots(s)[pc.j]
<1>1. /\ pc.phase = "output_dma" /\ InProgram /\ pc.j <= Len(Slots(s)) /\ bus_map = Slots(s)
      /\ UNCHANGED <<addresses, inputs_labels>>
  BY DEF SetupOutputEntry, At, Deploying, Prepared
<1>2. /\ s \in Specs /\ pc.i \in DOMAIN ProgramSeq(s) /\ P = ProgramSeq(s)[pc.i]
      /\ pc.i \in Nat /\ pc.j \in Nat \ {0} /\ pc.n \in Nat
  BY <1>1, AtProgramOfSpec
<1>3. /\ DOMAIN ProgramSeq(s) \subseteq Nat
      /\ DOMAIN Slots(s) = 1 .. Len(Slots(s)) /\ Len(Slots(s)) \in Nat
  BY <1>2, SpecSequences
<1>4. pc.j \in DOMAIN Slots(s)
  BY <1>1, <1>2, <1>3
<1>5. pc = [phase |-> pc.phase, cmd |-> pc.cmd, spec |-> pc.spec, i |-> pc.i, j |-> pc.j,
            k |-> pc.k, n |-> pc.n]
  BY DEF Running, RunningPc
<1>6. ASSUME NEW next, next.spec = s, next.phase = pc.phase, next.i = pc.i, next.j = pc.j + 1
      PROVE  /\ \A i \in DOMAIN ProgramSeq(s) : \A j \in DOMAIN Slots(s) :
                  SlotBehind(next, i, j) <=> SlotBehind(pc, i, j) \/ (i = pc.i /\ j = pc.j)
             /\ \A u : ~ Behind(next, u) /\ ~ Behind(pc, u)
  <2>1. \A i \in DOMAIN ProgramSeq(s) : \A j \in DOMAIN Slots(s) :
          j < pc.j + 1 <=> j < pc.j \/ j = pc.j
    BY <1>2, <1>3
  <2>2. \A i \in DOMAIN ProgramSeq(s) : \A j \in DOMAIN Slots(s) :
          SlotBehind(next, i, j) <=> SlotBehind(pc, i, j) \/ (i = pc.i /\ j = pc.j)
    BY <1>1, <1>6, <2>1 DEF SlotBehind, Passed, AfterDma
  <2>3. \A u : ~ Behind(next, u) /\ ~ Behind(pc, u)
    BY <1>1, <1>6 DEF Behind, AfterInputs
  <2> QED BY <2>2, <2>3
<1>7. CASE e.source_id # P.name
  <2>1. PICK next : next = [pc EXCEPT !.j = @ + 1]
    OBVIOUS
  <2>2. next.spec = s /\ next.phase = pc.phase /\ next.i = pc.i /\ next.j = pc.j + 1
    BY <1>5, <2>1
  <2>3. pc' = next /\ UNCHANGED bus_labels
    BY <1>1, <1>7, <2>1 DEF SetupOutputEntry, SkipTo
  <2>4. \A i \in DOMAIN ProgramSeq(s) : \A j \in SlotsOf(s, ProgramSeq(s)[i]) :
          j \in DOMAIN Slots(s) /\ ~(i = pc.i /\ j = pc.j)
    BY <1>2, <1>7 DEF SlotsOf
  <2>5. Steady(next)
    <3>1. /\ \A i \in DOMAIN ProgramSeq(s) : \A j \in DOMAIN Slots(s) :
                  SlotBehind(next, i, j) <=> SlotBehind(pc, i, j) \/ (i = pc.i /\ j = pc.j)
          /\ \A u : ~ Behind(next, u) /\ ~ Behind(pc, u)
      BY <1>6, <2>2
    <3> QED BY <2>2, <2>4, <3>1 DEF Steady
  <2> QED BY <1>1, <2>3, <2>5, LabelsKept
<1>8. CASE e.source_id = P.name /\ pc' # Idle
  <2>1. PICK next : next = [pc EXCEPT !.j = @ + 1, !.n = @ + 1]
    OBVIOUS
  <2>2. next.spec = s /\ next.phase = pc.phase /\ next.i = pc.i /\ next.j = pc.j + 1
    BY <1>5, <2>1
  <2>3. PICK label : /\ \E stores : WriteThen(stores, next)
                     /\ bus_labels' = Labelled(bus_labels, SlotAddress(e), label)
    <3>1. ~ Throw
      BY <1>8 DEF Throw
    <3>2. PICK l : l = SlotLabel(e, P.n_channels)
      OBVIOUS
    <3>3. bus_labels' = Labelled(bus_labels, SlotAddress(e), l)
      BY <1>1, <1>8, <3>1, <3>2 DEF SetupOutputEntry, SlotAddress
    <3>4. \E stores : WriteThen(stores, next)
      BY <1>1, <1>8, <2>1, <3>1 DEF SetupOutputEntry
    <3> QED BY <3>3, <3>4
  <2>4. pc' = next
    BY <1>8, <2>3 DEF WriteThen
  <2>5. /\ \A i \in DOMAIN ProgramSeq(s) : \A j \in DOMAIN Slots(s) :
             SlotBehind(next, i, j) <=> SlotBehind(pc, i, j) \/ (i = pc.i /\ j = pc.j)
        /\ \A u : ~ Behind(next, u) /\ ~ Behind(pc, u)
    BY <1>6, <2>2
  <2>6. pc.j \in SlotsOf(s, ProgramSeq(s)[pc.i])
    BY <1>2, <1>4, <1>8 DEF SlotsOf
  <2>7. \A i : SlotsOf(s, ProgramSeq(s)[i]) \subseteq DOMAIN Slots(s)
    BY DEF SlotsOf
  <2>8. \A a : Carried(next, a) <=> Carried(pc, a) \/ a = SlotAddress(e)
    <3>1. ASSUME NEW a, Carried(next, a) PROVE Carried(pc, a) \/ a = SlotAddress(e)
      <4>1. PICK i \in DOMAIN ProgramSeq(s) : \E j \in SlotsOf(s, ProgramSeq(s)[i]) :
              a = SlotAddress(Slots(s)[j]) /\ SlotBehind(next, i, j)
        BY <2>2, <3>1 DEF Carried
      <4>2. PICK j \in SlotsOf(s, ProgramSeq(s)[i]) :
              a = SlotAddress(Slots(s)[j]) /\ SlotBehind(next, i, j)
        BY <4>1
      <4>3. SlotBehind(pc, i, j) \/ j = pc.j
        BY <2>5, <2>7, <4>2
      <4> QED BY <4>2, <4>3 DEF Carried
    <3>2. ASSUME NEW a, Carried(pc, a) PROVE Carried(next, a)
      <4>1. PICK i \in DOMAIN ProgramSeq(s) : \E j \in SlotsOf(s, ProgramSeq(s)[i]) :
              a = SlotAddress(Slots(s)[j]) /\ SlotBehind(pc, i, j)
        BY <3>2 DEF Carried
      <4>2. PICK j \in SlotsOf(s, ProgramSeq(s)[i]) :
              a = SlotAddress(Slots(s)[j]) /\ SlotBehind(pc, i, j)
        BY <4>1
      <4>3. SlotBehind(next, i, j)
        BY <2>5, <2>7, <4>2
      <4> QED BY <2>2, <4>2, <4>3 DEF Carried
    <3>3. Carried(next, SlotAddress(e))
      <4>1. SlotBehind(next, pc.i, pc.j)
        BY <1>2, <1>4, <2>5
      <4> QED BY <1>2, <2>2, <2>6, <4>1 DEF Carried
    <3> QED BY <3>1, <3>2, <3>3
  <2>9. \A a : ~ Generated(next, a) /\ ~ Generated(pc, a)
    BY <2>5 DEF Generated
  <2> HIDE DEF e, s
  <2>10. /\ \A a : Carried(next, a) \/ Generated(next, a)
                     <=> Carried(pc, a) \/ Generated(pc, a) \/ a = SlotAddress(e)
         /\ \A u \in ConstantUses(pc.spec) : Behind(next, u) <=> Behind(pc, u)
    BY <2>5, <2>8, <2>9
  <2>11. next.spec = pc.spec /\ UNCHANGED <<addresses, inputs_labels>>
    BY <1>1, <2>2 DEF s
  <2> QED BY <2>3, <2>4, <2>10, <2>11, AddressLabelled
<1> QED BY <1>7, <1>8

\* setup_input labels the use it sets up.
LEMMA SetupInputLabels ==
  ASSUME NamesApart, Deploying, Running, LabelsAt(pc), SetupInput
  PROVE  pc' = Idle \/ LabelsAt(pc)'
<1> DEFINE s == pc.spec
           in == CoreInputs[pc.j]
           u == Here(pc)
<1> SUFFICES ASSUME pc' # Idle PROVE LabelsAt(pc)'
  OBVIOUS
<1>1. /\ pc.phase = "inputs" /\ InProgram /\ pc.j <= Len(CoreInputs)
      /\ pc.k < InputChannels(P, in) /\ UNCHANGED addresses
  BY DEF SetupInput, At
<1>2. /\ u \in Uses(s) /\ UsedInput(s, u) = in /\ UseDest(s, u) = InputDest(in, pc.k)
      /\ UseEngine(s, u) = ConstEngine(P) /\ UseSelector(s, u) = pc.n + BusShift * pc.k
      /\ u[1] = pc.i /\ u[3] = pc.k
  BY <1>1, UseAtHere DEF Here
<1>3. /\ s \in Specs /\ pc.i \in DOMAIN ProgramSeq(s) /\ P = ProgramSeq(s)[pc.i]
      /\ CoreInputs = InputsAt(s, pc.i) /\ pc.j \in Nat \ {0}
      /\ pc.i \in Nat /\ pc.k \in Nat
  BY <1>1, AtProgramOfSpec
<1>4. PICK next : next = [pc EXCEPT !.k = @ + 1]
  OBVIOUS
<1>5. /\ next.spec = s /\ next.phase = "inputs" /\ next.i = pc.i /\ next.j = pc.j /\ next.k = pc.k + 1
  <2>1. pc = [phase |-> pc.phase, cmd |-> pc.cmd, spec |-> pc.spec, i |-> pc.i, j |-> pc.j,
              k |-> pc.k, n |-> pc.n]
    BY DEF Running, RunningPc
  <2> QED BY <1>1, <1>4, <2>1
<1>6. pc.j \in DOMAIN InputsAt(s, pc.i)
  <2>1. DOMAIN InputsAt(s, pc.i) = 1 .. Len(InputsAt(s, pc.i)) /\ Len(InputsAt(s, pc.i)) \in Nat
    BY <1>3, SpecSequences
  <2> QED BY <1>1, <1>3, <2>1
<1>7. \A v \in Uses(s) : Behind(next, v) <=> Behind(pc, v) \/ v = u
  <2>1. SUFFICES ASSUME NEW v \in Uses(s) PROVE Behind(next, v) <=> Behind(pc, v) \/ v = u
    OBVIOUS
  <2>2. Before(v, <<pc.i, pc.j, pc.k + 1>>) <=> Before(v, <<pc.i, pc.j, pc.k>>) \/ v = <<pc.i, pc.j, pc.k>>
    BY <1>1, <1>3, <1>6, BeforeSteps
  <2> QED BY <1>1, <1>5, <2>2 DEF Behind, Here, AfterInputs
<1>8. \A a : Carried(next, a) <=> Carried(pc, a)
  <2>1. \A i, j : SlotBehind(next, i, j) /\ SlotBehind(pc, i, j)
    BY <1>1, <1>5 DEF SlotBehind, Passed, AfterDma
  <2> QED BY <1>5, <2>1 DEF Carried
<1>9. CASE IsConstant(in)
  <2>1. ~ IsGenerated(in) /\ in.source_type # "random" /\ in.source_type # "waveform"
    BY <1>9 DEF IsConstant, IsGenerated
  <2>2. /\ \E stores : WriteThen(stores, next)
        /\ inputs_labels' = Labelled(inputs_labels, SignalPath(P, in, pc.k),
                                     <<ConstEngine(P), InputDest(in, pc.k), pc.n + BusShift * pc.k, P.index>>)
        /\ UNCHANGED bus_labels
    BY <1>4, <1>9, <2>1 DEF SetupInput, setup_constant
  <2>3. pc' = next
    BY <2>2 DEF WriteThen
  <2>4. /\ SignalPath(P, in, pc.k) = PathOf(s, u)
        /\ <<ConstEngine(P), InputDest(in, pc.k), pc.n + BusShift * pc.k, P.index>> = SourceOf(s, u)
    BY <1>2, <1>3 DEF PathOf, SourceOf
  <2>5. u \in ConstantUses(s)
    BY <1>2, <1>9 DEF ConstantUses
  <2>6. \A a : Generated(next, a) <=> Generated(pc, a)
    <3>1. ~ IsGenerated(UsedInput(s, u))
      BY <1>2, <2>1
    <3> QED BY <1>5, <1>7, <3>1 DEF Generated
  <2>7. \A v \in ConstantUses(s) : Behind(next, v) <=> Behind(pc, v) \/ v = u
    BY <1>7 DEF ConstantUses
  <2>8. \A a : Carried(next, a) \/ Generated(next, a) <=> Carried(pc, a) \/ Generated(pc, a)
    BY <1>8, <2>6
  <2> HIDE DEF u, in
  <2> QED BY <1>1, <1>3, <1>5, <2>2, <2>3, <2>4, <2>5, <2>7, <2>8, ConstantLabelled
<1>10. CASE IsGenerated(in)
  <2>1. ~ IsConstant(in)
    BY <1>10 DEF IsConstant, IsGenerated
  <2>2. PICK label : label = SignalPath(P, in, pc.k)
    OBVIOUS
  <2>3. /\ pc' = next \/ Throw
        /\ bus_labels' = Labelled(bus_labels, UseDest(s, u), label)
        /\ UNCHANGED inputs_labels
    <3>1. CASE in.source_type = "random"
      <4>1. setup_random(in, pc.k, next)
        BY <1>4, <2>1, <3>1 DEF SetupInput, IsGenerated
      <4> QED BY <1>2, <2>2, <4>1 DEF setup_random, WriteThen
    <3>2. CASE in.source_type = "waveform"
      <4>1. setup_waveform(in, pc.k, next)
        BY <1>4, <2>1, <3>2 DEF SetupInput, IsGenerated
      <4> QED BY <1>2, <2>2, <4>1, Zenon DEF setup_waveform, WriteThen
    <3> QED BY <1>10, <3>1, <3>2 DEF IsGenerated
  <2>4. pc' = next
    BY <2>3 DEF Throw
  <2>5. \A a : Generated(next, a) <=> Generated(pc, a) \/ a = UseDest(s, u)
    <3>1. IsGenerated(UsedInput(s, u)) /\ u \in Uses(s)
      BY <1>2, <1>10
    <3> HIDE DEF u
    <3> QED BY <1>5, <1>7, <3>1 DEF Generated
  <2>6. \A v \in ConstantUses(s) : Behind(next, v) <=> Behind(pc, v)
    <3>1. \A v \in ConstantUses(s) : v \in Uses(s) /\ v # u
      BY <1>2, <2>1 DEF ConstantUses
    <3> QED BY <1>7, <3>1
  <2>7. \A a : Carried(next, a) \/ Generated(next, a)
                 <=> Carried(pc, a) \/ Generated(pc, a) \/ a = UseDest(s, u)
    BY <1>8, <2>5
  <2> HIDE DEF u
  <2> QED BY <1>1, <1>5, <2>3, <2>4, <2>6, <2>7, AddressLabelled
<1>11. CASE ~ IsConstant(in) /\ ~ IsGenerated(in)
  <2>1. in.source_type # "random" /\ in.source_type # "waveform"
    BY <1>11 DEF IsGenerated
  <2>2. pc' = next /\ UNCHANGED <<bus_labels, inputs_labels>>
    BY <1>4, <1>11, <2>1 DEF SetupInput, SkipTo
  <2>3. \A a : Generated(next, a) <=> Generated(pc, a)
    <3>1. ~ IsGenerated(UsedInput(s, u))
      BY <1>2, <1>11
    <3> QED BY <1>5, <1>7, <3>1 DEF Generated
  <2>4. \A v \in ConstantUses(s) : Behind(next, v) <=> Behind(pc, v)
    <3>1. \A v \in ConstantUses(s) : v \in Uses(s) /\ v # u
      BY <1>2, <1>11 DEF ConstantUses
    <3> QED BY <1>7, <3>1
  <2>5. PICK c : c = next
    OBVIOUS
  <2>6. LabelsAt(c)
    BY <1>5, <1>8, <2>3, <2>4, <2>5 DEF LabelsAt
  <2>7. LabelsAt(c)'
    BY <1>1, <2>2, <2>6, LabelsNow DEF LabelsAt
  <2> QED BY <2>2, <2>5, <2>7
<1> QED BY <1>9, <1>10, <1>11

\* At the end the labels are those of the whole specification.
LEMMA FinishSimulationLabels ==
  ASSUME Deploying, Running, LabelsAt(pc), FinishSimulation
  PROVE  SimulationTablesAreSpecification'
<1>1. /\ pc.phase = "finish" /\ UNCHANGED <<addresses, bus_labels, inputs_labels>>
      /\ reply'.kind = "simulated" /\ reply'.spec = pc.spec
      /\ reply'.data.outputs = bus_labels /\ reply'.data.inputs = inputs_labels
  BY DEF FinishSimulation, At, deployerVars, Reply, SimData
<1>2. PICK s : s = pc.spec
  OBVIOUS
<1> DEFINE carried == {Slots(s)[j].destination_bus + BusShift * Slots(s)[j].destination_channel
                         : j \in UNION {SlotsOf(s, p) : p \in ProgramsOf(s)}}
           generated == {UseDest(s, u) : u \in UsesOf(s, "random") \union UsesOf(s, "waveform")}
           sources == {<<UseEngine(s, u), UseDest(s, u), UseSelector(s, u), ProgramSeq(s)[u[1]].index>>
                         : u \in ConstantUses(s)}
<1>3. s \in Specs
  BY <1>2, AtProgramOfSpec
<1>4. (\A i, j : SlotBehind(pc, i, j)) /\ (\A u : Behind(pc, u))
  BY <1>1 DEF SlotBehind, Passed, Behind, AfterDma, AfterInputs
<1>5. \A a : a \in carried <=> Carried(pc, a)
  <2>1. ASSUME NEW a, a \in carried PROVE Carried(pc, a)
    <3>1. PICK p \in ProgramsOf(s) : \E j \in SlotsOf(s, p) : a = SlotAddress(Slots(s)[j])
      BY <2>1 DEF SlotAddress
    <3>2. PICK i \in DOMAIN ProgramSeq(s) : p = ProgramSeq(s)[i]
      BY DEF ProgramsOf, Range
    <3> QED BY <1>2, <1>4, <3>1, <3>2 DEF Carried
  <2>2. ASSUME NEW a, Carried(pc, a) PROVE a \in carried
    <3>1. PICK i \in DOMAIN ProgramSeq(s) :
            \E j \in SlotsOf(s, ProgramSeq(s)[i]) : a = SlotAddress(Slots(s)[j])
      BY <1>2, <2>2 DEF Carried
    <3>2. ProgramSeq(s)[i] \in ProgramsOf(s)
      BY DEF ProgramsOf, Range
    <3> QED BY <3>1, <3>2 DEF SlotAddress
  <2> QED BY <2>1, <2>2
<1>6. \A a : a \in generated <=> Generated(pc, a)
  <2>1. \A u : u \in UsesOf(s, "random") \union UsesOf(s, "waveform")
                 <=> u \in Uses(s) /\ IsGenerated(UsedInput(s, u))
    BY DEF UsesOf, IsGenerated
  <2> QED BY <1>2, <1>4, <2>1 DEF Generated
<1>7. \A x : x \in sources <=> \E u \in ConstantUses(s) : x = SourceOf(s, u)
  BY DEF SourceOf
<1>8. Range(inputs_labels) = sources
  <2>1. /\ \A x : x \in DOMAIN inputs_labels <=> \E u \in ConstantUses(s) : x = PathOf(s, u)
        /\ \A u \in ConstantUses(s) : inputs_labels[PathOf(s, u)] = SourceOf(s, u)
    BY <1>2, <1>4 DEF LabelsAt
  <2>2. \A y : y \in Range(inputs_labels) <=> \E x \in DOMAIN inputs_labels : y = inputs_labels[x]
    BY DEF Range
  <2> HIDE DEF sources
  <2> QED BY <1>7, <2>1, <2>2
<1>9. DOMAIN bus_labels = carried \union generated
  <2>1. \A a : a \in DOMAIN bus_labels <=> Carried(pc, a) \/ Generated(pc, a)
    BY DEF LabelsAt
  <2> HIDE DEF carried, generated
  <2> QED BY <1>5, <1>6, <2>1
<1>10. \A u : UseEngine(s, u)' = UseEngine(s, u)
  BY <1>1 DEF UseEngine, ConstEngine, CoreControl, Bases, Offsets
<1>11. sources' = sources
  BY <1>10
<1>12. carried' = carried /\ generated' = generated
  OBVIOUS
<1>13. /\ DOMAIN reply'.data.outputs = carried' \union generated'
       /\ Range(reply'.data.inputs) = sources'
  BY <1>1, <1>8, <1>9, <1>11, <1>12
<1> QED BY <1>1, <1>2, <1>13 DEF SimulationTablesAreSpecification

\* What a simulation was answered stays what its specification calls for under the
\* same address map.
LEMMA AnswerKept ==
  ASSUME SimulationTablesAreSpecification, UNCHANGED <<addresses, reply>>
  PROVE  SimulationTablesAreSpecification'
<1>1. PICK s : s = reply.spec
  OBVIOUS
<1>2. \A u : UseEngine(s, u)' = UseEngine(s, u)
  BY DEF UseEngine, ConstEngine, CoreControl, Bases, Offsets
<1> DEFINE sources == {<<UseEngine(s, u), UseDest(s, u), UseSelector(s, u), ProgramSeq(s)[u[1]].index>>
                         : u \in ConstantUses(s)}
<1>3. sources' = sources
  BY <1>2
<1> QED BY <1>1, <1>3 DEF SimulationTablesAreSpecification

\* A step of deploy() that is not its end answers no simulation.
LEMMA StepAnswersNothing ==
  ASSUME Deploying, Running, DeployStep, ~ FinishSimulation
  PROVE  reply'.kind # "simulated"
<1>1. reply.kind = "none"
  BY DEF Deploying, NoReply, Reply
<1>2. \/ UNCHANGED reply
      \/ \E s, data : \E kind \in {"died", "deployment_error", "deployed"} :
           reply' = Reply(kind, s, data)
  <2>0. /\ \A stores, next : WriteThen(stores, next) =>
              UNCHANGED reply \/ reply' = Reply("died", pc.spec, <<>>)
        /\ Throw => \/ reply' = Reply("died", pc.spec, <<>>)
                    \/ reply' = Reply("deployment_error", pc.spec, <<>>)
    BY Zenon DEF WriteThen, Throw
  <2>1. CASE LoadCore
    BY <2>1 DEF LoadCore, LoadThen
  <2>2. CASE ComputeTimebase \/ RaiseTimebaseDivider \/ NextDivider \/ SetupInterconnectIv
    BY <2>2 DEF ComputeTimebase, RaiseTimebaseDivider, NextDivider, SetupInterconnectIv, SkipTo
  <2>3. CASE SetupOutputEntry
    BY <2>0, <2>3 DEF SetupOutputEntry, SkipTo
  <2>4. CASE FinishOutputDma \/ SetupMemory \/ FinishCoreInputs \/ SetupSequencer \/ SetupCore
    BY <2>4 DEF FinishOutputDma, SetupMemory, FinishCoreInputs, SetupSequencer, SetupCore,
                SkipTo, WriteThen
  <2>5. CASE SetupInput
    BY <2>0, <2>5 DEF SetupInput, setup_constant, setup_random, setup_waveform, SkipTo
  <2>6. CASE FinishInput \/ EndOfLoop
    BY <2>6 DEF FinishInput, EndOfLoop, SkipTo
  <2>7. CASE FinishDeploy
    BY <2>7 DEF FinishDeploy
  <2> QED BY <2>1, <2>2, <2>3, <2>4, <2>5, <2>6, <2>7 DEF DeployStep
<1> QED BY <1>1, <1>2 DEF Reply

\* A step of deploy().
LEMMA DeployStepLabels ==
  ASSUME NamesApart, Deploying, Running, LabelsFollow, DeployStep
  PROVE  LabelsFollow'
<1>1. LabelsAt(pc)
  BY PhaseNames DEF LabelsFollow, Running, RunningPc
<1>2. CASE FinishDeploy \/ FinishSimulation
  <2>1. pc' = Idle
    BY <1>2 DEF FinishDeploy, FinishSimulation
  <2>2. SimulationTablesAreSpecification'
    <3>1. CASE FinishSimulation
      BY <1>1, <3>1, FinishSimulationLabels
    <3>2. CASE ~ FinishSimulation
      BY <3>2, StepAnswersNothing DEF SimulationTablesAreSpecification
    <3> QED BY <3>1, <3>2
  <2> QED BY <2>1, <2>2, IdleIsNotRunning DEF LabelsFollow, Idle
<1>3. CASE ~ (FinishDeploy \/ FinishSimulation)
  <2>1. pc' = Idle \/ LabelsAt(pc)'
    <3>1. CASE SetupOutputEntry
      BY <1>1, <3>1, SetupOutputEntryLabels
    <3>2. CASE SetupInput
      BY <1>1, <3>2, SetupInputLabels
    <3>3. CASE \/ LoadCore \/ ComputeTimebase \/ RaiseTimebaseDivider \/ NextDivider
               \/ SetupInterconnectIv \/ FinishOutputDma \/ SetupMemory \/ FinishInput
               \/ FinishCoreInputs \/ SetupSequencer \/ SetupCore \/ EndOfLoop
      <4>1. SteadyEnds /\ UNCHANGED <<addresses, bus_labels, inputs_labels>>
        BY <3>3, StepIsSteady
      <4> QED BY <1>1, <4>1, LabelsKept DEF SteadyEnds
    <3> QED BY <1>3, <3>1, <3>2, <3>3 DEF DeployStep
  <2>2. SimulationTablesAreSpecification'
    BY <1>3, StepAnswersNothing DEF SimulationTablesAreSpecification
  <2>3. pc' = Idle => pc'.phase = "idle"
    BY DEF Idle
  <2> QED BY <2>1, <2>2, <2>3 DEF LabelsFollow
<1> QED BY <1>2, <1>3

\* deploy() begins with no labels, or is refused.
LEMMA PrologueLabels ==
  ASSUME NEW cmd, NEW s \in Specs, Prologue(cmd, s)
  PROVE  LabelsFollow'
<1>1. reply'.kind # "simulated"
  <2>1. \/ reply' = NoReply
        \/ reply' = Reply("deployment_error", s, <<>>)
        \/ reply' = Reply("died", s, <<>>)
    BY Zenon DEF Prologue
  <2> QED BY <2>1 DEF NoReply, Reply
<1>2. pc' = [Idle EXCEPT !.phase = Phases[1], !.cmd = cmd, !.spec = s] \/ pc' = Idle
  BY Zenon DEF Prologue
<1>3. bus_labels' = <<>> /\ inputs_labels' = <<>> /\ UNCHANGED addresses
  BY DEF Prologue, clear_labels
<1>4. CASE pc' = [Idle EXCEPT !.phase = Phases[1], !.cmd = cmd, !.spec = s]
  <2>1. PICK c : c = pc'
    OBVIOUS
  <2>2. c.phase = "load_cores"
    BY <1>4, <2>1 DEF Idle, Phases
  <2>3. /\ \A i, j : ~ SlotBehind(c, i, j)
        /\ \A u : ~ Behind(c, u)
    BY <2>2 DEF SlotBehind, Passed, Behind, AfterDma, AfterInputs
  <2>4. DOMAIN bus_labels' = {} /\ DOMAIN inputs_labels' = {}
    BY <1>3
  <2>5. LabelsAt(c)'
    <3>1. \A a : ~ Carried(c, a) /\ ~ Generated(c, a)
      BY <2>3 DEF Carried, Generated
    <3>2. /\ \A a : a \in DOMAIN bus_labels' <=> Carried(c, a) \/ Generated(c, a)
          /\ \A x : x \in DOMAIN inputs_labels'
                  <=> \E u \in ConstantUses(c.spec) : Behind(c, u) /\ x = PathOf(c.spec, u)
          /\ \A u \in ConstantUses(c.spec) :
               Behind(c, u) => inputs_labels'[PathOf(c.spec, u)] = SourceOf(c.spec, u)
      BY <2>3, <2>4, <3>1
    <3> QED BY <1>3, <3>2, LabelsNow
  <2> QED BY <1>1, <2>1, <2>5 DEF LabelsFollow, SimulationTablesAreSpecification
<1>5. CASE pc' = Idle
  BY <1>1, <1>5 DEF LabelsFollow, SimulationTablesAreSpecification, Idle
<1> QED BY <1>2, <1>4, <1>5

\* The labels are followed beside the log, which says what deploy() has behind it.
LabelsInvariant == LogInvariant /\ LabelsFollow

\* A driver that has started has answered nothing.
LEMMA LabelsInit == Init => LabelsInvariant
<1>1. Init => LabelsFollow
  BY DEF Init, Idle, NoReply, Reply, LabelsFollow, SimulationTablesAreSpecification
<1> QED BY <1>1, LogInit DEF LabelsInvariant

\* Every step keeps the labels those of what deploy() has behind it, and an answer
\* right until the next.
LEMMA LabelsNext ==
  ASSUME AddressesFit, NamesApart, LabelsInvariant, [Next]_vars
  PROVE  LabelsInvariant'
<1>1. LogInvariant'
  BY LogNext DEF LabelsInvariant
<1> SUFFICES LabelsFollow'
  BY <1>1 DEF LabelsInvariant
<1>2. /\ LabelsFollow /\ LogInvariant /\ LogPart /\ Bracket
      /\ pc.phase = "idle" => pc = Idle
  BY IdleOrRunning DEF LabelsInvariant, LogInvariant
<1>3. CASE DeployHil \/ HilHardwareSim
  <2>1. PICK s \in Specs : process_deploy_hil(s) \/ SimulateDeployed(s) \/ SimulateAnew(s)
    BY <1>3 DEF DeployHil, HilHardwareSim
  <2>2. pc = Idle
    BY <1>2, <1>3 DEF DeployHil, HilHardwareSim, At
  <2>3. CASE SimulateDeployed(s)
    <3>1. pc' = Idle /\ reply'.kind = "simulated_deployed"
      BY <2>2, <2>3 DEF SimulateDeployed, Reply
    <3> QED BY <3>1 DEF LabelsFollow, SimulationTablesAreSpecification, Idle
  <2>4. CASE process_deploy_hil(s) \/ SimulateAnew(s)
    BY <2>4, PrologueLabels DEF process_deploy_hil, SimulateAnew
  <2> QED BY <2>1, <2>3, <2>4
<1>4. CASE DeployStep
  <2>1. Deploying /\ Running
    BY <1>2, <1>4, PhaseNames, IdleOrRunning
    DEF LogPart, DeployStep, LoadCore, ComputeTimebase, RaiseTimebaseDivider, NextDivider,
        SetupInterconnectIv, SetupOutputEntry,
        FinishOutputDma, SetupMemory, SetupInput, FinishInput, FinishCoreInputs, SetupSequencer,
        SetupCore, EndOfLoop, FinishDeploy, FinishSimulation, At, Idle
  <2> QED BY <1>2, <1>4, <2>1, DeployStepLabels
<1>5. CASE HilStart \/ HilStop \/ HilSelectOut \/ HilSetIn
  <2>1. pc = Idle /\ pc' = pc
    BY <1>2, <1>5 DEF HilStart, HilStop, HilSelectOut, HilSetIn, CanServe, At, Command,
                      select_output, set_input
  <2>2. \/ reply' = NoReply
        \/ reply' = Reply("died", NoSpec, <<>>)
    <3>1. \A stores : Command(stores) => reply' = NoReply \/ reply' = Reply("died", NoSpec, <<>>)
      BY Zenon DEF Command
    <3> QED BY <1>5, <3>1 DEF HilStart, HilStop, HilSelectOut, HilSetIn, select_output, set_input
  <2>3. reply'.kind # "simulated"
    BY <2>2 DEF NoReply, Reply
  <2> QED BY <2>1, <2>3 DEF LabelsFollow, SimulationTablesAreSpecification, Idle
<1>6. CASE LoadBitstream \/ GetAddressMap \/ GetSamplingFrequency \/ Terminate
             \/ SetAddressMap \/ Relaunch
  <2>1. pc' = Idle
    BY <1>2, <1>6
    DEF LoadBitstream, GetAddressMap, GetSamplingFrequency, Answer, CanServe, At, Terminate,
        SetAddressMap, Relaunch
  <2>2. reply'.kind \in {"none", "died", "address_map", "sampling_frequency"}
    BY <1>6
    DEF LoadBitstream, GetAddressMap, GetSamplingFrequency, Answer, Terminate, SetAddressMap,
        Relaunch, NoReply, Reply
  <2> QED BY <2>1, <2>2 DEF LabelsFollow, SimulationTablesAreSpecification, Idle
<1>7. CASE UNCHANGED vars
  <2>1. UNCHANGED <<pc, reply, addresses, bus_labels, inputs_labels>>
    BY <1>7 DEF vars, deployerVars
  <2>2. SimulationTablesAreSpecification'
    BY <1>2, <2>1, AnswerKept DEF LabelsFollow
  <2>3. ASSUME LabelsAt(pc) PROVE LabelsAt(pc)'
    <3>1. PICK c : c = pc
      OBVIOUS
    <3>2. LabelsAt(c)'
      BY <2>1, <2>3, <3>1, LabelsNow DEF LabelsAt
    <3> QED BY <2>1, <3>1, <3>2
  <2> QED BY <1>2, <2>1, <2>2, <2>3 DEF LabelsFollow
<1> QED BY <1>3, <1>4, <1>5, <1>6, <1>7 DEF Next, ServerStep

\* The labels a simulation is answered with are built slot by slot and input by
\* input, and at each step those of what the loops have behind them.
THEOREM LabelsAreInvariant ==
  ASSUME AddressesFit, NamesApart
  PROVE  Spec => []LabelsInvariant
BY LabelsInit, LabelsNext, PTL DEF Spec

\* The tables a fresh simulation is answered with are those of its specification,
\* with nothing of an earlier one and nothing left out.
THEOREM SimulationTablesFollowSpecification ==
  ASSUME AddressesFit, NamesApart
  PROVE  Spec => []SimulationTablesAreSpecification
<1>1. LabelsInvariant => SimulationTablesAreSpecification
  BY DEF LabelsInvariant, LabelsFollow
<1> QED BY <1>1, LabelsAreInvariant, PTL

----------------------------------------------------------------------------
(* Multiples *)

\* Division with remainder.
LEMMA Division ==
  ASSUME NEW m \in Nat, NEW a \in Nat \ {0}
  PROVE  \E q \in Nat, r \in 0 .. a - 1 : m = a * q + r /\ q = m \div a /\ r = m % a
OBVIOUS

\* The multiples of a number.
LEMMA MultipleOf ==
  ASSUME NEW a \in Nat \ {0}
  PROVE  /\ \A k \in Nat : (k * a) % a = 0
         /\ \A m \in Nat : m % a = 0 => \E k \in Nat : m = k * a
<1>1. ASSUME NEW k \in Nat PROVE (k * a) % a = 0
  OBVIOUS
<1>2. ASSUME NEW m \in Nat, m % a = 0 PROVE \E k \in Nat : m = k * a
  <2>1. PICK q \in Nat, r \in Nat : r = m % a /\ m = a * q + r
    BY Division
  <2>2. m = q * a
    BY <1>2, <2>1
  <2> QED BY <2>2
<1> QED BY <1>1, <1>2

\* What is left of a multiple after taking away multiples is one.
LEMMA RemainderIsMultiple ==
  ASSUME NEW a \in Nat \ {0}, NEW n \in Nat, NEW l \in Nat \ {0}, n % a = 0, l % a = 0
  PROVE  (n % l) % a = 0
<1>1. PICK k \in Nat : n = k * a
  BY MultipleOf
<1>2. PICK j \in Nat : l = j * a
  BY MultipleOf
<1>3. PICK q \in Nat, r \in Nat : q = n \div l /\ r = n % l /\ n = l * q + r
  BY Division
<1>4. PICK z \in Int : z = k - j * q
  OBVIOUS
<1>5. r = z * a
  <2>1. r = k * a - (j * a) * q
    <3>1. n = (j * a) * q + r
      BY <1>2, <1>3
    <3>2. PICK x \in Nat, y \in Nat : x = k * a /\ y = (j * a) * q
      OBVIOUS
    <3>3. x = y + r
      BY <1>1, <3>1, <3>2
    <3> QED BY <3>2, <3>3
  <2>2. (j * a) * q = (j * q) * a
    OBVIOUS
  <2>3. k * a - (j * q) * a = (k - j * q) * a
    OBVIOUS
  <2> QED BY <1>4, <2>1, <2>2, <2>3
<1>6. z \in Nat
  <2>1. z < 0 => z * a < 0
    OBVIOUS
  <2> QED BY <1>5, <2>1
<1>7. (z * a) % a = 0
  BY <1>6, MultipleOf
<1> QED BY <1>3, <1>5, <1>7

\* Every common multiple is one of the least.
LEMMA LcmIsLeast ==
  ASSUME NEW a \in Nat, NEW b \in Nat
  PROVE  /\ Lcm(a, b) \in Nat
         /\ a = 0 \/ b = 0 => Lcm(a, b) = 0
         /\ a # 0 /\ b # 0 =>
              /\ Lcm(a, b) # 0 /\ Lcm(a, b) % a = 0 /\ Lcm(a, b) % b = 0
              /\ \A n \in Nat : n % a = 0 /\ n % b = 0 => n % Lcm(a, b) = 0
<1>1. CASE a = 0 \/ b = 0
  BY <1>1 DEF Lcm
<1>2. CASE a # 0 /\ b # 0
  <2> DEFINE S == {m \in 1 .. a * b : m % a = 0 /\ m % b = 0}
  <2>1. a * b \in Nat \ {0} /\ (b * a) % a = 0 /\ (a * b) % b = 0 /\ a * b = b * a
    BY <1>2, MultipleOf
  <2>2. a * b \in S
    BY <2>1
  <2>3. Min(S) \in S /\ \A y \in S : Min(S) <= y
    <3>1. S \in SUBSET (1 .. a * b) /\ S # {}
      BY <2>2
    <3> HIDE DEF S
    <3> QED BY <2>1, <3>1, SmallestExists
  <2>4. /\ Min(S) \in 1 .. a * b /\ Min(S) % a = 0 /\ Min(S) % b = 0
        /\ \A l \in 1 .. Min(S) - 1 : l % a # 0 \/ l % b # 0
    <3>1. Min(S) \in 1 .. a * b /\ Min(S) % a = 0 /\ Min(S) % b = 0
      BY <2>3
    <3>2. ASSUME NEW l \in 1 .. Min(S) - 1, l % a = 0, l % b = 0 PROVE FALSE
      <4>1. l \in S
        BY <2>1, <3>1, <3>2
      <4> QED BY <2>3, <3>1, <4>1
    <3> QED BY <3>1, <3>2
  <2>5. PICK l : l = Lcm(a, b)
    OBVIOUS
  <2>6. /\ l \in 1 .. a * b /\ l % a = 0 /\ l % b = 0
        /\ \A x \in 1 .. l - 1 : x % a # 0 \/ x % b # 0
    <3> HIDE DEF S
    <3> QED BY <1>2, <2>4, <2>5 DEF Lcm
  <2>7. l \in Nat \ {0}
    BY <2>1, <2>6
  <2>8. ASSUME NEW n \in Nat, n % a = 0, n % b = 0 PROVE n % l = 0
    <3>1. n % l \in 0 .. l - 1
      BY <2>7, Division
    <3>2. (n % l) % a = 0 /\ (n % l) % b = 0
      BY <1>2, <2>6, <2>7, <2>8, RemainderIsMultiple
    <3> QED BY <2>6, <2>7, <3>1, <3>2
  <2> QED BY <1>2, <2>5, <2>6, <2>7, <2>8
<1> QED BY <1>1, <1>2

----------------------------------------------------------------------------
(* The timebase *)

\* The product in std::lcm wraps to a word.
LEMMA lcmIsWord ==
  ASSUME NEW a \in Nat, NEW b \in Nat
  PROVE  /\ lcm(a, b) \in 0 .. WordModulus - 1
         /\ a = 0 \/ b = 0 => lcm(a, b) = 0
         /\ Lcm(a, b) < WordModulus => lcm(a, b) = Lcm(a, b)
<1>1. PICK l \in Nat : l = Lcm(a, b) /\ (a = 0 \/ b = 0 => l = 0)
  BY LcmIsLeast
<1>2. PICK w \in Nat \ {0} : w = WordModulus
  BY BusAssumption
<1>3. l % w \in 0 .. w - 1 /\ 0 % w = 0
  BY Division, FitsMod
<1>4. l < w => l % w = l
  BY FitsMod
<1> QED BY <1>1, <1>2, <1>3, <1>4 DEF lcm

\* The timebase is the multiples of the frequencies, taken one after the other as
\* words, in an int.
LEMMA TimebaseSteps ==
  ASSUME NEW ps, IsSequence(ps), \A i \in DOMAIN ps : ps[i].sampling_frequency \in Nat
  PROVE  \E t \in [0 .. Len(ps) -> Nat] :
           /\ t[0] = 1 /\ Timebase(ps) = Signed(t[Len(ps)])
           /\ \A i \in 1 .. Len(ps) : t[i] = lcm(t[i - 1], ps[i].sampling_frequency)
<1> DEFINE S == DOMAIN ps
           N == Len(ps)
           frequency(s) == ps[Max(s)].sampling_frequency
           h == [x \in (SUBSET S) \X Nat |-> IF x[1] = {} THEN 1 ELSE lcm(x[2], frequency(x[1]))]
           c == [s \in SUBSET S |-> Max(s)]
<1>1. N \in Nat /\ S = 1 .. N
  BY SequenceDomain
<1>2. IsFiniteSet(S)
  BY <1>1, FS_Interval
<1>3. \A s \in SUBSET S : s # {} => Max(s) \in s /\ Max(s) \in S
  BY <1>1, LargestExists
<1>4. h \in [(SUBSET S) \X Nat -> Nat]
  <2>1. ASSUME NEW s \in SUBSET S, s # {} PROVE frequency(s) \in Nat
    BY <1>3, <2>1
  <2> HIDE DEF frequency
  <2>2. ASSUME NEW s \in SUBSET S, s # {}, NEW v \in Nat PROVE lcm(v, frequency(s)) \in Nat
    <3>1. PICK f \in Nat : f = frequency(s)
      BY <2>1, <2>2
    <3>2. lcm(v, f) \in 0 .. WordModulus - 1
      BY lcmIsWord
    <3> QED BY <3>1, <3>2
  <2>3. ASSUME NEW x \in (SUBSET S) \X Nat
        PROVE  (IF x[1] = {} THEN 1 ELSE lcm(x[2], frequency(x[1]))) \in Nat
    BY <2>2
  <2> QED BY <2>3
<1>5. PICK g \in [SUBSET S -> Nat] :
        \A s \in SUBSET S : g[s] = IF s = {} THEN 1 ELSE h[<<s, g[s \ {c[s]}]>>]
  <2>1. \A s \in SUBSET S : s # {} => c[s] \in s
    BY <1>3
  <2> HIDE DEF S, c, h
  <2>2. RecursionOn(S, Nat, 1, h, c)
    BY <1>2, <1>4, <2>1 DEF RecursionOn
  <2>3. \E g \in [SUBSET S -> Nat] : Recursive(g, S, 1, h, c)
    BY <2>2, SetRecursion, Zenon
  <2> QED BY <2>3 DEF Recursive
<1>6. g = [s \in SUBSET S |-> IF s = {} THEN 1 ELSE lcm(g[s \ {Max(s)}], frequency(s))]
  <2>1. ASSUME NEW s \in SUBSET S
        PROVE  g[s] = IF s = {} THEN 1 ELSE lcm(g[s \ {Max(s)}], frequency(s))
    <3>1. CASE s = {}
      BY <1>5, <3>1
    <3>2. CASE s # {}
      <4>1. c[s] = Max(s) /\ g[s] = h[<<s, g[s \ {Max(s)}]>>]
        BY <1>5, <3>2
      <4>2. <<s, g[s \ {Max(s)}]>> \in (SUBSET S) \X Nat
        OBVIOUS
      <4> QED BY <3>2, <4>1, <4>2
    <3> QED BY <3>1, <3>2
  <2> HIDE DEF S, frequency
  <2> QED BY <2>1
<1> DEFINE f == CHOOSE f : f = [s \in SUBSET S |->
                  IF s = {} THEN 1 ELSE lcm(f[s \ {Max(s)}], ps[Max(s)].sampling_frequency)]
<1>7. f = [s \in SUBSET S |-> IF s = {} THEN 1 ELSE lcm(f[s \ {Max(s)}], frequency(s))]
  BY <1>6
<1>8. Timebase(ps) = Signed(f[S])
  BY DEF Timebase, FoldLeft, MapThenFoldSet
<1> HIDE DEF f
<1>9. /\ f[{}] = 1
      /\ \A i \in 1 .. N : f[1 .. i] = lcm(f[1 .. i - 1], ps[i].sampling_frequency)
  <2>1. f[{}] = 1
    BY <1>7
  <2>2. ASSUME NEW i \in 1 .. N PROVE f[1 .. i] = lcm(f[1 .. i - 1], ps[i].sampling_frequency)
    <3>1. 1 .. i \in SUBSET S /\ 1 .. i # {}
      BY <1>1
    <3>2. Max(1 .. i) = i /\ (1 .. i) \ {i} = 1 .. i - 1
      BY <1>1, FirstNumbers
    <3> QED BY <1>7, <3>1, <3>2
  <2> QED BY <2>1, <2>2
<1> DEFINE t == [i \in 0 .. N |-> f[1 .. i]]
           G == {i \in Nat : i <= N => t[i] \in Nat}
<1>10. t[0] = 1 /\ \A i \in 1 .. N : t[i] = lcm(t[i - 1], ps[i].sampling_frequency)
  <2>1. 1 .. 0 = {} /\ 0 \in 0 .. N
    BY <1>1
  <2>2. \A i \in 1 .. N : i \in 0 .. N /\ i - 1 \in 0 .. N
    BY <1>1
  <2> QED BY <1>9, <2>1, <2>2
<1>11. Timebase(ps) = Signed(t[N])
  BY <1>1, <1>8
<1> HIDE DEF t
<1>12. \A i \in Nat : i \in G
  <2>1. 0 \in G
    BY <1>10
  <2>2. ASSUME NEW i \in Nat, i \in G PROVE i + 1 \in G
    <3>1. SUFFICES ASSUME i + 1 <= N PROVE t[i + 1] \in Nat
      OBVIOUS
    <3>2. t[i] \in Nat /\ i + 1 \in 1 .. N /\ (i + 1) - 1 = i
      BY <1>1, <2>2, <3>1
    <3>3. t[i + 1] = lcm(t[i], ps[i + 1].sampling_frequency) /\ ps[i + 1].sampling_frequency \in Nat
      BY <1>1, <1>10, <3>2
    <3>4. PICK a \in Nat, b \in Nat : a = t[i] /\ b = ps[i + 1].sampling_frequency
      BY <3>2, <3>3
    <3>5. lcm(a, b) \in 0 .. WordModulus - 1
      BY lcmIsWord
    <3> QED BY <3>3, <3>4, <3>5
  <2> HIDE DEF G
  <2> QED BY <2>1, <2>2, AllNumbers
<1>13. t \in [0 .. N -> Nat]
  <2>1. \A i \in 0 .. N : t[i] \in Nat
    BY <1>1, <1>12
  <2> QED BY <2>1 DEF t
<1> QED BY <1>10, <1>11, <1>13

\* It is 0 if a core runs freely; otherwise, if an int holds a number that every
\* frequency divides, the least.
LEMMA TimebaseIsLeast ==
  ASSUME NEW ps, IsSequence(ps), \A i \in DOMAIN ps : ps[i].sampling_frequency \in Nat
  PROVE  /\ ~Timed(ps) => Timebase(ps) = 0
         /\ Timed(ps) /\ Common(ps) # {} =>
              Timebase(ps) \in Common(ps) /\ \A c \in Common(ps) : Timebase(ps) <= c
<1> DEFINE N == Len(ps)
           F(i) == ps[i].sampling_frequency
<1>1. N \in Nat /\ DOMAIN ps = 1 .. N /\ \A i \in 1 .. N : F(i) \in Nat
  BY SequenceDomain
<1>2. PICK t \in [0 .. N -> Nat] :
        /\ t[0] = 1 /\ Timebase(ps) = Signed(t[N])
        /\ \A i \in 1 .. N : t[i] = lcm(t[i - 1], F(i))
  BY TimebaseSteps
<1> DEFINE G == {i \in Nat : i <= N =>
                   /\ (\E j \in 1 .. i : F(j) = 0) => t[i] = 0
                   /\ Timed(ps) /\ Common(ps) # {} =>
                        /\ t[i] # 0
                        /\ \A j \in 1 .. i : t[i] % F(j) = 0
                        /\ \A n \in Nat : (\A j \in 1 .. i : n % F(j) = 0) => n % t[i] = 0}
<1> HIDE DEF F
<1>3. 0 \in G
  <2>1. \A n \in Nat : n % 1 = 0
    OBVIOUS
  <2> QED BY <1>2, <2>1
<1>4. ASSUME NEW i \in Nat, i \in G PROVE i + 1 \in G
  <2>1. SUFFICES ASSUME i + 1 <= N
                 PROVE  /\ (\E j \in 1 .. i + 1 : F(j) = 0) => t[i + 1] = 0
                        /\ Timed(ps) /\ Common(ps) # {} =>
                             /\ t[i + 1] # 0
                             /\ \A j \in 1 .. i + 1 : t[i + 1] % F(j) = 0
                             /\ \A n \in Nat : (\A j \in 1 .. i + 1 : n % F(j) = 0) => n % t[i + 1] = 0
    OBVIOUS
  <2>2. /\ i <= N /\ i \in 0 .. N /\ i + 1 \in 1 .. N /\ (i + 1) - 1 = i
        /\ \A j \in 1 .. i + 1 : j \in 1 .. i \/ j = i + 1
        /\ \A j \in 1 .. i : j \in 1 .. i + 1
    BY <1>1, <2>1
  <2>3. t[i] \in Nat /\ F(i + 1) \in Nat /\ t[i + 1] = lcm(t[i], F(i + 1))
    BY <1>1, <1>2, <2>2
  <2>4. /\ (\E j \in 1 .. i : F(j) = 0) => t[i] = 0
        /\ Timed(ps) /\ Common(ps) # {} =>
             /\ t[i] # 0
             /\ \A j \in 1 .. i : t[i] % F(j) = 0
             /\ \A n \in Nat : (\A j \in 1 .. i : n % F(j) = 0) => n % t[i] = 0
    BY <1>4, <2>2
  <2>5. PICK a, b, l : a = t[i] /\ b = F(i + 1) /\ l = t[i + 1]
    OBVIOUS
  <2>6. /\ a \in Nat /\ b \in Nat /\ l = lcm(a, b)
        /\ l \in Nat /\ (a = 0 \/ b = 0 => l = 0)
    <3>1. a \in Nat /\ b \in Nat /\ l = lcm(a, b)
      BY <2>3, <2>5
    <3>2. lcm(a, b) \in Nat /\ (a = 0 \/ b = 0 => lcm(a, b) = 0)
      BY <3>1, lcmIsWord
    <3> QED BY <3>1, <3>2
  <2>7. (\E j \in 1 .. i + 1 : F(j) = 0) => l = 0
    BY <2>2, <2>4, <2>5, <2>6
  <2>8. ASSUME Timed(ps) /\ Common(ps) # {}
        PROVE  /\ l # 0
               /\ \A j \in 1 .. i + 1 : l % F(j) = 0
               /\ \A n \in Nat : (\A j \in 1 .. i + 1 : n % F(j) = 0) => n % l = 0
    <3>1. \A j \in 1 .. N : F(j) # 0
      BY <1>1, <2>8 DEF Timed, F
    <3>2. b # 0 /\ a # 0
      BY <2>2, <2>4, <2>5, <2>8, <3>1
    <3> DEFINE least == Lcm(a, b)
    <3>10. /\ least \in Nat \ {0} /\ least % a = 0 /\ least % b = 0
           /\ \A n \in Nat : n % a = 0 /\ n % b = 0 => n % least = 0
      BY <2>6, <3>2, LcmIsLeast
    <3>11. \A n \in Nat : (\A j \in 1 .. i + 1 : n % F(j) = 0) => n % a = 0 /\ n % b = 0
      BY <2>2, <2>4, <2>5, <2>8
    <3>12. l = least
      <4>1. PICK c \in Common(ps) : TRUE
        BY <2>8
      <4>2. c \in 1 .. WordModulus \div 2 - 1 /\ \A n \in DOMAIN ps : c % F(n) = 0
        BY <4>1 DEF Common, F
      <4>3. c \in Nat \ {0} /\ c < WordModulus
        BY <4>2, BusAssumption
      <4>4. c % least = 0
        <5>1. \A j \in 1 .. i + 1 : j \in DOMAIN ps
          BY <1>1, <2>2
        <5>2. \A j \in 1 .. i + 1 : c % F(j) = 0
          BY <4>2, <5>1
        <5> QED BY <3>10, <3>11, <4>3, <5>2
      <4>5. least <= c
        BY <3>10, <4>3, <4>4, FitsMod
      <4> HIDE DEF least
      <4>6. least < WordModulus
        BY <3>10, <4>3, <4>5, BusAssumption
      <4> QED BY <2>6, <4>6, lcmIsWord DEF least
    <3> HIDE DEF least
    <3>3. ASSUME NEW j \in 1 .. i + 1 PROVE l % F(j) = 0
      <4>1. CASE j = i + 1
        BY <2>5, <3>10, <3>12, <4>1
      <4>2. CASE j \in 1 .. i
        <5>1. PICK f \in Nat \ {0} : f = F(j)
          BY <1>1, <2>2, <3>1, <4>2
        <5>2. a % f = 0
          BY <2>4, <2>5, <2>8, <4>2, <5>1
        <5>3. PICK x \in Nat, y \in Nat : l = x * a /\ a = y * f
          <6>1. PICK y \in Nat : a = y * f
            BY <2>6, <5>1, <5>2, MultipleOf
          <6>2. a \in Nat \ {0} /\ l \in Nat /\ l % a = 0
            BY <2>6, <3>2, <3>10, <3>12
          <6>3. PICK x \in Nat : l = x * a
            BY <6>2, MultipleOf
          <6> QED BY <6>1, <6>3
        <5>4. l = (x * y) * f /\ x * y \in Nat
          BY <5>1, <5>3
        <5>5. ((x * y) * f) % f = 0
          BY <5>1, <5>4, MultipleOf
        <5> QED BY <5>1, <5>4, <5>5
      <4> QED BY <2>2, <4>1, <4>2
    <3>4. ASSUME NEW n \in Nat, \A j \in 1 .. i + 1 : n % F(j) = 0 PROVE n % l = 0
      BY <3>4, <3>10, <3>11, <3>12
    <3> QED BY <3>3, <3>4, <3>10, <3>12
  <2> QED BY <2>5, <2>7, <2>8
<1>5. N \in G
  <2> HIDE DEF G
  <2>1. \A i \in Nat : i \in G
    BY <1>3, <1>4, AllNumbers
  <2> QED BY <1>1, <2>1
<1>6. PICK l \in Nat : l = t[N] /\ Timebase(ps) = Signed(l)
  BY <1>1, <1>2
<1>7. /\ (\E j \in 1 .. N : F(j) = 0) => l = 0
      /\ Timed(ps) /\ Common(ps) # {} =>
           /\ l # 0
           /\ \A j \in 1 .. N : l % F(j) = 0
           /\ \A n \in Nat : (\A j \in 1 .. N : n % F(j) = 0) => n % l = 0
  BY <1>1, <1>5, <1>6
<1>8. PICK half \in Nat : half = WordModulus \div 2 /\ half # 0
  BY BusAssumption, HilAssumption
<1>9. ASSUME ~Timed(ps) PROVE Timebase(ps) = 0
  <2>1. l = 0
    BY <1>1, <1>7, <1>9 DEF Timed, F
  <2> QED BY <1>6, <1>8, <2>1 DEF Signed
<1>10. ASSUME Timed(ps), Common(ps) # {}
       PROVE  Timebase(ps) \in Common(ps) /\ \A c \in Common(ps) : Timebase(ps) <= c
  <2>1. \A c : c \in Common(ps) <=> c \in 1 .. half - 1 /\ \A n \in 1 .. N : c % F(n) = 0
    BY <1>1, <1>8 DEF Common, F
  <2>2. ASSUME NEW c \in Common(ps) PROVE l <= c /\ c < half
    <3>1. c \in Nat \ {0} /\ c < half /\ c % l = 0
      BY <1>7, <1>8, <1>10, <2>1
    <3> QED BY <1>7, <1>10, <3>1, FitsMod
  <2>3. l \in 1 .. half - 1
    BY <1>7, <1>8, <1>10, <2>1, <2>2
  <2>4. Timebase(ps) = l
    BY <1>6, <1>8, <2>3 DEF Signed
  <2>5. l \in Common(ps)
    BY <1>7, <1>10, <2>1, <2>3
  <2> QED BY <2>2, <2>4, <2>5
<1> QED BY <1>9, <1>10

----------------------------------------------------------------------------
(* The frequency a deployment leaves behind *)

\* The timebase is that of the specification deploy() was last called with, from
\* the moment it has been computed: a deployment that fails before leaves none
\* behind that another could be asked for.
FrequencyFollows ==
  /\ deployed_hash \in Specs \union {NoSpec}
  /\ up => /\ deployed_hash = NoSpec => timebase_frequency = 0
           /\ deployed_hash # NoSpec /\ Passes(deployed_hash) /\ pc.phase \notin Untimed =>
                timebase_frequency = Timebase(ProgramSeq(deployed_hash))

\* deploy() has a specification, that of the last call.
LEMMA RunningSpec ==
  ASSUME TablesInvariant, Running
  PROVE  pc.spec = deployed_hash /\ deployed_hash \in Specs /\ deployed_hash # NoSpec
<1>1. pc.phase # "idle" /\ pc.spec \in Specs
  BY PhaseNames DEF Running, RunningPc
<1> QED BY <1>1, HilAssumption DEF TablesInvariant, TablesFollow

\* A step of deploy() that neither computes the timebase nor comes before it.
LEMMA TimedStepKeepsFrequency ==
  ASSUME TablesInvariant, Running, FrequencyFollows, up, pc.phase \notin Untimed,
         UNCHANGED <<deployed_hash, timebase_frequency>>
  PROVE  FrequencyFollows'
<1>1. deployed_hash # NoSpec
  BY RunningSpec
<1>2. PICK h, t : h = deployed_hash /\ t = timebase_frequency
  OBVIOUS
<1>3. h \in Specs \union {NoSpec} /\ h # NoSpec /\ (Passes(h) => t = Timebase(ProgramSeq(h)))
  BY <1>1, <1>2 DEF FrequencyFollows
<1>4. deployed_hash' = h /\ timebase_frequency' = t
  BY <1>2
<1> QED BY <1>3, <1>4 DEF FrequencyFollows

\* A step before the timebase is computed.
LEMMA UntimedStepKeepsFrequency ==
  ASSUME TablesInvariant, Running, FrequencyFollows,
         UNCHANGED deployed_hash, up' => pc'.phase \in Untimed
  PROVE  FrequencyFollows'
<1>1. deployed_hash \in Specs /\ deployed_hash # NoSpec
  BY RunningSpec
<1> QED BY <1>1 DEF FrequencyFollows

\* The step that computes it.
LEMMA ComputeTimebaseKeepsFrequency ==
  ASSUME TablesInvariant, Running, ComputeTimebase
  PROVE  FrequencyFollows'
<1>1. pc.spec = deployed_hash /\ deployed_hash \in Specs /\ deployed_hash # NoSpec
  BY RunningSpec
<1>2. PICK h : h = deployed_hash
  OBVIOUS
<1>3. timebase_frequency' = Timebase(ProgramSeq(h)) /\ deployed_hash' = h
  BY <1>1, <1>2 DEF ComputeTimebase, Programs, ProgramSeq
<1> QED BY <1>1, <1>2, <1>3 DEF FrequencyFollows

\* Every step of deploy().
LEMMA DeployStepKeepsFrequency ==
  ASSUME TablesInvariant, FrequencyFollows, DeployStep, Running, up
  PROVE  FrequencyFollows'
<1>1. CASE ComputeTimebase
  BY <1>1, ComputeTimebaseKeepsFrequency
<1>2. CASE LoadCore
  <2>1. UNCHANGED deployed_hash /\ pc.phase = "load_cores"
    BY <1>2 DEF LoadCore, At, deployerVars
  <2>2. up' => pc' = NextProgram
    BY <1>2 DEF LoadCore, LoadThen
  <2>3. NextProgram.phase = pc.phase
    BY DEF NextProgram, AtProgram
  <2>4. up' => pc'.phase \in Untimed
    BY <2>1, <2>2, <2>3 DEF Untimed
  <2> QED BY <2>1, <2>4, UntimedStepKeepsFrequency
<1>3. CASE EndOfLoop /\ pc.phase = "load_cores"
  <2>1. pc' = NextPhase /\ UNCHANGED deployed_hash
    BY <1>3 DEF EndOfLoop, SkipTo, deployerVars
  <2>2. PICK phase : NextPhase = AtProgram(phase, 1) /\ Follows(pc.phase, phase)
    BY <1>3, NextPhaseFollows
  <2>3. phase = "timebase"
    BY <1>3, <2>2 DEF Follows
  <2>4. pc'.phase \in Untimed
    BY <2>1, <2>2, <2>3 DEF AtProgram, Untimed
  <2> QED BY <2>1, <2>4, UntimedStepKeepsFrequency
<1>4. CASE EndOfLoop /\ pc.phase # "load_cores"
  <2>1. pc.phase \notin Untimed /\ UNCHANGED <<deployed_hash, timebase_frequency>>
    BY <1>4 DEF EndOfLoop, Untimed, deployerVars
  <2> QED BY <2>1, TimedStepKeepsFrequency
<1>5. CASE \/ RaiseTimebaseDivider \/ NextDivider \/ SetupInterconnectIv \/ SetupOutputEntry
           \/ FinishOutputDma \/ SetupMemory \/ SetupInput \/ FinishInput \/ FinishCoreInputs
           \/ SetupSequencer \/ SetupCore \/ FinishDeploy \/ FinishSimulation
  <2>1. pc.phase \notin Untimed
    BY <1>5 DEF RaiseTimebaseDivider, NextDivider, SetupInterconnectIv, SetupOutputEntry,
                FinishOutputDma, SetupMemory, SetupInput, FinishInput, FinishCoreInputs,
                SetupSequencer, SetupCore, FinishDeploy, FinishSimulation, At, Untimed
  <2>2. UNCHANGED <<deployed_hash, timebase_frequency>>
    BY <1>5 DEF RaiseTimebaseDivider, NextDivider, SetupInterconnectIv, SetupOutputEntry,
                FinishOutputDma, SetupMemory, SetupInput, FinishInput, FinishCoreInputs,
                SetupSequencer, SetupCore, FinishDeploy, FinishSimulation, deployerVars
  <2> QED BY <2>1, <2>2, TimedStepKeepsFrequency
<1> QED BY <1>1, <1>2, <1>3, <1>4, <1>5 DEF DeployStep

\* A call of deploy() that does not start it leaves no timebase anyone asks for.
LEMMA PrologueKeepsFrequency ==
  ASSUME NEW cmd, NEW s \in Specs, Prologue(cmd, s)
  PROVE  FrequencyFollows'
<1>1. deployed_hash' = s /\ s # NoSpec
  BY HilAssumption DEF Prologue
<1>2. Passes(s) => pc'.phase \in Untimed
  <2>1. ASSUME Passes(s) PROVE pc' = [Idle EXCEPT !.phase = Phases[1], !.cmd = cmd, !.spec = s]
    BY <2>1 DEF Prologue, Passes
  <2>2. Phases[1] = "load_cores"
    BY DEF Phases
  <2> QED BY <2>1, <2>2 DEF Idle, Untimed
<1> QED BY <1>1, <1>2 DEF FrequencyFollows

\* Every step keeps the timebase that of the specification.
LEMMA FrequencyNext ==
  ASSUME TablesInvariant, FrequencyFollows, [Next]_vars
  PROVE  FrequencyFollows'
<1>1. /\ Bracket /\ LogPart
      /\ pc.phase = "idle" => pc = Idle
  BY IdleOrRunning DEF TablesInvariant, LogInvariant
<1>2. ASSUME pc = Idle, UNCHANGED <<timebase_frequency, deployed_hash>>, up' => up
      PROVE  FrequencyFollows'
  <2>1. pc.phase \notin Untimed
    BY <1>2, IdleIsNotRunning DEF Untimed
  <2>2. PICK h, t : h = deployed_hash /\ t = timebase_frequency
    OBVIOUS
  <2>3. /\ h \in Specs \union {NoSpec}
        /\ up => /\ h = NoSpec => t = 0
                 /\ h # NoSpec /\ Passes(h) => t = Timebase(ProgramSeq(h))
    BY <2>1, <2>2 DEF FrequencyFollows
  <2>4. deployed_hash' = h /\ timebase_frequency' = t
    BY <1>2, <2>2
  <2> QED BY <1>2, <2>3, <2>4 DEF FrequencyFollows
<1>3. CASE DeployHil \/ HilHardwareSim
  <2>1. PICK s \in Specs : process_deploy_hil(s) \/ SimulateDeployed(s) \/ SimulateAnew(s)
    BY <1>3 DEF DeployHil, HilHardwareSim
  <2>2. pc = Idle
    BY <1>1, <1>3 DEF DeployHil, HilHardwareSim, At
  <2>3. CASE SimulateDeployed(s)
    BY <1>2, <2>2, <2>3 DEF SimulateDeployed, deployerVars, busVars
  <2>4. CASE process_deploy_hil(s) \/ SimulateAnew(s)
    BY <2>4, PrologueKeepsFrequency DEF process_deploy_hil, SimulateAnew
  <2> QED BY <2>1, <2>3, <2>4
<1>4. CASE DeployStep
  <2>1. Running /\ up
    BY <1>1, <1>4, PhaseNames, IdleOrRunning
    DEF DeployStep, LoadCore, ComputeTimebase, RaiseTimebaseDivider, NextDivider,
        SetupInterconnectIv, SetupOutputEntry,
        FinishOutputDma, SetupMemory, SetupInput, FinishInput, FinishCoreInputs, SetupSequencer,
        SetupCore, EndOfLoop, FinishDeploy, FinishSimulation, At, Idle
  <2> QED BY <1>4, <2>1, DeployStepKeepsFrequency
<1>5. CASE HilStart \/ HilStop \/ HilSelectOut \/ HilSetIn
  <2>1. pc = Idle /\ up /\ UNCHANGED deployerVars
    BY <1>1, <1>5 DEF HilStart, HilStop, HilSelectOut, HilSetIn, CanServe, At, Command,
                      select_output, set_input
  <2> QED BY <1>2, <2>1 DEF deployerVars
<1>6. CASE LoadBitstream \/ GetAddressMap \/ GetSamplingFrequency
  <2>1. pc = Idle /\ up /\ UNCHANGED deployerVars
    BY <1>1, <1>6 DEF LoadBitstream, GetAddressMap, GetSamplingFrequency, Answer, At
  <2> QED BY <1>2, <2>1 DEF deployerVars
<1>7. CASE Terminate
  BY <1>7 DEF Terminate, process_exit, FrequencyFollows, deployerVars
<1>8. CASE SetAddressMap
  <2>1. pc = Idle /\ up /\ UNCHANGED <<timebase_frequency, deployed_hash>>
    BY <1>1, <1>8 DEF SetAddressMap, At
  <2> QED BY <1>2, <2>1
<1>9. CASE Relaunch
  <2>1. deployed_hash' = NoSpec /\ timebase_frequency' = 0
    BY <1>9 DEF Relaunch
  <2> QED BY <2>1 DEF FrequencyFollows
<1>10. CASE UNCHANGED vars
  BY <1>10 DEF vars, deployerVars, busVars, FrequencyFollows
<1> QED BY <1>3, <1>4, <1>5, <1>6, <1>7, <1>8, <1>9, <1>10 DEF Next, ServerStep

\* Whatever was deployed or simulated in between, and however that ended.
THEOREM FrequencyIsInvariant ==
  ASSUME AddressesFit
  PROVE  Spec => [](TablesInvariant /\ FrequencyFollows)
<1>1. Init => TablesInvariant /\ FrequencyFollows
  BY TablesInit DEF Init, DeployerInit, FrequencyFollows
<1>2. TablesInvariant /\ FrequencyFollows /\ [Next]_vars => (TablesInvariant /\ FrequencyFollows)'
  BY TablesNext, FrequencyNext
<1> QED BY <1>1, <1>2, PTL DEF Spec

\* get_sampling_frequency answers for the specification last called for, after
\* every history of deployments and simulations: the least frequency all its cores
\* divide, if an int holds one, or 0 if one runs freely.
THEOREM FrequencyFollowsDeployment ==
  ASSUME AddressesFit
  PROVE  Spec => FrequencyIsOfDeployed
<1> DEFINE Answers ==
      GetSamplingFrequency =>
       LET f  == reply'.data.frequency
           ps == ProgramSeq(deployed_hash)
           common == Common(ps)
       IN IF deployed_hash = NoSpec THEN f = 0
          ELSE Passes(deployed_hash) =>
                 IF ~Timed(ps) THEN f = 0
                 ELSE \A least \in common :
                        (\A l \in common : least <= l) => f = AsFloat(least)
<1>1. ASSUME FrequencyFollows PROVE Answers
  <2> SUFFICES ASSUME GetSamplingFrequency PROVE Answers
    OBVIOUS
  <2>1. reply'.data.frequency = AsFloat(timebase_frequency) /\ up /\ pc.phase = "idle"
    BY DEF GetSamplingFrequency, Answer, Reply, At
  <2>2. AsFloat(0) = 0
    BY HilAssumption DEF AsFloat
  <2>3. PICK h : h = deployed_hash
    OBVIOUS
  <2>4. PICK f : f = reply'.data.frequency
    OBVIOUS
  <2>5. CASE h = NoSpec
    <3>1. f = 0
      BY <1>1, <2>1, <2>2, <2>3, <2>4, <2>5 DEF FrequencyFollows
    <3> QED BY <2>3, <2>4, <2>5, <3>1
  <2>6. CASE h # NoSpec /\ Passes(h)
    <3> DEFINE ps == ProgramSeq(h)
    <3>1. h \in Specs /\ f = AsFloat(Timebase(ps))
      BY <1>1, <2>1, <2>3, <2>4, <2>6 DEF FrequencyFollows, Untimed
    <3>2. IsSequence(ps) /\ \A n \in DOMAIN ps : ps[n].sampling_frequency \in Nat
      BY <3>1, SpecAssumption DEF ProgramSeq, Range
    <3> HIDE DEF ps
    <3>3. PICK t : t = Timebase(ps)
      OBVIOUS
    <3>4. /\ ~Timed(ps) => t = 0
          /\ Timed(ps) /\ Common(ps) # {} => t \in Common(ps) /\ \A c \in Common(ps) : t <= c
      BY <3>2, <3>3, TimebaseIsLeast
    <3>5. ~Timed(ps) => f = 0
      BY <2>2, <3>1, <3>3, <3>4
    <3>6. ASSUME Timed(ps), NEW least \in Common(ps), \A l \in Common(ps) : least <= l
          PROVE  f = AsFloat(least)
      <4>1. t \in Common(ps) /\ t <= least /\ least <= t
        BY <3>4, <3>6
      <4>2. t \in Int /\ least \in Int
        BY <4>1 DEF Common
      <4>3. t = least
        BY <4>1, <4>2
      <4> QED BY <3>1, <3>3, <4>3
    <3> QED BY <2>3, <2>4, <2>6, <3>5, <3>6 DEF ps
  <2>7. CASE h # NoSpec /\ ~Passes(h)
    BY <2>3, <2>7
  <2> QED BY <2>5, <2>6, <2>7
<1>2. Spec => []FrequencyFollows
  BY FrequencyIsInvariant, PTL
<1>3. Spec => [][Answers]_vars
  BY <1>1, <1>2, PTL
<1> QED BY <1>3 DEF FrequencyIsOfDeployed

----------------------------------------------------------------------------
(* The cycles the cores need *)

\* The cycles from the start of a core's run to that of the next.
Occupied(p) == program_length(p) + inter_core_buffer
Addable(ps, S) == IsFiniteSet(S) /\ \A n \in S : Occupied(ps[n]) \in Nat

\* The run time of programs is their lengths added up.
AddedUp(ps, S) ==
  \E g \in [SUBSET S -> Nat] :
    /\ \A s \in SUBSET S : RunTime(ps, s) = g[s]
    /\ g[{}] = 0
    /\ \A s \in SUBSET S : \A x \in s : g[s] = Occupied(ps[x]) + g[s \ {x}]

LEMMA RunTimeAdds == ASSUME NEW ps, NEW S, Addable(ps, S) PROVE AddedUp(ps, S)
<1> DEFINE chosen(s) == CHOOSE x \in s : TRUE
           h == [x \in (SUBSET S) \X Nat |-> IF x[1] = {} THEN 0 ELSE Occupied(ps[chosen(x[1])]) + x[2]]
           c == [s \in SUBSET S |-> chosen(s)]
<1>1. \A s \in SUBSET S : s # {} => chosen(s) \in s
  OBVIOUS
<1>2. PICK g \in [SUBSET S -> Nat] :
        \A s \in SUBSET S : g[s] = IF s = {} THEN 0 ELSE h[<<s, g[s \ {c[s]}]>>]
  <2>1. h \in [(SUBSET S) \X Nat -> Nat]
    <3>1. \A s \in SUBSET S : s # {} => Occupied(ps[chosen(s)]) \in Nat
      BY <1>1 DEF Addable
    <3> HIDE DEF chosen
    <3>2. ASSUME NEW x \in (SUBSET S) \X Nat
          PROVE  (IF x[1] = {} THEN 0 ELSE Occupied(ps[chosen(x[1])]) + x[2]) \in Nat
      BY <3>1
    <3> QED BY <3>2
  <2>2. \A s \in SUBSET S : s # {} => c[s] \in s
    BY <1>1
  <2> HIDE DEF c, h
  <2>3. RecursionOn(S, Nat, 0, h, c)
    BY <2>1, <2>2 DEF RecursionOn, Addable
  <2>4. \E g \in [SUBSET S -> Nat] : Recursive(g, S, 0, h, c)
    BY <2>3, SetRecursion, Zenon
  <2> QED BY <2>4 DEF Recursive
<1>3. \A s \in SUBSET S : g[s] = IF s = {} THEN 0 ELSE Occupied(ps[chosen(s)]) + g[s \ {chosen(s)}]
  <2>1. ASSUME NEW s \in SUBSET S, s # {} PROVE g[s] = Occupied(ps[chosen(s)]) + g[s \ {chosen(s)}]
    <3>1. c[s] = chosen(s) /\ g[s] = h[<<s, g[s \ {chosen(s)}]>>]
      BY <1>2, <2>1
    <3>2. <<s, g[s \ {chosen(s)}]>> \in (SUBSET S) \X Nat
      OBVIOUS
    <3> HIDE DEF chosen
    <3> QED BY <2>1, <3>1, <3>2
  <2> QED BY <1>2, <2>1
<1>4. \A s \in SUBSET S :
        /\ IsFiniteSet(s) /\ Cardinality(s) \in Nat
        /\ Cardinality(s) = 0 <=> s = {}
        /\ \A x \in s : s \ {x} \in SUBSET S /\ Cardinality(s \ {x}) = Cardinality(s) - 1
  <2>1. \A s \in SUBSET S : IsFiniteSet(s) /\ Cardinality(s) \in Nat /\ (Cardinality(s) = 0 <=> s = {})
    BY FS_Subset, FS_CardinalityType, FS_EmptySet DEF Addable
  <2>2. ASSUME NEW s \in SUBSET S, NEW x \in s
        PROVE  s \ {x} \in SUBSET S /\ Cardinality(s \ {x}) = Cardinality(s) - 1
    BY <2>1, FS_RemoveElement
  <2> QED BY <2>1, <2>2
<1>5. ASSUME NEW s \in SUBSET S PROVE RunTime(ps, s) = g[s]
  <2> DEFINE f == CHOOSE f : f = [t \in SUBSET s |->
                    IF t = {} THEN 0 ELSE Occupied(ps[chosen(t)]) + f[t \ {chosen(t)}]]
             r == [t \in SUBSET s |-> g[t]]
             G == {n \in Nat : \A t \in SUBSET s : Cardinality(t) <= n => f[t] = g[t]}
  <2>1. r = [t \in SUBSET s |-> IF t = {} THEN 0 ELSE Occupied(ps[chosen(t)]) + r[t \ {chosen(t)}]]
    <3>1. ASSUME NEW t \in SUBSET s
          PROVE  r[t] = IF t = {} THEN 0 ELSE Occupied(ps[chosen(t)]) + r[t \ {chosen(t)}]
      <4>1. t \in SUBSET S /\ t \ {chosen(t)} \in SUBSET s
        OBVIOUS
      <4> HIDE DEF chosen
      <4> QED BY <1>3, <4>1
    <3> QED BY <3>1
  <2>2. f = [t \in SUBSET s |-> IF t = {} THEN 0 ELSE Occupied(ps[chosen(t)]) + f[t \ {chosen(t)}]]
    <3> HIDE DEF r
    <3> QED BY <2>1
  <2>3. RunTime(ps, s) = f[s]
    BY DEF RunTime, MapThenSumSet, MapThenFoldSet, Occupied
  <2> HIDE DEF f
  <2>4. \A t \in SUBSET s : f[t] = IF t = {} THEN 0 ELSE Occupied(ps[chosen(t)]) + f[t \ {chosen(t)}]
    BY <2>2
  <2>5. 0 \in G
    <3>1. \A t \in SUBSET s : Cardinality(t) <= 0 => t = {}
      BY <1>4
    <3> QED BY <1>3, <2>4, <3>1
  <2>6. ASSUME NEW n \in Nat, n \in G PROVE n + 1 \in G
    <3> SUFFICES ASSUME NEW t \in SUBSET s, Cardinality(t) <= n + 1 PROVE f[t] = g[t]
      OBVIOUS
    <3>1. CASE t = {}
      BY <1>3, <2>4, <3>1
    <3>2. CASE t # {}
      <4>1. /\ t \in SUBSET S /\ t \ {chosen(t)} \in SUBSET s
            /\ Cardinality(t \ {chosen(t)}) = Cardinality(t) - 1 /\ Cardinality(t) \in Nat
        BY <1>1, <1>4, <3>2
      <4> HIDE DEF chosen
      <4>2. f[t \ {chosen(t)}] = g[t \ {chosen(t)}]
        BY <2>6, <4>1
      <4> QED BY <1>3, <2>4, <3>2, <4>1, <4>2
    <3> QED BY <3>1, <3>2
  <2>7. \A n \in Nat : n \in G
    <3> HIDE DEF G
    <3> QED BY <2>5, <2>6, AllNumbers
  <2> QED BY <1>4, <2>3, <2>7
<1>6. g[{}] = 0
  BY <1>3
<1> DEFINE H == {n \in Nat : \A s \in SUBSET S : Cardinality(s) <= n =>
                               \A x \in s : g[s] = Occupied(ps[x]) + g[s \ {x}]}
<1>7. 0 \in H
  BY <1>4
<1>8. ASSUME NEW n \in Nat, n \in H PROVE n + 1 \in H
  <2> SUFFICES ASSUME NEW s \in SUBSET S, Cardinality(s) <= n + 1, NEW x \in s
               PROVE  g[s] = Occupied(ps[x]) + g[s \ {x}]
    OBVIOUS
  <2>1. PICK y : y = chosen(s)
    OBVIOUS
  <2>2. y \in s /\ g[s] = Occupied(ps[y]) + g[s \ {y}]
    BY <1>1, <1>3, <2>1
  <2> HIDE DEF chosen
  <2>3. CASE y = x
    BY <2>2, <2>3
  <2>4. CASE y # x
    <3>1. /\ s \ {x} \in SUBSET S /\ s \ {y} \in SUBSET S
          /\ Cardinality(s \ {x}) <= n /\ Cardinality(s \ {y}) <= n
          /\ x \in s \ {y} /\ y \in s \ {x}
      BY <1>4, <2>2, <2>4
    <3>2. g[s \ {y}] = Occupied(ps[x]) + g[(s \ {y}) \ {x}]
      BY <1>8, <3>1
    <3>3. g[s \ {x}] = Occupied(ps[y]) + g[(s \ {x}) \ {y}]
      BY <1>8, <3>1
    <3>4. (s \ {y}) \ {x} = (s \ {x}) \ {y} /\ (s \ {x}) \ {y} \in SUBSET S
      OBVIOUS
    <3>5. Occupied(ps[x]) \in Nat /\ Occupied(ps[y]) \in Nat /\ g[(s \ {x}) \ {y}] \in Nat
      BY <2>2, <3>4 DEF Addable
    <3>6. PICK a \in Nat, b \in Nat, r \in Nat :
            a = Occupied(ps[x]) /\ b = Occupied(ps[y]) /\ r = g[(s \ {x}) \ {y}]
      BY <3>5
    <3>7. g[s] = b + (a + r) /\ g[s \ {x}] = b + r
      BY <2>2, <3>2, <3>3, <3>4, <3>6
    <3> QED BY <3>6, <3>7
  <2> QED BY <2>3, <2>4
<1>9. \A s \in SUBSET S : \A x \in s : g[s] = Occupied(ps[x]) + g[s \ {x}]
  <2>1. \A n \in Nat : n \in H
    <3> HIDE DEF H
    <3> QED BY <1>7, <1>8, AllNumbers
  <2> SUFFICES ASSUME NEW s \in SUBSET S PROVE \A x \in s : g[s] = Occupied(ps[x]) + g[s \ {x}]
    OBVIOUS
  <2>2. PICK n \in Nat : n = Cardinality(s)
    BY <1>4
  <2>3. n \in H /\ Cardinality(s) <= n
    BY <2>1, <2>2
  <2> QED BY <2>3
<1> QED BY <1>5, <1>6, <1>9 DEF AddedUp

\* More programs take longer, by no less than one of those that are more.
LEMMA RunTimeGrows ==
  ASSUME NEW ps, NEW B, Addable(ps, B), NEW A \in SUBSET B, NEW x \in B \ A
  PROVE  /\ RunTime(ps, A) \in Nat /\ RunTime(ps, B) \in Nat
         /\ RunTime(ps, A) + Occupied(ps[x]) <= RunTime(ps, B)
<1>1. PICK g \in [SUBSET B -> Nat] :
        /\ \A s \in SUBSET B : RunTime(ps, s) = g[s]
        /\ g[{}] = 0
        /\ \A s \in SUBSET B : \A y \in s : g[s] = Occupied(ps[y]) + g[s \ {y}]
  <2>1. AddedUp(ps, B)
    BY RunTimeAdds
  <2> QED BY <2>1 DEF AddedUp
<1>2. \A s \in SUBSET B :
        /\ IsFiniteSet(s) /\ Cardinality(s) \in Nat
        /\ Cardinality(s) = 0 <=> s = {}
        /\ \A y \in s : s \ {y} \in SUBSET B /\ Cardinality(s \ {y}) = Cardinality(s) - 1
  <2>1. \A s \in SUBSET B : IsFiniteSet(s) /\ Cardinality(s) \in Nat /\ (Cardinality(s) = 0 <=> s = {})
    BY FS_Subset, FS_CardinalityType, FS_EmptySet DEF Addable
  <2>2. ASSUME NEW s \in SUBSET B, NEW y \in s
        PROVE  s \ {y} \in SUBSET B /\ Cardinality(s \ {y}) = Cardinality(s) - 1
    BY <2>1, FS_RemoveElement
  <2> QED BY <2>1, <2>2
<1> DEFINE G == {n \in Nat : \A s \in SUBSET B : Cardinality(s) <= n => \A t \in SUBSET s : g[t] <= g[s]}
<1>3. 0 \in G
  <2>1. ASSUME NEW s \in SUBSET B, Cardinality(s) <= 0, NEW t \in SUBSET s PROVE g[t] <= g[s]
    <3>1. t = {} /\ s = {}
      BY <1>2, <2>1
    <3> QED BY <1>1, <3>1
  <2> QED BY <2>1
<1>4. ASSUME NEW n \in Nat, n \in G PROVE n + 1 \in G
  <2> SUFFICES ASSUME NEW s \in SUBSET B, Cardinality(s) <= n + 1, NEW t \in SUBSET s
               PROVE  g[t] <= g[s]
    OBVIOUS
  <2>1. g[t] \in Nat /\ g[s] \in Nat
    OBVIOUS
  <2>2. CASE t = s
    BY <2>1, <2>2
  <2>3. CASE t # s
    <3>1. PICK y \in s : y \notin t
      BY <2>3
    <3>2. s \ {y} \in SUBSET B /\ Cardinality(s \ {y}) <= n /\ t \in SUBSET (s \ {y})
      BY <1>2, <3>1
    <3>3. g[t] <= g[s \ {y}]
      BY <1>4, <3>2
    <3>4. g[s] = Occupied(ps[y]) + g[s \ {y}] /\ Occupied(ps[y]) \in Nat /\ g[s \ {y}] \in Nat
      BY <1>1, <3>2 DEF Addable
    <3> QED BY <2>1, <3>3, <3>4
  <2> QED BY <2>2, <2>3
<1>5. \A n \in Nat : n \in G
  <2> HIDE DEF G
  <2> QED BY <1>3, <1>4, AllNumbers
<1>6. B \ {x} \in SUBSET B /\ A \in SUBSET (B \ {x}) /\ Cardinality(B \ {x}) \in Nat
  BY <1>2
<1>7. g[A] <= g[B \ {x}]
  BY <1>5, <1>6
<1>8. g[B] = Occupied(ps[x]) + g[B \ {x}] /\ Occupied(ps[x]) \in Nat
  BY <1>1 DEF Addable
<1>9. RunTime(ps, A) = g[A] /\ RunTime(ps, B) = g[B] /\ g[A] \in Nat /\ g[B] \in Nat /\ g[B \ {x}] \in Nat
  BY <1>1, <1>6
<1> QED BY <1>7, <1>8, <1>9

----------------------------------------------------------------------------
(* What the sequencer is set to *)

\* A write of setup_sequencer.
SequencerWrite(ps, timebase, w) ==
  \/ \E n \in DOMAIN ps : \/ w = <<Controller + 4 * n, (Divider(ps[n], timebase) - 1) % WordModulus>>
                          \/ w = <<HilTimebase + 4 + 4 * n, Shift(ps, n)>>
  \/ w = <<HilTimebase + 4, TimebasePeriod(ps, timebase)>>
  \/ w = <<Controller, EnableBits(Len(ps))>>

\* What an address map has to be for the sequencer: its registers are of nothing
\* else that the specification has registers for, and its two ranges are apart.
SequencerApart(s) ==
  /\ \A w \in Expected(s), v \in ExpectedSequencer(s) : w[1] = v[1] => w \in ExpectedSequencer(s)
  /\ \A v \in ExpectedSequencer(s), p \in ProgramsOf(s) : ~InDma(p, v[1])
  /\ Controller \in Int /\ HilTimebase \in Int
  /\ \/ Controller + 4 * Len(ProgramSeq(s)) < HilTimebase + 4
     \/ HilTimebase + 4 + 4 * Len(ProgramSeq(s)) < Controller

\* The writes of setup_sequencer are these.
LEMMA SequencerWrites ==
  ASSUME NEW s \in Specs, NEW timebase, NEW w
  PROVE  w \in Range(SequencerStores(ProgramSeq(s), timebase))
           <=> SequencerWrite(ProgramSeq(s), timebase, w)
<1> DEFINE ps == ProgramSeq(s)
           divider(m) == <<Controller + 4 * m, (Divider(ps[m], timebase) - 1) % WordModulus>>
           shift(m) == <<HilTimebase + 4 + 4 * m, Shift(ps, m)>>
           store(n) == IF n % 2 = 1 THEN divider((n + 1) \div 2) ELSE shift((n + 1) \div 2)
           cores == [n \in 1 .. 2 * Len(ps) |-> store(n)]
           period == <<HilTimebase + 4, TimebasePeriod(ps, timebase)>>
           enable == <<Controller, EnableBits(Len(ps))>>
<1>1. Len(ps) \in Nat /\ DOMAIN ps = 1 .. Len(ps)
  BY SpecSequences
<1>2. SequencerStores(ps, timebase) = cores \o <<period, enable>>
  BY DEF SequencerStores
<1>3. SequencerWrite(ps, timebase, w) <=>
        (\E m \in DOMAIN ps : w = divider(m) \/ w = shift(m)) \/ w = period \/ w = enable
  BY DEF SequencerWrite
<1> HIDE DEF ps, divider, shift, period, enable
<1>4. Range(cores \o <<period, enable>>) = {store(n) : n \in 1 .. 2 * Len(ps)} \union {period, enable}
  <2>1. 2 * Len(ps) \in Nat
    BY <1>1
  <2>2. cores \in Seq({store(n) : n \in 1 .. 2 * Len(ps)})
    BY <2>1
  <2>3. Range(cores) = {store(n) : n \in 1 .. 2 * Len(ps)}
    BY DEF Range
  <2>4. <<period, enable>> \in Seq({period, enable}) /\ Range(<<period, enable>>) = {period, enable}
    BY DEF Range
  <2> HIDE DEF cores
  <2>5. IsSequence(cores) /\ IsSequence(<<period, enable>>)
    BY <2>2, <2>3, <2>4, SequenceIntro
  <2> QED BY <2>3, <2>4, <2>5, RangeOfConcat
<1>5. (\E n \in 1 .. 2 * Len(ps) : w = store(n)) <=> \E m \in DOMAIN ps : w = divider(m) \/ w = shift(m)
  <2>1. ASSUME NEW n \in 1 .. 2 * Len(ps) PROVE (n + 1) \div 2 \in DOMAIN ps
    BY <1>1
  <2>2. ASSUME NEW m \in DOMAIN ps
        PROVE  /\ 2 * m - 1 \in 1 .. 2 * Len(ps) /\ store(2 * m - 1) = divider(m)
               /\ 2 * m \in 1 .. 2 * Len(ps) /\ store(2 * m) = shift(m)
    <3>1. m \in Nat /\ m >= 1 /\ m <= Len(ps)
      BY <1>1
    <3>2. /\ (2 * m - 1) % 2 = 1 /\ ((2 * m - 1) + 1) \div 2 = m
          /\ (2 * m) % 2 = 0 /\ (2 * m + 1) \div 2 = m
      BY <3>1
    <3>3. /\ \A n : n % 2 = 1 => store(n) = divider((n + 1) \div 2)
          /\ \A n : n % 2 # 1 => store(n) = shift((n + 1) \div 2)
      OBVIOUS
    <3> HIDE DEF store
    <3>4. PICK x \in Nat, y \in Nat : x = 2 * m - 1 /\ y = 2 * m
      BY <3>1
    <3>5. x % 2 = 1 /\ (x + 1) \div 2 = m /\ y % 2 # 1 /\ (y + 1) \div 2 = m
      BY <3>2, <3>4
    <3>6. store(x) = divider(m) /\ store(y) = shift(m)
      BY <3>3, <3>5
    <3>7. x \in 1 .. 2 * Len(ps) /\ y \in 1 .. 2 * Len(ps)
      BY <1>1, <3>1, <3>4
    <3> QED BY <3>4, <3>6, <3>7
  <2>3. ASSUME NEW n \in 1 .. 2 * Len(ps), w = store(n)
        PROVE  \E m \in DOMAIN ps : w = divider(m) \/ w = shift(m)
    BY <2>1, <2>3
  <2> HIDE DEF store
  <2> QED BY <2>2, <2>3
<1> QED BY <1>2, <1>3, <1>4, <1>5 DEF ps

\* The sequencer's registers hold what a completed deploy wrote to them.
LEMMA SequencerReached ==
  ASSUME NEW s \in Specs, RegistersApart(s), SequencerApart(s), WhollyLogged(s), HardwareFollows
  PROVE  LET ps == ProgramSeq(s)
             timebase == Timebase(ps)
         IN /\ PeriodSet = TimebasePeriod(ps, timebase)
            /\ \A n \in DOMAIN ps :
                 /\ RunFrom(n) = Shift(ps, n)
                 /\ SequencerRegister(Controller + 4 * n) = (Divider(ps[n], timebase) - 1) % WordModulus
<1> DEFINE ps == ProgramSeq(s)
           timebase == Timebase(ps)
<1>1. Len(ps) \in Nat /\ DOMAIN ps = 1 .. Len(ps)
  BY SpecSequences
<1>2. \A w : w \in ExpectedSequencer(s) <=> SequencerWrite(ps, timebase, w)
  BY SequencerWrites DEF ExpectedSequencer
<1> HIDE DEF ps, timebase
<1>3. \A w, x : SequencerWrite(ps, timebase, w) /\ SequencerWrite(ps, timebase, x) /\ x[1] = w[1] => x[2] = w[2]
  <2> SUFFICES ASSUME NEW w, NEW x, SequencerWrite(ps, timebase, w), SequencerWrite(ps, timebase, x),
                      x[1] = w[1]
               PROVE  x[2] = w[2]
    OBVIOUS
  <2>1. PICK a \in Int, b \in Int, l \in Nat : a = Controller /\ b = HilTimebase + 4 /\ l = Len(ps)
    <3>1. Controller \in Int /\ HilTimebase \in Int
      BY DEF SequencerApart
    <3>2. HilTimebase + 4 \in Int
      BY <3>1
    <3> QED BY <1>1, <3>1, <3>2
  <2>2. a + 4 * l < b \/ b + 4 * l < a
    BY <2>1 DEF SequencerApart, ps
  <2> DEFINE d(n) == (Divider(ps[n], timebase) - 1) % WordModulus
             h(n) == Shift(ps, n)
             per  == TimebasePeriod(ps, timebase)
             en   == EnableBits(Len(ps))
             Form(y) == \/ \E n \in 1 .. l : y = <<a + 4 * n, d(n)>> \/ y = <<b + 4 * n, h(n)>>
                        \/ y = <<b, per>> \/ y = <<a, en>>
  <2>3. Form(w) /\ Form(x)
    BY <1>1, <2>1 DEF SequencerWrite
  <2> HIDE DEF d, h, per, en
  <2>4. CASE \E n \in 1 .. l : w = <<a + 4 * n, d(n)>>
    <3>1. PICK n \in 1 .. l : w = <<a + 4 * n, d(n)>>
      BY <2>4
    <3>2. ASSUME NEW m \in 1 .. l, x = <<a + 4 * m, d(m)>> PROVE m = n
      BY <2>1, <3>1, <3>2
    <3>3. ASSUME NEW m \in 1 .. l, x = <<b + 4 * m, h(m)>> PROVE FALSE
      BY <2>1, <2>2, <3>1, <3>3
    <3>4. x # <<b, per>> /\ x # <<a, en>>
      BY <2>1, <2>2, <3>1
    <3> QED BY <2>3, <3>1, <3>2, <3>3, <3>4
  <2>5. CASE \E n \in 1 .. l : w = <<b + 4 * n, h(n)>>
    <3>1. PICK n \in 1 .. l : w = <<b + 4 * n, h(n)>>
      BY <2>5
    <3>2. ASSUME NEW m \in 1 .. l, x = <<b + 4 * m, h(m)>> PROVE m = n
      BY <2>1, <3>1, <3>2
    <3>3. ASSUME NEW m \in 1 .. l, x = <<a + 4 * m, d(m)>> PROVE FALSE
      BY <2>1, <2>2, <3>1, <3>3
    <3>4. x # <<b, per>> /\ x # <<a, en>>
      BY <2>1, <2>2, <3>1
    <3> QED BY <2>3, <3>1, <3>2, <3>3, <3>4
  <2>6. CASE w = <<b, per>>
    <3>1. ASSUME NEW m \in 1 .. l PROVE x # <<a + 4 * m, d(m)>> /\ x # <<b + 4 * m, h(m)>>
      BY <2>1, <2>2, <2>6
    <3>2. x # <<a, en>>
      BY <2>1, <2>2, <2>6
    <3> QED BY <2>3, <2>6, <3>1, <3>2
  <2>7. CASE w = <<a, en>>
    <3>1. ASSUME NEW m \in 1 .. l PROVE x # <<a + 4 * m, d(m)>> /\ x # <<b + 4 * m, h(m)>>
      BY <2>1, <2>2, <2>7
    <3>2. x # <<b, per>>
      BY <2>1, <2>2, <2>7
    <3> QED BY <2>3, <2>7, <3>1, <3>2
  <2> QED BY <2>3, <2>4, <2>5, <2>6, <2>7
<1>4. ASSUME NEW w \in ExpectedSequencer(s) PROVE InRegisters(w)
  <2>1. w \in Expected(s)
    BY DEF Expected
  <2>2. ASSUME NEW x \in Expected(s), x[1] = w[1] PROVE x[2] = w[2]
    <3>1. x \in ExpectedSequencer(s)
      BY <2>2 DEF SequencerApart
    <3> QED BY <1>2, <1>3, <2>2, <3>1
  <2>3. ASSUME NEW x, StrayFill(s, x), x[1] = w[1] PROVE FALSE
    <3>1. PICK p \in ProgramsOf(s) : w[1] = DmaAddress(p) + 8 \/ w[1] = DmaAddress(p) + 4
      BY <2>3 DEF StrayFill
    <3>2. DmaAddress(p) \in Int
      <4>1. <<DmaAddress(p), Cardinality(SlotsOf(s, p))>> \in Expected(s)
        BY DEF Expected, BeforeEnable, ExpectedDma
      <4> QED BY <4>1 DEF RegistersApart, WordAligned
    <3>3. InDma(p, w[1])
      BY <3>1, <3>2, HilAssumption DEF InDma
    <3> QED BY <3>3 DEF SequencerApart
  <2> QED BY <2>1, <2>2, <2>3, UnhiddenInRegisters
<1>5. \A w : SequencerWrite(ps, timebase, w) => SequencerRegister(w[1]) = w[2]
  BY <1>2, <1>4 DEF InRegisters, SequencerRegister
<1>6. PeriodSet = TimebasePeriod(ps, timebase)
  <2>1. SequencerWrite(ps, timebase, <<HilTimebase + 4, TimebasePeriod(ps, timebase)>>)
    BY DEF SequencerWrite
  <2> QED BY <1>5, <2>1 DEF PeriodSet
<1>7. ASSUME NEW n \in DOMAIN ps
      PROVE  /\ RunFrom(n) = Shift(ps, n)
             /\ SequencerRegister(Controller + 4 * n) = (Divider(ps[n], timebase) - 1) % WordModulus
  <2>1. /\ SequencerWrite(ps, timebase, <<HilTimebase + 4 + 4 * n, Shift(ps, n)>>)
        /\ SequencerWrite(ps, timebase, <<Controller + 4 * n, (Divider(ps[n], timebase) - 1) % WordModulus>>)
    BY DEF SequencerWrite
  <2> QED BY <1>5, <2>1 DEF RunFrom
<1> QED BY <1>6, <1>7 DEF ps, timebase

\* What the dispatcher gives of programs can be added up.
LEMMA ProgramsTimed ==
  ASSUME NEW s \in Specs
  PROVE  LET ps == ProgramSeq(s)
         IN /\ IsSequence(ps) /\ Len(ps) \in Nat /\ DOMAIN ps = 1 .. Len(ps)
            /\ \A n \in DOMAIN ps :
                 /\ ps[n].order \in Nat /\ ps[n].sampling_frequency \in Nat
                 /\ program_length(ps[n]) \in Nat /\ Occupied(ps[n]) = program_length(ps[n]) + 90
            /\ Addable(ps, DOMAIN ps)
<1> DEFINE ps == ProgramSeq(s)
<1>1. IsSequence(ps) /\ Len(ps) \in Nat /\ DOMAIN ps = 1 .. Len(ps)
  BY SpecSequences, SpecAssumption DEF ProgramSeq
<1>2. ASSUME NEW n \in DOMAIN ps
      PROVE  /\ ps[n].order \in Nat /\ ps[n].sampling_frequency \in Nat
             /\ program_length(ps[n]) \in Nat /\ Occupied(ps[n]) = program_length(ps[n]) + 90
  <2>1. PICK p : p = ps[n]
    OBVIOUS
  <2>2. /\ p.order \in Nat /\ p.sampling_frequency \in Nat
        /\ p.fixed_portion \in Nat /\ p.per_channel_portion \in Nat
    BY <2>1, SpecAssumption DEF ProgramSeq, Range
  <2>3. p.fixed_portion + 11 * p.per_channel_portion \in Nat
    BY <2>2
  <2>4. program_length(p) \in Nat
    BY <2>3, BusAssumption, Division DEF program_length, FULL_CORES
  <2> QED BY <2>1, <2>2, <2>4 DEF Occupied, inter_core_buffer
<1>3. IsFiniteSet(DOMAIN ps)
  BY <1>1, FS_Interval
<1>4. \A n \in DOMAIN ps : Occupied(ps[n]) \in Nat
  BY <1>2
<1> QED BY <1>1, <1>2, <1>3, <1>4 DEF Addable

\* Whatever the sort makes of cores of equal order, one of two runs first.
LEMMA CoresAreInOrder ==
  ASSUME NEW s \in Specs
  PROVE  LET ps == ProgramSeq(s)
         IN /\ \A n \in DOMAIN ps : ~RunsBefore(ps, n, n)
            /\ \A m, n \in DOMAIN ps : m # n => RunsBefore(ps, m, n) \/ RunsBefore(ps, n, m)
            /\ \A l, m, n \in DOMAIN ps :
                 RunsBefore(ps, l, m) /\ RunsBefore(ps, m, n) => RunsBefore(ps, l, n)
<1> DEFINE ps == ProgramSeq(s)
           Apart(place) == \A m, n \in DOMAIN ps : place[m] = place[n] => m = n
<1>1. Len(ps) \in Nat /\ DOMAIN ps = 1 .. Len(ps) /\ \A n \in DOMAIN ps : ps[n].order \in Nat
  BY ProgramsTimed
<1> HIDE DEF ps
<1>2. Place(ps) \in [DOMAIN ps -> DOMAIN ps] /\ Apart(Place(ps))
  <2>1. [n \in DOMAIN ps |-> n] \in [DOMAIN ps -> DOMAIN ps] /\ Apart([n \in DOMAIN ps |-> n])
    OBVIOUS
  <2>2. \E place \in [DOMAIN ps -> DOMAIN ps] : Apart(place)
    BY <2>1
  <2> QED BY <2>2 DEF Place
<1>3. PICK place : place = Place(ps)
  OBVIOUS
<1>4. \A n \in DOMAIN ps : place[n] \in Nat
  BY <1>1, <1>2, <1>3
<1>5. \A m, n : RunsBefore(ps, m, n) <=> \/ ps[m].order < ps[n].order
                                         \/ ps[m].order = ps[n].order /\ place[m] < place[n]
  BY <1>3 DEF RunsBefore
<1>6. \A n \in DOMAIN ps : ~RunsBefore(ps, n, n)
  BY <1>1, <1>4, <1>5
<1>7. ASSUME NEW m \in DOMAIN ps, NEW n \in DOMAIN ps, m # n
      PROVE  RunsBefore(ps, m, n) \/ RunsBefore(ps, n, m)
  <2>1. place[m] # place[n]
    BY <1>2, <1>3, <1>7
  <2> QED BY <1>1, <1>4, <1>5, <2>1
<1>8. ASSUME NEW l \in DOMAIN ps, NEW m \in DOMAIN ps, NEW n \in DOMAIN ps,
             RunsBefore(ps, l, m), RunsBefore(ps, m, n)
      PROVE  RunsBefore(ps, l, n)
  BY <1>1, <1>4, <1>5, <1>8
<1> QED BY <1>6, <1>7, <1>8 DEF ps

\* A core starts when the one before it in the execution order has ended and the
\* interconnect has had its time, and all have ended after as long as they take
\* one after the other.
LEMMA ShiftsInTurn ==
  ASSUME NEW s \in Specs, RunsFit(ProgramSeq(s)), NEW m \in DOMAIN ProgramSeq(s)
  PROVE  LET ps == ProgramSeq(s)
         IN /\ Shift(ps, m) \in Nat
            /\ \A n \in DOMAIN ps : RunsBefore(ps, m, n) =>
                 Shift(ps, m) + program_length(ps[m]) + 90 <= Shift(ps, n)
            /\ Shift(ps, m) + program_length(ps[m]) <= MinTimebase(ps)
<1> DEFINE ps == ProgramSeq(s)
           all == DOMAIN ps
           before(n) == {l \in DOMAIN ps : RunsBefore(ps, l, n)}
<1>1. /\ Addable(ps, all)
      /\ program_length(ps[m]) \in Nat /\ Occupied(ps[m]) = program_length(ps[m]) + 90
  BY ProgramsTimed
<1>2. /\ \A n \in all : n \notin before(n)
      /\ \A n \in all : before(n) \in SUBSET all
      /\ \A n \in all : RunsBefore(ps, m, n) => m \in before(n) /\ before(m) \in SUBSET before(n)
  BY CoresAreInOrder
<1>3. \A n : Shift(ps, n) = (2 + RunTime(ps, before(n))) % WordModulus
  BY DEF Shift
<1>4. MinTimebase(ps) = RunTime(ps, all) % WordModulus /\ 2 + RunTime(ps, all) < WordModulus
  BY DEF MinTimebase, RunsFit
<1> HIDE DEF ps, all, before
<1>5. PICK w \in Nat \ {0} : w = WordModulus
  BY BusAssumption
<1>6. ASSUME NEW n \in all
      PROVE  /\ RunTime(ps, before(n)) \in Nat /\ RunTime(ps, all) \in Nat
             /\ RunTime(ps, before(n)) + Occupied(ps[n]) <= RunTime(ps, all)
  <2>1. n \in all \ before(n) /\ before(n) \in SUBSET all
    BY <1>2
  <2> QED BY <1>1, <2>1, RunTimeGrows
<1>7. m \in all
  BY DEF all, ps
<1>8. \A n \in all : Occupied(ps[n]) \in Nat
  BY <1>1 DEF Addable
<1>9. ASSUME NEW n \in all PROVE Shift(ps, n) = 2 + RunTime(ps, before(n))
  <2>1. PICK a \in Nat, b \in Nat, t \in Nat :
          a = RunTime(ps, before(n)) /\ b = Occupied(ps[n]) /\ t = RunTime(ps, all)
    BY <1>6, <1>8
  <2>2. a + b <= t /\ 2 + t < w
    BY <1>4, <1>5, <1>6, <2>1
  <2>3. 2 + a \in Nat /\ 2 + a < w
    BY <2>2
  <2>4. (2 + a) % w = 2 + a
    BY <1>5, <2>3, FitsMod
  <2> QED BY <1>3, <1>5, <2>1, <2>4
<1>10. PICK a \in Nat, l \in Nat, t \in Nat :
         a = RunTime(ps, before(m)) /\ l = program_length(ps[m]) /\ t = RunTime(ps, all)
  BY <1>1, <1>6, <1>7
<1>11. a + (l + 90) <= t /\ Shift(ps, m) = 2 + a
  BY <1>1, <1>6, <1>7, <1>9, <1>10
<1>12. MinTimebase(ps) = t
  <2>1. t < w
    BY <1>4, <1>5, <1>10
  <2>2. t % w = t
    BY <1>5, <2>1, FitsMod
  <2> QED BY <1>4, <1>5, <1>10, <2>2
<1>13. Shift(ps, m) \in Nat /\ Shift(ps, m) + program_length(ps[m]) <= MinTimebase(ps)
  BY <1>10, <1>11, <1>12
<1>14. ASSUME NEW n \in all, RunsBefore(ps, m, n)
       PROVE  Shift(ps, m) + program_length(ps[m]) + 90 <= Shift(ps, n)
  <2>1. Addable(ps, before(n))
    BY <1>1, <1>2, FS_Subset DEF Addable
  <2>2. before(m) \in SUBSET before(n) /\ m \in before(n) \ before(m)
    BY <1>2, <1>7, <1>14
  <2>3. RunTime(ps, before(n)) \in Nat /\ RunTime(ps, before(m)) + Occupied(ps[m]) <= RunTime(ps, before(n))
    BY <2>1, <2>2, RunTimeGrows
  <2>4. PICK b \in Nat : b = RunTime(ps, before(n))
    BY <2>3
  <2>5. a + (l + 90) <= b /\ Shift(ps, n) = 2 + b
    BY <1>1, <1>9, <1>10, <2>3, <2>4
  <2> QED BY <1>10, <1>11, <2>5
<1> QED BY <1>13, <1>14 DEF all, ps

\* The cores of a completed deploy take turns, whatever their order and those of
\* equal order too, where the address map keeps its registers apart.
THEOREM CoresRunInTurn ==
  ASSUME AddressesFit
  PROVE  Spec => []((reply.kind = "deployed" => RegistersApart(reply.spec) /\ SequencerApart(reply.spec))
                      => CoresTakeTurns)
<1>1. ASSUME LogInvariant,
             reply.kind = "deployed" => RegistersApart(reply.spec) /\ SequencerApart(reply.spec)
      PROVE  CoresTakeTurns
  <2>1. SUFFICES ASSUME up, reply.kind = "deployed", fpga_loaded, RunsFit(ProgramSeq(reply.spec))
                 PROVE  CoresTakeTurns
    BY DEF CoresTakeTurns
  <2>2. PICK s \in Specs : s = reply.spec /\ WhollyLogged(s) /\ HardwareFollows
    BY <1>1, <2>1 DEF LogInvariant, LogPart, DeployReached
  <2>3. RegistersApart(s) /\ SequencerApart(s)
    BY <1>1, <2>1, <2>2
  <2> DEFINE ps == ProgramSeq(s)
  <2>4. /\ PeriodSet = TimebasePeriod(ps, Timebase(ps))
        /\ \A n \in DOMAIN ps : RunFrom(n) = Shift(ps, n)
    BY <2>2, <2>3, SequencerReached
  <2>5. /\ IsSequence(ps)
        /\ \A n \in DOMAIN ps : ps[n].sampling_frequency \in Nat /\ program_length(ps[n]) \in Nat
    BY ProgramsTimed
  <2>6. RunsFit(ps)
    BY <2>1, <2>2
  <2>7. ASSUME NEW n \in DOMAIN ps
        PROVE  /\ RunFrom(n) = Shift(ps, n) /\ RunFrom(n) \in Nat
               /\ RunEnd(ps, n) = RunFrom(n) + program_length(ps[n])
    BY <2>4, <2>6, ShiftsInTurn DEF RunEnd
  <2>8. ASSUME NEW m \in DOMAIN ps, NEW n \in DOMAIN ps, RunsBefore(ps, m, n)
        PROVE  RunEnd(ps, m) + 90 <= RunFrom(n)
    <3>1. Shift(ps, m) + program_length(ps[m]) + 90 <= Shift(ps, n)
      BY <2>6, <2>8, ShiftsInTurn
    <3> QED BY <2>5, <2>7, <3>1
  <2>9. ASSUME NEW m \in DOMAIN ps, NEW n \in DOMAIN ps, ps[m].sampling_frequency = 0
        PROVE  RunEnd(ps, n) <= PeriodSet
    <3>1. Timebase(ps) = 0
      <4>1. ~Timed(ps)
        BY <2>9 DEF Timed
      <4> HIDE DEF ps
      <4> QED BY <2>5, <4>1, TimebaseIsLeast
    <3>2. PeriodSet = MinTimebase(ps)
      BY <2>4, <3>1 DEF TimebasePeriod
    <3>3. Shift(ps, n) + program_length(ps[n]) <= MinTimebase(ps)
      BY <2>6, ShiftsInTurn
    <3> QED BY <2>7, <3>2, <3>3
  <2>10. \A m, n \in DOMAIN ps :
           /\ ps[m].order < ps[n].order => RunsBefore(ps, m, n)
           /\ m # n => RunsBefore(ps, m, n) \/ RunsBefore(ps, n, m)
    BY CoresAreInOrder DEF RunsBefore
  <2> HIDE DEF ps
  <2>11. /\ \A m, n \in DOMAIN ps :
              /\ ps[m].order < ps[n].order => RunEnd(ps, m) + 90 <= RunFrom(n)
              /\ m # n => RunEnd(ps, m) + 90 <= RunFrom(n) \/ RunEnd(ps, n) + 90 <= RunFrom(m)
         /\ \A m, n \in DOMAIN ps : ps[m].sampling_frequency = 0 => RunEnd(ps, n) <= PeriodSet
    BY <2>8, <2>9, <2>10
  <2> QED BY <2>2, <2>11 DEF CoresTakeTurns, ps
<1>2. Spec => []LogInvariant
  BY LogIsInvariant
<1> QED BY <1>1, <1>2, PTL

\* And run at the frequencies they are specified for, if an int holds a frequency
\* they have in common.
THEOREM CoresRunAtTheirFrequency ==
  ASSUME AddressesFit
  PROVE  Spec => []((reply.kind = "deployed" => RegistersApart(reply.spec) /\ SequencerApart(reply.spec))
                      => CoresAtTheirFrequency)
<1>1. ASSUME LogInvariant,
             reply.kind = "deployed" => RegistersApart(reply.spec) /\ SequencerApart(reply.spec)
      PROVE  CoresAtTheirFrequency
  <2>1. SUFFICES ASSUME up, reply.kind = "deployed", fpga_loaded PROVE CoresAtTheirFrequency
    BY DEF CoresAtTheirFrequency
  <2>2. PICK s \in Specs : s = reply.spec /\ WhollyLogged(s) /\ HardwareFollows
    BY <1>1, <2>1 DEF LogInvariant, LogPart, DeployReached
  <2>3. RegistersApart(s) /\ SequencerApart(s)
    BY <1>1, <2>1, <2>2
  <2> DEFINE ps == ProgramSeq(s)
             perSecond(n, period) == RunsEvery(n) * ps[n].sampling_frequency * period
  <2>4. /\ PeriodSet = TimebasePeriod(ps, Timebase(ps))
        /\ \A n \in DOMAIN ps :
             SequencerRegister(Controller + 4 * n) = (Divider(ps[n], Timebase(ps)) - 1) % WordModulus
    BY <2>2, <2>3, SequencerReached
  <2>5. IsSequence(ps) /\ \A n \in DOMAIN ps : ps[n].sampling_frequency \in Nat
    BY ProgramsTimed
  <2>6. PICK w \in Nat \ {0}, h \in Nat :
          w = WordModulus /\ h = HilClock /\ h < w /\ WordModulus \div 2 < w
    BY BusAssumption, HilAssumption DEF Word
  <2> HIDE DEF ps
  <2>7. ASSUME Timed(ps), Common(ps) # {}, NEW n \in DOMAIN ps
        PROVE  perSecond(n, PeriodSet) <= HilClock /\ HilClock < perSecond(n, PeriodSet + 1)
    <3>1. PICK t : t = Timebase(ps)
      OBVIOUS
    <3>2. t \in Common(ps)
      BY <2>5, <2>7, <3>1, TimebaseIsLeast
    <3>3. PICK f \in Nat \ {0} : f = ps[n].sampling_frequency
      BY <2>5, <2>7 DEF Timed
    <3>4. t \in Nat \ {0} /\ t < w /\ t % f = 0
      <4>1. t \in 1 .. WordModulus \div 2 - 1 /\ t % f = 0
        BY <2>7, <3>2, <3>3 DEF Common
      <4>2. WordModulus \div 2 \in Int
        BY BusAssumption
      <4> QED BY <2>6, <4>1, <4>2
    <3>5. PICK k \in Nat, r \in 0 .. f - 1 : t = f * k + r /\ k = t \div f /\ r = t % f
      BY <3>4, Division
    <3>6. t = f * k /\ k = t \div f /\ k # 0 /\ k <= t
      <4>1. r = 0 /\ f * 0 = 0
        BY <3>3, <3>4, <3>5
      <4>2. \A x \in Nat : x <= f * x
        OBVIOUS
      <4> QED BY <3>4, <3>5, <4>1, <4>2
    <3>7. RunsEvery(n) = k
      <4>1. ToUnsigned(t) = t
        BY <2>6, <3>4, FitsMod DEF ToUnsigned
      <4>2. Divider(ps[n], t) = k
        BY <3>3, <3>6, <4>1 DEF Divider
      <4>3. k - 1 \in Nat /\ k - 1 < w
        BY <3>4, <3>6
      <4>4. (k - 1) % w = k - 1
        BY <4>3, FitsMod
      <4> QED BY <2>4, <2>6, <3>1, <4>2, <4>3, <4>4 DEF RunsEvery
    <3>8. PICK p \in Nat, x \in 0 .. t - 1 : h = t * p + x /\ p = h \div t
      BY <2>6, <3>4, Division
    <3>9. PeriodSet = p
      <4>1. p <= h
        <5>1. \A y \in Nat : y <= t * y
          BY <3>4
        <5> QED BY <2>6, <3>4, <3>8, <5>1
      <4>2. ToUnsigned(p) = p
        BY <2>6, <3>8, <4>1, FitsMod DEF ToUnsigned
      <4>3. Truncated(HilClock, t) = p
        BY <2>6, <3>4, <3>8 DEF Truncated
      <4> QED BY <2>4, <3>1, <3>4, <4>2, <4>3 DEF TimebasePeriod
    <3>10. perSecond(n, p) = t * p /\ perSecond(n, p + 1) = t * p + t
      <4>1. perSecond(n, p) = k * f * p /\ perSecond(n, p + 1) = k * f * (p + 1)
        BY <3>3, <3>7
      <4>2. k * f = t
        BY <3>6
      <4>3. t * (p + 1) = t * p + t
        BY <3>4, <3>8
      <4> QED BY <4>1, <4>2, <4>3
    <3>11. t * p \in Nat /\ t * p <= t * p + x /\ t * p + x < t * p + t
      BY <3>4, <3>8
    <3> QED BY <2>6, <3>8, <3>9, <3>10, <3>11
  <2> QED BY <2>2, <2>7 DEF CoresAtTheirFrequency, ps
<1>2. Spec => []LogInvariant
  BY LogIsInvariant
<1> QED BY <1>1, <1>2, PTL
=============================================================================
