----------------------- MODULE CustomDeployer_proofs -----------------------
(***************************************************************************)
(* The bracket of a hardware simulation is kept by custom deployments,     *)
(* which run on the same bus: HilDeployer_proofs proves it of the commands *)
(* of hil_deployer, and here the steps of custom_deployer are added.  The  *)
(* invariant says that between two steps either the bracket of             *)
(* HilDeployer_proofs holds or a custom deployment runs, with the bus      *)
(* enabled; then no step but its own and a signal can come.                *)
(*                                                                         *)
(* A custom deployment that completes is in the hardware: its calls are    *)
(* those the specification asks for, and each call that has been made      *)
(* stays in the hardware until the last one is.                            *)
(*                                                                         *)
(* A part follows that is what HilDeployer_proofs proves of the log, with  *)
(* custom deployments between the other commands: they only add to it.     *)
(*                                                                         *)
(* The last part is about the constants of a custom deployment.  A         *)
(* constant is set by three lines of the log in a row; once they are       *)
(* there, a line that sets the same selector of the engine sets it to the  *)
(* same value, since the other calls of the deployment set another         *)
(* selector or none.                                                       *)
(***************************************************************************)
EXTENDS CustomDeployer, HilDeployer_proofs

CustomPc ==
  [phase : {"custom"}, cmd : {"deploy"}, spec : CustomSpecs,
   i : Nat, j : Nat, k : Nat, n : Nat]

RunningCustom ==
  /\ pc \in CustomPc /\ up = TRUE
  /\ sink_mode = FALSE /\ previous_sink_mode = FALSE

CoresBracket == Bracket \/ RunningCustom

\* A custom deployment is no phase of deploy() of hil_deployer, nor idle.
LEMMA CustomIsApart ==
  /\ "custom" \notin Range(Phases) /\ Idle \notin CustomPc
  /\ Bracket => pc.phase # "custom"
BY PhaseNames, IdleOrRunning DEF CustomPc, Idle, Running, RunningPc, Bracket

\* What a custom deployment leaves behind it, or goes on to.
CustomSound == CoresBracket' /\ pc'.cmd # "sim"

\* Idle, with the bus enabled, is in the bracket whether the process goes on or not.
LEMMA IdleInBracket ==
  ASSUME sink_mode' = FALSE, previous_sink_mode' = FALSE, up' \in BOOLEAN, pc' = Idle
  PROVE  CustomSound
BY IdleIsNotRunning DEF CustomSound, CoresBracket, Bracket, Running

\* One more call of custom_deployer::deploy.
LEMMA CustomCallSound ==
  ASSUME RunningCustom, NEW c, CustomCall(c)
  PROVE  CustomSound
<1> DEFINE next == [pc EXCEPT !.j = @ + 1]
<1>1. next \in CustomPc /\ next.cmd = "deploy"
  BY DEF RunningCustom, CustomPc
<1>2. \/ \E stores : WriteThen(stores, next)
      \/ LoadThen(c.address, c.data, next)
      \/ Throw
  BY Zenon DEF CustomCall
<1> HIDE DEF next
<1>3. ASSUME up' \in BOOLEAN, UNCHANGED <<sink_mode, previous_sink_mode>>,
             pc' = IF up' THEN next ELSE Idle
      PROVE  CustomSound
  <2>1. CASE up'
    BY <1>1, <1>3, <2>1 DEF CustomSound, CoresBracket, RunningCustom
  <2>2. CASE ~up'
    BY <1>3, <2>2, IdleInBracket DEF RunningCustom
  <2> QED BY <2>1, <2>2
<1>4. CASE \E stores : WriteThen(stores, next)
  <2>1. up' \in BOOLEAN /\ UNCHANGED <<sink_mode, previous_sink_mode>>
    BY <1>4, DirectWritesKeepBracket DEF WriteThen, RunningCustom
  <2>2. pc' = IF up' THEN next ELSE Idle
    BY <1>4, <2>1 DEF WriteThen
  <2> QED BY <1>3, <2>1, <2>2
<1>5. CASE LoadThen(c.address, c.data, next)
  <2>1. up' \in BOOLEAN /\ UNCHANGED <<sink_mode, previous_sink_mode>>
    BY <1>5 DEF LoadThen, apply_program, load_program
  <2>2. pc' = IF up' THEN next ELSE Idle
    BY <1>5, <2>1 DEF LoadThen
  <2> QED BY <1>3, <2>1, <2>2
<1>6. CASE Throw
  BY <1>6, IdleInBracket DEF Throw, RunningCustom
<1> QED BY <1>2, <1>4, <1>5, <1>6

\* While one runs, the only step of the rest of the server is the end by a signal.
LEMMA OnlySignals ==
  ASSUME RunningCustom, ServerStep
  PROVE  Terminate
BY DEF RunningCustom, CustomPc, ServerStep, DeployHil, HilHardwareSim, DeployStep, LoadCore,
       ComputeTimebase, RaiseTimebaseDivider, NextDivider, SetupInterconnectIv,
       SetupOutputEntry, FinishOutputDma, SetupMemory, SetupInput, FinishInput,
       FinishCoreInputs, SetupSequencer, SetupCore, EndOfLoop, FinishDeploy, FinishSimulation,
       HilStart, HilStop, HilSelectOut, HilSetIn, LoadBitstream, SetAddressMap, GetAddressMap,
       GetSamplingFrequency, Answer, CanServe, At

\* The steps custom_deployer adds.
LEMMA CustomStepSound ==
  ASSUME CoresBracket, DeployCustom \/ CustomStep
  PROVE  CustomSound /\ pc.cmd # "sim"
<1>1. CASE DeployCustom
  <2>1. PICK s \in CustomSpecs : process_deploy_custom(s)
    BY <1>1 DEF DeployCustom
  <2>2. Bracket /\ pc = Idle /\ up
    BY <1>1, IdleOrRunning DEF CoresBracket, RunningCustom, CustomPc, DeployCustom, CanServe, At
  <2>3. up' \in BOOLEAN /\ sink_mode' = FALSE /\ previous_sink_mode' = FALSE
    BY <2>1, <2>2, IdleIsNotRunning DEF process_deploy_custom, Bracket
  <2>4. CASE SpecData[s].set_specs = "ok"
    <3>1. pc' = [Idle EXCEPT !.phase = "custom", !.cmd = "deploy", !.spec = s] /\ up' = TRUE
      BY <2>1, <2>4 DEF process_deploy_custom
    <3>2. pc' \in CustomPc /\ pc'.cmd = "deploy"
      BY <3>1 DEF Idle, CustomPc
    <3> QED BY <2>2, <2>3, <3>1, <3>2, IdleIsNotRunning
            DEF CustomSound, CoresBracket, RunningCustom
  <2>5. CASE SpecData[s].set_specs # "ok"
    BY <2>1, <2>2, <2>3, <2>5, IdleInBracket, IdleIsNotRunning DEF process_deploy_custom
  <2> QED BY <2>4, <2>5
<1>2. CASE CustomStep
  <2>1. RunningCustom
    BY <1>2, CustomIsApart DEF CoresBracket, CustomStep, At
  <2>2. (\E c : CustomCall(c)) \/ FinishCustom
    BY <1>2 DEF CustomStep
  <2>3. FinishCustom => CustomSound
    BY <2>1, IdleInBracket DEF FinishCustom, busVars, RunningCustom
  <2>4. CustomSound
    BY <2>1, <2>2, <2>3, CustomCallSound
  <2> QED BY <2>1, <2>4 DEF RunningCustom, CustomPc
<1> QED BY <1>1, <1>2

\* The inductive step, for both deployers.
LEMMA CoresBracketNext ==
  ASSUME CoresBracket, [CoresNext]_coresVars
  PROVE  /\ CoresBracket'
         /\ (pc'.cmd = "sim" \/ pc.cmd = "sim") => UNCHANGED hardwareVars
<1>1. CASE DeployCustom \/ CustomStep
  BY <1>1, CustomStepSound DEF CustomSound
<1>2. CASE Bracket /\ [Next]_vars
  BY <1>2, BracketNext DEF CoresBracket
<1>3. CASE RunningCustom /\ ServerStep
  <2>1. Terminate
    BY <1>3, OnlySignals
  <2> QED BY <1>3, <2>1, IdleInBracket
          DEF Terminate, process_exit, hardwareVars, CustomSound, RunningCustom
<1>4. CASE RunningCustom /\ UNCHANGED vars
  BY <1>4 DEF vars, busVars, hardwareVars, CoresBracket, RunningCustom
<1>5. ~(RunningCustom /\ Relaunch)
  BY DEF RunningCustom, Relaunch
<1> QED BY <1>1, <1>2, <1>3, <1>4, <1>5 DEF CoresBracket, CoresNext, Next, coresVars

\* Either deployer may run, and the bus is disabled only while a simulation is
\* collected.
THEOREM CoresBracketInvariant == CoresSpec => []CoresBracket
<1>1. CoresInit => CoresBracket
  BY BracketInit DEF CoresInit, CoresBracket
<1> QED BY <1>1, CoresBracketNext, PTL DEF CoresSpec

\* No command, a custom deployment included, finds the bus disabled.
THEOREM CoresAccessIsRestored == CoresSpec => []AccessRestored
<1>1. CoresBracket => AccessRestored
  BY IdleOrRunning DEF CoresBracket, Bracket, RunningCustom, CustomPc, AccessRestored, Idle
<1> QED BY <1>1, CoresBracketInvariant, PTL

\* Beside a custom deployer, too, a simulation never changes the hardware.
THEOREM CoresSimulationSparesHardware == CoresSpec => SimulationLeavesHardware
<1>1. ASSUME CoresBracket, [CoresNext]_coresVars
      PROVE  [pc'.cmd = "sim" \/ pc.cmd = "sim"
                => UNCHANGED <<operating, registers, fCore>>]_vars
  BY <1>1, CoresBracketNext DEF hardwareVars
<1> QED BY <1>1, CoresBracketInvariant, PTL DEF CoresSpec, SimulationLeavesHardware

----------------------------------------------------------------------------
(* The calls of a custom deployment are those its specification asks for *)

\* The vectors of a custom specification, by their lengths.
LEMMA CustomSequences ==
  ASSUME NEW s \in CustomSpecs
  PROVE  /\ Len(ProgramSeq(s)) \in Nat /\ DOMAIN ProgramSeq(s) = 1 .. Len(ProgramSeq(s))
         /\ Len(Slots(s)) \in Nat /\ DOMAIN Slots(s) = 1 .. Len(Slots(s))
         /\ \A i \in DOMAIN ProgramSeq(s) :
              /\ ProgramSeq(s)[i] \in ProgramsOf(s) /\ ProgramSeq(s)[i].n_channels \in Nat
              /\ IsSequence(ProgramSeq(s)[i].binary)
              /\ Len(InputsAt(s, i)) \in Nat /\ DOMAIN InputsAt(s, i) = 1 .. Len(InputsAt(s, i))
              /\ Len(MemoryOf(s, ProgramSeq(s)[i])) \in Nat
              /\ DOMAIN MemoryOf(s, ProgramSeq(s)[i]) = 1 .. Len(MemoryOf(s, ProgramSeq(s)[i]))
<1>1. /\ IsSequence(SpecData[s].programs) /\ IsSequence(SpecData[s].slots)
      /\ \A p \in Range(SpecData[s].programs) :
           /\ p.n_channels \in Nat /\ IsSequence(p.binary)
           /\ IsSequence(SpecData[s].inputs[p.name]) /\ IsSequence(SpecData[s].memories[p.name])
  BY CustomSpecAssumption
<1>2. \A i \in DOMAIN ProgramSeq(s) : ProgramSeq(s)[i] \in Range(SpecData[s].programs)
  BY DEF ProgramSeq, Range
<1> QED BY <1>1, <1>2, SequenceDomain DEF ProgramSeq, ProgramsOf, Slots, InputsAt, MemoryOf

\* The inputs and the memories of a core.
LEMMA CustomParts ==
  ASSUME NEW s \in CustomSpecs, NEW i \in DOMAIN ProgramSeq(s)
  PROVE  /\ \A x \in DOMAIN InputsAt(s, i) :
              InputsAt(s, i)[x].address \in Nat /\ Len(InputsAt(s, i)[x].data) \in Nat
         /\ \A n \in DOMAIN MemoryOf(s, ProgramSeq(s)[i]) :
              /\ MemoryOf(s, ProgramSeq(s)[i])[n].address \in Nat
              /\ Len(MemoryOf(s, ProgramSeq(s)[i])[n].value) \in Nat
<1>1. ProgramSeq(s)[i] \in Range(SpecData[s].programs)
  BY DEF ProgramSeq, Range
<1>2. /\ \A in \in Range(InputsAt(s, i)) : in.address \in Nat /\ IsSequence(in.data)
      /\ \A m \in Range(MemoryOf(s, ProgramSeq(s)[i])) : m.address \in Nat /\ IsSequence(m.value)
  BY <1>1, CustomSpecAssumption DEF InputsAt, MemoryOf
<1> QED BY <1>2, SequenceDomain DEF Range

\* A sequence by its elements, and one of a single element.
LEMMA ListIsSequence ==
  ASSUME NEW n \in Nat, NEW x, x = [i \in 1 .. n |-> x[i]]
  PROVE  IsSequence(x)
<1>1. \A i \in 1 .. n : x[i] \in Range(x)
  BY DEF Range
<1>2. x \in Seq(Range(x))
  BY <1>1
<1> QED BY <1>2 DEF IsSequence

\* A sequence of one element.
LEMMA OneElement ==
  ASSUME NEW e
  PROVE  IsSequence(<<e>>) /\ \A x : x \in Range(<<e>>) <=> x = e
<1>1. <<e>> \in Seq({e})
  OBVIOUS
<1>2. IsSequence(<<e>>)
  BY <1>1, SequenceIntro
<1>3. DOMAIN <<e>> = {1} /\ <<e>>[1] = e
  OBVIOUS
<1> QED BY <1>2, <1>3 DEF Range

\* The calls for a channel of an input, and those for all of its channels.
LEMMA InputCallIsSequence ==
  ASSUME NEW s, NEW i, NEW x, NEW channel
  PROVE  IsSequence(InputCall(s, i, x, channel))
<1>1. IsSequence(<<>>)
  BY DEF IsSequence
<1>2. \A e : IsSequence(<<e>>)
  BY OneElement
<1> QED BY <1>1, <1>2 DEF InputCall

ChannelsAt(s, i, x) == CustomChannels(ProgramSeq(s)[i], InputsAt(s, i)[x])

\* The loop over the channels ends.
LEMMA ChannelsType ==
  ASSUME NEW s \in CustomSpecs, NEW i \in DOMAIN ProgramSeq(s), NEW x \in DOMAIN InputsAt(s, i)
  PROVE  ChannelsAt(s, i, x) \in Nat
<1>1. Len(InputsAt(s, i)[x].data) \in Nat
  BY CustomParts
<1>2. PICK l \in Nat : l = Len(InputsAt(s, i)[x].data)
  BY <1>1
<1>3. (l + 1) \div 2 \in Nat
  <2>1. \A n \in Nat : (n + 1) \div 2 \in Nat
    BY SMT
  <2> QED BY <1>2, <2>1
<1> QED BY <1>2, <1>3 DEF ChannelsAt, CustomChannels

\* The calls for the channels of an input are those for each channel.
LEMMA ChannelCallsAre ==
  ASSUME NEW s \in CustomSpecs, NEW i \in DOMAIN ProgramSeq(s), NEW x \in DOMAIN InputsAt(s, i)
  PROVE  /\ IsSequence(ChannelCalls(s, i, x))
         /\ \A c : c \in Range(ChannelCalls(s, i, x)) <=>
              \E ch \in 0 .. ChannelsAt(s, i, x) - 1 : c \in Range(InputCall(s, i, x, ch))
<1> DEFINE N == ChannelsAt(s, i, x)
           seqs == [c \in 1 .. N |-> InputCall(s, i, x, c - 1)]
<1>1. N \in Nat
  BY ChannelsType
<1>2. ChannelCalls(s, i, x) = FlattenSeq(seqs)
  BY DEF ChannelCalls, ChannelsAt
<1> HIDE DEF N
<1>3. Parts(seqs, N)
  BY InputCallIsSequence DEF Parts
<1>4. \A n \in 1 .. N : seqs[n] = InputCall(s, i, x, n - 1)
  OBVIOUS
<1> HIDE DEF seqs
<1>5. Gathers(FlattenSeq(seqs), seqs, N)
  BY <1>1, <1>3, FlattenGathers
<1>6. /\ IsSequence(ChannelCalls(s, i, x))
      /\ \A c : c \in Range(ChannelCalls(s, i, x)) <=> \E n \in 1 .. N : c \in Range(seqs[n])
  BY <1>2, <1>5 DEF Gathers
<1>7. ASSUME NEW c, NEW n \in 1 .. N, c \in Range(seqs[n])
      PROVE  \E ch \in 0 .. N - 1 : c \in Range(InputCall(s, i, x, ch))
  <2>1. n - 1 \in 0 .. N - 1
    BY <1>1
  <2> QED BY <1>4, <1>7, <2>1
<1>8. ASSUME NEW c, NEW ch \in 0 .. N - 1, c \in Range(InputCall(s, i, x, ch))
      PROVE  \E n \in 1 .. N : c \in Range(seqs[n])
  <2>1. ch + 1 \in 1 .. N /\ (ch + 1) - 1 = ch
    BY <1>1
  <2>2. seqs[ch + 1] = InputCall(s, i, x, ch)
    BY <1>4, <2>1
  <2> QED BY <1>8, <2>1, <2>2
<1> QED BY <1>6, <1>7, <1>8 DEF N

\* Those for the inputs of a core.
LEMMA InputCallsAre ==
  ASSUME NEW s \in CustomSpecs, NEW i \in DOMAIN ProgramSeq(s)
  PROVE  /\ IsSequence(InputCalls(s, i))
         /\ \A c : c \in Range(InputCalls(s, i)) <=>
              \E x \in DOMAIN InputsAt(s, i) : \E ch \in 0 .. ChannelsAt(s, i, x) - 1 :
                c \in Range(InputCall(s, i, x, ch))
<1> DEFINE N == Len(InputsAt(s, i))
           seqs == [x \in 1 .. N |-> ChannelCalls(s, i, x)]
<1>1. N \in Nat /\ DOMAIN InputsAt(s, i) = 1 .. N
  BY CustomSequences
<1>2. InputCalls(s, i) = FlattenSeq(seqs)
  BY <1>1 DEF InputCalls
<1> HIDE DEF N
<1>3. Parts(seqs, N)
  BY <1>1, ChannelCallsAre DEF Parts
<1>4. \A n \in 1 .. N : seqs[n] = ChannelCalls(s, i, n)
  OBVIOUS
<1> HIDE DEF seqs
<1>5. Gathers(FlattenSeq(seqs), seqs, N)
  BY <1>1, <1>3, FlattenGathers
<1>6. /\ IsSequence(InputCalls(s, i))
      /\ \A c : c \in Range(InputCalls(s, i)) <=> \E n \in 1 .. N : c \in Range(seqs[n])
  BY <1>2, <1>5 DEF Gathers
<1>7. \A n \in 1 .. N : \A c : c \in Range(seqs[n]) <=>
        \E ch \in 0 .. ChannelsAt(s, i, n) - 1 : c \in Range(InputCall(s, i, n, ch))
  BY <1>1, <1>4, ChannelCallsAre
<1> QED BY <1>1, <1>6, <1>7

\* The slots that leave from a core, one after the other.
LEMMA SlotsInTurn ==
  ASSUME NEW s \in CustomSpecs, NEW p
  PROVE  /\ Cardinality(SlotsOf(s, p)) \in Nat
         /\ \A j \in SlotsOf(s, p) : /\ SlotRank(s, p, j) + 1 \in 1 .. Cardinality(SlotsOf(s, p))
                                     /\ SlotRank(s, p, j) \in Nat
                                     /\ Nth(SlotsOf(s, p), SlotRank(s, p, j) + 1) = j
         /\ \A n \in 1 .. Cardinality(SlotsOf(s, p)) :
              /\ Nth(SlotsOf(s, p), n) \in SlotsOf(s, p)
              /\ SlotRank(s, p, Nth(SlotsOf(s, p), n)) = n - 1
<1> DEFINE L == SlotsOf(s, p)
           N == Len(Slots(s))
<1>1. N \in Nat /\ L \in SUBSET (1 .. N)
  BY CustomSequences DEF SlotsOf
<1>2. IsFiniteSet(L) /\ Cardinality(L) \in Nat
  <2>1. IsFiniteSet(1 .. N)
    BY <1>1, FS_Interval
  <2> HIDE DEF L, N
  <2> QED BY <1>1, <2>1, FS_Subset, FS_CardinalityType
<1>3. ASSUME NEW j \in L
      PROVE  SlotRank(s, p, j) \in Nat /\ Cardinality(L \cap (1 .. j)) = SlotRank(s, p, j) + 1
  <2> DEFINE T == {i \in L : i < j}
  <2>1. T \subseteq L /\ j \notin T /\ L \cap (1 .. j) = T \union {j}
    BY <1>1
  <2>2. SlotRank(s, p, j) = Cardinality(T)
    BY DEF SlotRank
  <2> HIDE DEF T, L
  <2>3. IsFiniteSet(T) /\ Cardinality(T) \in Nat
    BY <1>2, <2>1, FS_Subset, FS_CardinalityType
  <2>4. Cardinality(T \union {j}) = Cardinality(T) + 1
    BY <2>1, <2>3, FS_AddElement
  <2> QED BY <2>1, <2>2, <2>3, <2>4
<1> HIDE DEF L, N
<1>4. ASSUME NEW j \in L
      PROVE  SlotRank(s, p, j) + 1 \in 1 .. Cardinality(L) /\ Nth(L, SlotRank(s, p, j) + 1) = j
  <2>1. Cardinality(L \cap (1 .. j)) \in 1 .. Cardinality(L) /\ Nth(L, Cardinality(L \cap (1 .. j))) = j
    BY <1>1, NthPosition
  <2> QED BY <1>3, <2>1
<1>5. ASSUME NEW n \in 1 .. Cardinality(L)
      PROVE  Nth(L, n) \in L /\ SlotRank(s, p, Nth(L, n)) = n - 1
  <2>1. Nth(L, n) \in L /\ Cardinality(L \cap (1 .. Nth(L, n))) = n
    BY <1>1, NthIsPosition
  <2>2. PICK j \in L : j = Nth(L, n)
    BY <2>1
  <2>3. SlotRank(s, p, j) \in Nat /\ SlotRank(s, p, j) + 1 = n
    BY <1>3, <2>1, <2>2
  <2> QED BY <2>2, <2>3
<1> QED BY <1>2, <1>3, <1>4, <1>5 DEF L

\* A slot that leaves from a core is written to its DMA, or cannot be.
SlotCall(s, i, j) ==
  IF SlotFits(Slots(s)[j])
    THEN WriteAll(SlotStores(Slots(s)[j], CustomDma(i), SlotRank(s, ProgramSeq(s)[i], j), <<>>))
    ELSE ThrowCall

\* Those for its slots, and the one that writes how many there are.
LEMMA DmaCallsAre ==
  ASSUME NEW s \in CustomSpecs, NEW i \in DOMAIN ProgramSeq(s)
  PROVE  /\ IsSequence(DmaCalls(s, i))
         /\ \A c : c \in Range(DmaCalls(s, i)) <=>
              \/ c = WriteAll(<<<<CustomDma(i), Cardinality(SlotsOf(s, ProgramSeq(s)[i]))>>>>)
              \/ \E j \in SlotsOf(s, ProgramSeq(s)[i]) : c = SlotCall(s, i, j)
<1> DEFINE L == SlotsOf(s, ProgramSeq(s)[i])
           N == Cardinality(L)
           entry(n) == LET e == Slots(s)[Nth(L, n)]
                       IN IF SlotFits(e) THEN WriteAll(SlotStores(e, CustomDma(i), n - 1, <<>>))
                                         ELSE ThrowCall
           entries == [n \in 1 .. N |-> entry(n)]
           last == WriteAll(<<<<CustomDma(i), N>>>>)
<1>1. DmaCalls(s, i) = entries \o <<last>>
  BY DEF DmaCalls, SlotsOf
<1>2. /\ N \in Nat
      /\ \A j \in L : /\ SlotRank(s, ProgramSeq(s)[i], j) + 1 \in 1 .. N
                      /\ SlotRank(s, ProgramSeq(s)[i], j) \in Nat
                      /\ Nth(L, SlotRank(s, ProgramSeq(s)[i], j) + 1) = j
      /\ \A n \in 1 .. N : Nth(L, n) \in L /\ SlotRank(s, ProgramSeq(s)[i], Nth(L, n)) = n - 1
  BY SlotsInTurn
<1> HIDE DEF N
<1>3. \A n \in 1 .. N : entry(n) = SlotCall(s, i, Nth(L, n))
  BY <1>2 DEF SlotCall
<1>4. ASSUME NEW j \in L PROVE \E n \in 1 .. N : entry(n) = SlotCall(s, i, j)
  BY <1>2, <1>3
<1> HIDE DEF entry, L
<1>5. IsSequence(entries) /\ \A c : c \in Range(entries) <=> \E n \in 1 .. N : c = entry(n)
  <2>1. entries = [n \in 1 .. N |-> entries[n]]
    OBVIOUS
  <2>2. IsSequence(entries)
    <3> HIDE DEF entries
    <3> QED BY <1>2, <2>1, ListIsSequence
  <2> QED BY <2>2 DEF Range
<1>6. IsSequence(<<last>>) /\ \A c : c \in Range(<<last>>) <=> c = last
  BY OneElement
<1> HIDE DEF entries, last
<1>7. IsSequence(entries \o <<last>>) /\ Range(entries \o <<last>>) = Range(entries) \union Range(<<last>>)
  BY <1>5, <1>6, RangeOfConcat
<1>8. \A c : c \in Range(entries \o <<last>>) <=> c = last \/ \E j \in L : c = SlotCall(s, i, j)
  <2>1. \A c : c \in Range(entries) <=> \E j \in L : c = SlotCall(s, i, j)
    BY <1>2, <1>3, <1>4, <1>5
  <2> QED BY <1>6, <1>7, <2>1
<1> QED BY <1>1, <1>7, <1>8 DEF last, L, N

\* Those for its memories.
LEMMA MemoryCallsAre ==
  ASSUME NEW s \in CustomSpecs, NEW i \in DOMAIN ProgramSeq(s)
  PROVE  /\ IsSequence(MemoryCalls(s, i))
         /\ \A c : c \in Range(MemoryCalls(s, i)) <=>
              \E m \in Range(MemoryOf(s, ProgramSeq(s)[i])) :
                c = WriteAll(MemoryStores(ProgramSeq(s)[i].options.control_address,
                                          ProgramSeq(s)[i].n_channels, m))
<1> DEFINE p == ProgramSeq(s)[i]
           memory == MemoryOf(s, p)
           N == Len(memory)
           call(m) == WriteAll(MemoryStores(p.options.control_address, p.n_channels, m))
           calls == [n \in 1 .. N |-> call(memory[n])]
<1>1. N \in Nat /\ DOMAIN memory = 1 .. N
  BY CustomSequences
<1> HIDE DEF N
<1>2. MemoryCalls(s, i) = calls
  BY <1>1 DEF MemoryCalls, MemoryOf
<1> HIDE DEF call, memory
<1>3. IsSequence(calls)
  <2>1. calls = [n \in 1 .. N |-> calls[n]]
    OBVIOUS
  <2> HIDE DEF calls
  <2> QED BY <1>1, <2>1, ListIsSequence
<1>4. \A c : c \in Range(calls) <=> \E m \in Range(memory) : c = call(m)
  BY <1>1 DEF Range
<1> QED BY <1>2, <1>3, <1>4 DEF call, memory

\* The calls for one core, whichever loop makes them.
LoadCallOf(s, i) == Call("load_core", Options(s, i).rom_address, ProgramSeq(s)[i].binary)
CoreCallOf(s, i) ==
  WriteAll(<<<<Options(s, i).control_address,
               Max({ProgramSeq(s)[i].n_channels, IF Options(s, i).has_reciprocal THEN 11 ELSE 8})>>>>)
IsDmaCall(s, i, c) ==
  \/ c = WriteAll(<<<<CustomDma(i), Cardinality(SlotsOf(s, ProgramSeq(s)[i]))>>>>)
  \/ \E j \in SlotsOf(s, ProgramSeq(s)[i]) : c = SlotCall(s, i, j)
IsMemoryCall(s, i, c) ==
  \E m \in Range(MemoryOf(s, ProgramSeq(s)[i])) :
    c = WriteAll(MemoryStores(ProgramSeq(s)[i].options.control_address, ProgramSeq(s)[i].n_channels, m))
IsInputCall(s, i, c) ==
  \E x \in DOMAIN InputsAt(s, i) : \E ch \in 0 .. ChannelsAt(s, i, x) - 1 :
    c \in Range(InputCall(s, i, x, ch))
CalledFor(s, i, c) ==
  \/ c = LoadCallOf(s, i) \/ IsDmaCall(s, i, c) \/ IsMemoryCall(s, i, c)
  \/ IsInputCall(s, i, c) \/ c = CoreCallOf(s, i)

\* custom_deployer::deploy makes those calls for all of its cores, and no others.
LEMMA CustomCallsAre ==
  ASSUME NEW s \in CustomSpecs
  PROVE  /\ IsSequence(CustomCalls(s))
         /\ \A c : c \in Range(CustomCalls(s)) <=> \E i \in DOMAIN ProgramSeq(s) : CalledFor(s, i, c)
<1> DEFINE N == Len(ProgramSeq(s))
           loads == [i \in 1 .. N |-> LoadCalls(s, i)]
           dmas == [i \in 1 .. N |-> DmaCalls(s, i)]
           memories == [i \in 1 .. N |-> MemoryCalls(s, i)]
           ins == [i \in 1 .. N |-> InputCalls(s, i)]
           sets == [i \in 1 .. N |-> CoreCalls(s, i)]
<1>1. N \in Nat /\ DOMAIN ProgramSeq(s) = 1 .. N
  BY CustomSequences
<1>2. CustomCalls(s) = FlattenSeq(loads) \o FlattenSeq(dmas) \o FlattenSeq(memories)
                         \o FlattenSeq(ins) \o FlattenSeq(sets)
  BY <1>1 DEF CustomCalls
<1> HIDE DEF N
<1>3. /\ \A i \in 1 .. N : /\ loads[i] = LoadCalls(s, i) /\ dmas[i] = DmaCalls(s, i)
                           /\ memories[i] = MemoryCalls(s, i) /\ ins[i] = InputCalls(s, i)
                           /\ sets[i] = CoreCalls(s, i)
      /\ loads = [i \in 1 .. N |-> loads[i]] /\ dmas = [i \in 1 .. N |-> dmas[i]]
      /\ memories = [i \in 1 .. N |-> memories[i]] /\ ins = [i \in 1 .. N |-> ins[i]]
      /\ sets = [i \in 1 .. N |-> sets[i]]
  OBVIOUS
<1> HIDE DEF loads, dmas, memories, ins, sets
<1>4. \A i \in 1 .. N :
        /\ IsSequence(loads[i]) /\ \A c : c \in Range(loads[i]) <=> c = LoadCallOf(s, i)
        /\ IsSequence(dmas[i]) /\ \A c : c \in Range(dmas[i]) <=> IsDmaCall(s, i, c)
        /\ IsSequence(memories[i]) /\ \A c : c \in Range(memories[i]) <=> IsMemoryCall(s, i, c)
        /\ IsSequence(ins[i]) /\ \A c : c \in Range(ins[i]) <=> IsInputCall(s, i, c)
        /\ IsSequence(sets[i]) /\ \A c : c \in Range(sets[i]) <=> c = CoreCallOf(s, i)
  <2> SUFFICES ASSUME NEW i \in 1 .. N
      PROVE /\ IsSequence(loads[i]) /\ \A c : c \in Range(loads[i]) <=> c = LoadCallOf(s, i)
            /\ IsSequence(dmas[i]) /\ \A c : c \in Range(dmas[i]) <=> IsDmaCall(s, i, c)
            /\ IsSequence(memories[i]) /\ \A c : c \in Range(memories[i]) <=> IsMemoryCall(s, i, c)
            /\ IsSequence(ins[i]) /\ \A c : c \in Range(ins[i]) <=> IsInputCall(s, i, c)
            /\ IsSequence(sets[i]) /\ \A c : c \in Range(sets[i]) <=> c = CoreCallOf(s, i)
    OBVIOUS
  <2>1. i \in DOMAIN ProgramSeq(s)
    BY <1>1
  <2>2. IsSequence(loads[i]) /\ \A c : c \in Range(loads[i]) <=> c = LoadCallOf(s, i)
    <3>1. loads[i] = <<LoadCallOf(s, i)>>
      BY <1>3 DEF LoadCalls, LoadCallOf
    <3> QED BY <3>1, OneElement
  <2>3. IsSequence(sets[i]) /\ \A c : c \in Range(sets[i]) <=> c = CoreCallOf(s, i)
    <3>1. sets[i] = <<CoreCallOf(s, i)>>
      BY <1>3 DEF CoreCalls, CoreCallOf
    <3> QED BY <3>1, OneElement
  <2>4. IsSequence(dmas[i]) /\ \A c : c \in Range(dmas[i]) <=> IsDmaCall(s, i, c)
    BY <1>3, <2>1, DmaCallsAre DEF IsDmaCall
  <2>5. IsSequence(memories[i]) /\ \A c : c \in Range(memories[i]) <=> IsMemoryCall(s, i, c)
    BY <1>3, <2>1, MemoryCallsAre DEF IsMemoryCall
  <2>6. IsSequence(ins[i]) /\ \A c : c \in Range(ins[i]) <=> IsInputCall(s, i, c)
    BY <1>3, <2>1, InputCallsAre DEF IsInputCall
  <2> QED BY <2>2, <2>3, <2>4, <2>5, <2>6
<1>5. /\ Gathers(FlattenSeq(loads), loads, N) /\ Gathers(FlattenSeq(dmas), dmas, N)
      /\ Gathers(FlattenSeq(memories), memories, N) /\ Gathers(FlattenSeq(ins), ins, N)
      /\ Gathers(FlattenSeq(sets), sets, N)
  <2>1. Parts(loads, N) /\ Parts(dmas, N) /\ Parts(memories, N) /\ Parts(ins, N) /\ Parts(sets, N)
    BY <1>3, <1>4 DEF Parts
  <2> QED BY <1>1, <2>1, FlattenGathers
<1> DEFINE a == FlattenSeq(loads)
           b == FlattenSeq(dmas)
           d == FlattenSeq(memories)
           e == FlattenSeq(ins)
           f == FlattenSeq(sets)
<1>6. IsSequence(a) /\ IsSequence(b) /\ IsSequence(d) /\ IsSequence(e) /\ IsSequence(f)
  BY <1>5 DEF Gathers
<1>7. /\ \A c : c \in Range(a) <=> \E i \in 1 .. N : c = LoadCallOf(s, i)
      /\ \A c : c \in Range(b) <=> \E i \in 1 .. N : IsDmaCall(s, i, c)
      /\ \A c : c \in Range(d) <=> \E i \in 1 .. N : IsMemoryCall(s, i, c)
      /\ \A c : c \in Range(e) <=> \E i \in 1 .. N : IsInputCall(s, i, c)
      /\ \A c : c \in Range(f) <=> \E i \in 1 .. N : c = CoreCallOf(s, i)
  <2>1. \A c : c \in Range(a) <=> \E i \in 1 .. N : c = LoadCallOf(s, i)
    BY <1>4, <1>5 DEF Gathers
  <2>2. \A c : c \in Range(b) <=> \E i \in 1 .. N : IsDmaCall(s, i, c)
    BY <1>4, <1>5 DEF Gathers
  <2>3. \A c : c \in Range(d) <=> \E i \in 1 .. N : IsMemoryCall(s, i, c)
    BY <1>4, <1>5 DEF Gathers
  <2>4. \A c : c \in Range(e) <=> \E i \in 1 .. N : IsInputCall(s, i, c)
    BY <1>4, <1>5 DEF Gathers
  <2>5. \A c : c \in Range(f) <=> \E i \in 1 .. N : c = CoreCallOf(s, i)
    BY <1>4, <1>5 DEF Gathers
  <2> QED BY <2>1, <2>2, <2>3, <2>4, <2>5
<1> HIDE DEF a, b, d, e, f
<1>8. IsSequence(a \o b) /\ Range(a \o b) = Range(a) \union Range(b)
  BY <1>6, RangeOfConcat
<1>9. IsSequence(a \o b \o d) /\ Range(a \o b \o d) = Range(a \o b) \union Range(d)
  BY <1>6, <1>8, RangeOfConcat
<1>10. IsSequence(a \o b \o d \o e) /\ Range(a \o b \o d \o e) = Range(a \o b \o d) \union Range(e)
  BY <1>6, <1>9, RangeOfConcat
<1>11. /\ IsSequence(a \o b \o d \o e \o f)
       /\ Range(a \o b \o d \o e \o f) = Range(a \o b \o d \o e) \union Range(f)
  BY <1>6, <1>10, RangeOfConcat
<1>12. CustomCalls(s) = a \o b \o d \o e \o f
  BY <1>2 DEF a, b, d, e, f
<1>13. \A c : c \in Range(CustomCalls(s)) <=>
         c \in Range(a) \/ c \in Range(b) \/ c \in Range(d) \/ c \in Range(e) \/ c \in Range(f)
  BY <1>8, <1>9, <1>10, <1>11, <1>12
<1>14. \A c : c \in Range(CustomCalls(s)) <=> \E i \in 1 .. N : CalledFor(s, i, c)
  BY <1>7, <1>13 DEF CalledFor
<1> QED BY <1>1, <1>11, <1>12, <1>14

----------------------------------------------------------------------------
(* What they write is CustomExpected *)

\* What CustomExpected has of one core: of its slots, of its memories, of itself.
ControlAddress(s, i) == Options(s, i).control_address
SlotPair(s, i, j) ==
  {<<MappingAddress(CustomDma(i), SlotRank(s, ProgramSeq(s)[i], j)), SlotMapping(Slots(s)[j])>>,
   <<MetadataAddress(CustomDma(i), SlotRank(s, ProgramSeq(s)[i], j)), SlotMetadata(Slots(s)[j])>>}
MemoryWords(at, n_channels, m) ==
  {<<at + 4 * (m.address + MemoryShift * c), m.value[c + 1]>>
     : c \in IF Len(m.value) = n_channels THEN 0 .. n_channels - 1 ELSE {0}}
CoreExpects(s, i, w) ==
  \/ w = <<ControlAddress(s, i), CustomChannelsSet(ProgramSeq(s)[i])>>
  \/ w = <<CustomDma(i), Cardinality(SlotsOf(s, ProgramSeq(s)[i]))>>
  \/ \E j \in SlotsOf(s, ProgramSeq(s)[i]) : w \in SlotPair(s, i, j)
  \/ \E m \in Range(MemoryOf(s, ProgramSeq(s)[i])) :
       w \in MemoryWords(ControlAddress(s, i), ProgramSeq(s)[i].n_channels, m)

\* CustomExpected, core by core.
LEMMA CustomExpectedIs ==
  ASSUME NEW s, NEW w
  PROVE  w \in CustomExpected(s) <=> \E i \in DOMAIN ProgramSeq(s) : CoreExpects(s, i, w)
<1>1. ASSUME NEW i
      PROVE  w \in CustomDmaWrites(s, i) <=>
               \/ w = <<CustomDma(i), Cardinality(SlotsOf(s, ProgramSeq(s)[i]))>>
               \/ \E j \in SlotsOf(s, ProgramSeq(s)[i]) : w \in SlotPair(s, i, j)
  <2>1. CustomDmaWrites(s, i) =
          {<<CustomDma(i), Cardinality(SlotsOf(s, ProgramSeq(s)[i]))>>}
            \union UNION {SlotPair(s, i, j) : j \in SlotsOf(s, ProgramSeq(s)[i])}
    BY DEF CustomDmaWrites, CustomDma, SlotPair
  <2> QED BY <2>1
<1>2. ASSUME NEW i
      PROVE  w \in CustomMemoryWrites(s, ProgramSeq(s)[i]) <=>
               \E m \in Range(MemoryOf(s, ProgramSeq(s)[i])) :
                 w \in MemoryWords(ControlAddress(s, i), ProgramSeq(s)[i].n_channels, m)
  <2>1. CustomMemoryWrites(s, ProgramSeq(s)[i]) =
          UNION {MemoryWords(ControlAddress(s, i), ProgramSeq(s)[i].n_channels, m)
                   : m \in Range(MemoryOf(s, ProgramSeq(s)[i]))}
    BY DEF CustomMemoryWrites, MemoryWords, ControlAddress, Options, MemoryOf
  <2> QED BY <2>1
<1>3. w \in CustomExpected(s) <=>
        \E i \in DOMAIN ProgramSeq(s) :
          \/ w \in CustomDmaWrites(s, i) \/ w \in CustomMemoryWrites(s, ProgramSeq(s)[i])
          \/ w = <<ControlAddress(s, i), CustomChannelsSet(ProgramSeq(s)[i])>>
  BY DEF CustomExpected, ControlAddress, Options
<1> QED BY <1>1, <1>2, <1>3 DEF CoreExpects

\* A memory is written for each channel or once.
LEMMA MemoryStoresAre ==
  ASSUME NEW at, NEW n \in Nat, NEW m, m.address \in Nat, Len(m.value) = n => m.address < MemoryShift
  PROVE  /\ AreStores(MemoryStores(at, n, m))
         /\ \A w : w \in Range(MemoryStores(at, n, m)) <=> w \in MemoryWords(at, n, m)
<1> DEFINE store(c) == <<at + 4 * (m.address + MemoryShift * (c - 1)), m.value[c]>>
           word(c) == <<at + 4 * (m.address + MemoryShift * c), m.value[c + 1]>>
<1>1. MemoryShift \in Nat \ {0}
  BY HilAssumption
<1>2. CASE Len(m.value) = n
  <2>1. m.address % MemoryShift = m.address
    BY <1>1, <1>2, FitsMod
  <2>2. MemoryStores(at, n, m) = [c \in 1 .. n |-> store(c)]
    BY <1>2, <2>1 DEF MemoryStores
  <2>3. MemoryWords(at, n, m) = {word(c) : c \in 0 .. n - 1}
    BY <1>2 DEF MemoryWords
  <2>4. ASSUME NEW c \in 0 .. n - 1 PROVE c + 1 \in 1 .. n /\ store(c + 1) = word(c)
    <3>1. c + 1 \in 1 .. n /\ (c + 1) - 1 = c
      OBVIOUS
    <3> QED BY <3>1
  <2>5. ASSUME NEW c \in 1 .. n PROVE c - 1 \in 0 .. n - 1 /\ store(c) = word(c - 1)
    <3>1. c - 1 \in 0 .. n - 1 /\ (c - 1) + 1 = c
      OBVIOUS
    <3> QED BY <3>1
  <2>6. \A c : store(c) = <<store(c)[1], store(c)[2]>>
    OBVIOUS
  <2> HIDE DEF store, word
  <2> DEFINE stores == [c \in 1 .. n |-> store(c)]
  <2>7. \A w : w \in Range(stores) <=> \E c \in 1 .. n : w = store(c)
    BY DEF Range
  <2>8. IsSequence(stores)
    <3>1. stores = [c \in 1 .. n |-> stores[c]]
      OBVIOUS
    <3> HIDE DEF stores
    <3> QED BY <3>1, ListIsSequence
  <2>9. AreStores(stores)
    BY <2>6, <2>7, <2>8 DEF AreStores
  <2> HIDE DEF stores
  <2>10. \A w : w \in Range(stores) <=> w \in MemoryWords(at, n, m)
    BY <2>3, <2>4, <2>5, <2>7
  <2> QED BY <2>2, <2>9, <2>10 DEF stores
<1>3. CASE Len(m.value) # n
  <2>1. MemoryStores(at, n, m) = <<<<at + 4 * m.address, m.value[1]>>>>
    BY <1>3 DEF MemoryStores
  <2>2. m.address + MemoryShift * 0 = m.address
    BY <1>1
  <2>3. MemoryWords(at, n, m) = {<<at + 4 * m.address, m.value[1]>>}
    BY <1>3, <2>2 DEF MemoryWords
  <2> QED BY <2>1, <2>3, OneStore
<1> QED BY <1>2, <1>3

\* A slot that fits is two words.
LEMMA TwoStores ==
  ASSUME NEW a, NEW v, NEW b, NEW w
  PROVE  LET stores == <<<<a, v>>>> \o <<>> \o <<<<b, w>>>>
         IN AreStores(stores) /\ Range(stores) = {<<a, v>>, <<b, w>>}
<1> DEFINE x == <<a, v>>
           y == <<b, w>>
<1>1. /\ AreStores(<<x>>) /\ Range(<<x>>) = {x}
      /\ AreStores(<<y>>) /\ Range(<<y>>) = {y}
  BY OneStore
<1> HIDE DEF x, y
<1>2. <<x>> \o <<>> = <<x>>
  <2>1. <<x>> \in Seq({x})
    OBVIOUS
  <2> QED BY <2>1, Appending
<1>3. IsSequence(<<x>> \o <<y>>) /\ Range(<<x>> \o <<y>>) = {x} \union {y}
  BY <1>1, RangeOfConcat DEF AreStores
<1>4. \A z \in {x} \union {y} : z = <<z[1], z[2]>>
  BY <1>1 DEF AreStores
<1>5. AreStores(<<x>> \o <<>> \o <<y>>) /\ Range(<<x>> \o <<>> \o <<y>>) = {x, y}
  BY <1>2, <1>3, <1>4 DEF AreStores
<1> QED BY <1>5 DEF x, y

\* What is written for a slot is what CustomExpected has of it.
LEMMA SlotCallWrites ==
  ASSUME NEW s, NEW i, NEW j, SlotFits(Slots(s)[j])
  PROVE  /\ SlotCall(s, i, j).function = "write"
         /\ AreStores(SlotCall(s, i, j).data) /\ Range(SlotCall(s, i, j).data) = SlotPair(s, i, j)
<1> DEFINE n == SlotRank(s, ProgramSeq(s)[i], j)
           stores == SlotStores(Slots(s)[j], CustomDma(i), n, <<>>)
<1>1. SlotCall(s, i, j) = WriteAll(stores)
  BY DEF SlotCall
<1>2. AreStores(stores) /\ Range(stores) = SlotPair(s, i, j)
  BY TwoStores DEF SlotStores, SlotPair
<1> HIDE DEF stores
<1> QED BY <1>1, <1>2 DEF WriteAll, Call

\* setup_core sets the larger of the channels and their least number.
LEMMA CoreCallWrites ==
  ASSUME NEW s \in CustomSpecs, NEW i \in DOMAIN ProgramSeq(s)
  PROVE  CoreCallOf(s, i) = WriteAll(<<<<ControlAddress(s, i), CustomChannelsSet(ProgramSeq(s)[i])>>>>)
<1>1. ProgramSeq(s)[i].n_channels \in Nat
  BY CustomSequences
<1>2. PICK n \in Nat : n = ProgramSeq(s)[i].n_channels
  BY <1>1
<1>3. \A l \in Nat : Max({n, l}) = IF n > l THEN n ELSE l
  <2>1. ASSUME NEW l \in Nat PROVE Max({n, l}) = IF n > l THEN n ELSE l
    <3>1. n \in Nat
      BY <1>2
    <3>2. \E x \in {n, l} : \A y \in {n, l} : x >= y
      BY <3>1
    <3>3. Max({n, l}) \in {n, l} /\ \A y \in {n, l} : Max({n, l}) >= y
      BY <3>2, Zenon DEF Max
    <3> QED BY <3>1, <3>3
  <2> QED BY <2>1
<1>4. Max({n, 11}) = (IF n > 11 THEN n ELSE 11) /\ Max({n, 8}) = (IF n > 8 THEN n ELSE 8)
  BY <1>3
<1>5. CASE Options(s, i).has_reciprocal
  BY <1>2, <1>4, <1>5 DEF CoreCallOf, ControlAddress, CustomChannelsSet, Options
<1>6. CASE ~Options(s, i).has_reciprocal
  <2>1. CustomChannelsSet(ProgramSeq(s)[i]) = IF n > 8 THEN n ELSE 8
    <3>1. n > 11 => n > 8
      BY <1>2
    <3> QED BY <1>2, <1>6, <3>1 DEF CustomChannelsSet, Options
  <2> QED BY <1>2, <1>4, <1>6, <2>1 DEF CoreCallOf, ControlAddress
<1> QED BY <1>5, <1>6

\* The registers of the one constant engine and of the waveforms, which have the
\* same base.
EngineAddresses ==
  LET base == 1 + Bases.cores_inputs
  IN {base, base + 4, base + 8, base + 12, base + 16, base + 20, base + 24, base + 28, base + 32,
      base + 36}

\* What a call of custom_deployer::deploy loads or writes.
KindOf(s, c) ==
  /\ c.function \in {"load_core", "write", "random", "waveform", "throw"}
  /\ c.function = "load_core" =>
       \E p \in ProgramsOf(s) : c.address = p.options.rom_address /\ c.data = p.binary
  /\ c.function = "write" =>
       /\ AreStores(c.data)
       /\ \A x \in Range(c.data) : x \in CustomExpected(s) \/ x[1] \in EngineAddresses
  /\ c.function = "random" => c.address = 1 + Bases.noise_generator
  /\ c.function = "waveform" => c.address = 1 + Bases.cores_inputs

\* Of those, one for slots, memories or a core.
PlainKind(s, c) ==
  /\ c.function \in {"write", "throw"}
  /\ c.function = "write" =>
       AreStores(c.data) /\ \A x \in Range(c.data) : x \in CustomExpected(s)

\* It is one of the kinds.
LEMMA PlainIsKind == ASSUME NEW s, NEW c, PlainKind(s, c) PROVE KindOf(s, c)
BY DEF PlainKind, KindOf

\* The fields of a call.
LEMMA CallFields ==
  /\ \A f, a, d : /\ Call(f, a, d).function = f /\ Call(f, a, d).address = a
                  /\ Call(f, a, d).data = d
  /\ \A stores : WriteAll(stores).function = "write" /\ WriteAll(stores).data = stores
  /\ ThrowCall.function = "throw"
BY DEF Call, WriteAll, ThrowCall

\* A run of expected writes.
LEMMA ExpectedCall ==
  ASSUME NEW s, NEW stores, AreStores(stores), \A x \in Range(stores) : x \in CustomExpected(s)
  PROVE  PlainKind(s, WriteAll(stores))
BY CallFields DEF PlainKind

\* A call that throws writes nothing.
LEMMA ThrowKind == ASSUME NEW s PROVE PlainKind(s, ThrowCall) /\ KindOf(s, ThrowCall)
BY CallFields DEF KindOf, PlainKind

\* A constant is written to the registers of the engine.
LEMMA ConstantCallKind ==
  ASSUME NEW s, NEW selector, NEW dest, NEW value
  PROVE  KindOf(s, WriteAll(ConstantStores(1 + Bases.cores_inputs, selector, dest, value)))
<1> DEFINE base == 1 + Bases.cores_inputs
           a == <<base + 12, selector>>
           b == <<base + 8, dest>>
           d == <<base, value>>
           stores == <<a, b, d>>
<1>1. ConstantStores(base, selector, dest, value) = stores
  BY DEF ConstantStores
<1>2. \A x \in {a, b, d} : x = <<x[1], x[2]>> /\ x[1] \in EngineAddresses
  <2>1. \A x, y : <<x, y>> = <<<<x, y>>[1], <<x, y>>[2]>> /\ <<x, y>>[1] = x
    OBVIOUS
  <2>2. {base + 12, base + 8, base} \subseteq EngineAddresses
    BY DEF EngineAddresses
  <2> QED BY <2>1, <2>2
<1> HIDE DEF a, b, d
<1>3. Range(stores) = {a, b, d} /\ stores \in Seq({a, b, d})
  BY DEF Range
<1> HIDE DEF stores
<1>4. AreStores(stores) /\ \A x \in Range(stores) : x[1] \in EngineAddresses
  BY <1>2, <1>3 DEF AreStores, IsSequence
<1>5. KindOf(s, WriteAll(stores))
  BY <1>4, CallFields DEF KindOf
<1> QED BY <1>1, <1>5

\* The bases of the inputs of a custom deployment.
LEMMA InputBases ==
  ASSUME NEW in
  PROVE  CustomInputBase(in) = IF in.source_type = "random" THEN 1 + Bases.noise_generator
                                                            ELSE 1 + Bases.cores_inputs
BY DEF CustomInputBase

\* So the calls for an input are of these kinds.
LEMMA InputCallKind ==
  ASSUME NEW s, NEW i, NEW x, NEW channel, NEW c \in Range(InputCall(s, i, x, channel))
  PROVE  KindOf(s, c)
<1> DEFINE in == InputsAt(s, i)[x]
           base == CustomInputBase(in)
           dest == InputDest(in, channel)
           constant == WriteAll(ConstantStores(base, CustomSelector(x, channel), dest,
                                               InputValue(in, channel)))
           random == Call("random", base, dest)
           wave == IF in.shape = "square" THEN Call("waveform", base, <<in.wave, dest>>) ELSE ThrowCall
<1>1. InputCall(s, i, x, channel) =
        CASE IsConstant(in) -> <<constant>>
          [] in.source_type = "random" -> <<random>>
          [] in.source_type = "waveform" -> <<wave>>
          [] OTHER -> <<>>
  BY DEF InputCall
<1>2. ~IsConstant(in) \/ in.source_type \notin {"random", "waveform"}
  BY DEF IsConstant
<1>3. base = IF in.source_type = "random" THEN 1 + Bases.noise_generator ELSE 1 + Bases.cores_inputs
  BY InputBases
<1>4. ~ c \in Range(<<>>)
  BY DEF Range
<1> HIDE DEF in, base
<1>5. CASE IsConstant(in)
  <2>1. c = constant
    <3>1. InputCall(s, i, x, channel) = <<constant>>
      BY <1>1, <1>2, <1>5
    <3> HIDE DEF constant
    <3> QED BY <3>1, OneElement
  <2>2. base = 1 + Bases.cores_inputs
    BY <1>2, <1>3, <1>5
  <2> QED BY <2>1, <2>2, ConstantCallKind
<1>6. CASE ~IsConstant(in) /\ in.source_type = "random"
  <2>1. c = random
    <3>1. InputCall(s, i, x, channel) = <<random>>
      BY <1>1, <1>6
    <3> HIDE DEF random
    <3> QED BY <3>1, OneElement
  <2>2. base = 1 + Bases.noise_generator
    BY <1>3, <1>6
  <2> QED BY <2>1, <2>2, CallFields DEF KindOf
<1>7. CASE ~IsConstant(in) /\ in.source_type = "waveform"
  <2>1. c = wave
    <3>1. InputCall(s, i, x, channel) = <<wave>>
      BY <1>1, <1>7
    <3> HIDE DEF wave
    <3> QED BY <3>1, OneElement
  <2>2. base = 1 + Bases.cores_inputs
    BY <1>3, <1>7
  <2>3. KindOf(s, Call("waveform", base, <<in.wave, dest>>))
    <3> HIDE DEF dest
    <3> QED BY <2>2, CallFields DEF KindOf
  <2> QED BY <2>1, <2>3, ThrowKind
<1>8. CASE ~IsConstant(in) /\ in.source_type \notin {"random", "waveform"}
  <2>1. InputCall(s, i, x, channel) = <<>>
    BY <1>1, <1>8
  <2> QED BY <1>4, <2>1
<1> QED BY <1>5, <1>6, <1>7, <1>8

\* The memory of a core fits its address.
LEMMA MemoryFits ==
  ASSUME CustomAddressesFit, NEW s \in CustomSpecs, NEW i \in DOMAIN ProgramSeq(s),
         NEW m \in Range(MemoryOf(s, ProgramSeq(s)[i]))
  PROVE  /\ ProgramSeq(s)[i].n_channels \in Nat /\ m.address \in Nat
         /\ Len(m.value) = ProgramSeq(s)[i].n_channels => m.address < MemoryShift
<1>1. /\ ProgramSeq(s)[i] \in ProgramsOf(s) /\ ProgramSeq(s)[i] \in Range(SpecData[s].programs)
      /\ ProgramSeq(s)[i].n_channels \in Nat
  BY CustomSequences DEF ProgramsOf, ProgramSeq
<1>2. m.address \in Nat
  BY <1>1, CustomSpecAssumption DEF MemoryOf
<1> QED BY <1>1, <1>2 DEF CustomAddressesFit, MemoryOf

\* What is written for slots, for memories and for a core itself is expected.
LEMMA PlainCalls ==
  ASSUME CustomAddressesFit, NEW s \in CustomSpecs, NEW i \in DOMAIN ProgramSeq(s), NEW c,
         IsDmaCall(s, i, c) \/ IsMemoryCall(s, i, c) \/ c = CoreCallOf(s, i)
  PROVE  PlainKind(s, c)
<1>1. \A w : CoreExpects(s, i, w) => w \in CustomExpected(s)
  BY CustomExpectedIs
<1>2. CASE IsDmaCall(s, i, c)
  <2>1. ASSUME c = WriteAll(<<<<CustomDma(i), Cardinality(SlotsOf(s, ProgramSeq(s)[i]))>>>>)
        PROVE  PlainKind(s, c)
    <3> DEFINE w == <<CustomDma(i), Cardinality(SlotsOf(s, ProgramSeq(s)[i]))>>
    <3>1. w \in CustomExpected(s)
      BY <1>1 DEF CoreExpects
    <3>2. AreStores(<<w>>) /\ Range(<<w>>) = {w}
      BY OneStore
    <3> HIDE DEF w
    <3>3. PlainKind(s, WriteAll(<<w>>))
      BY <3>1, <3>2, ExpectedCall
    <3> QED BY <2>1, <3>3 DEF w
  <2>2. ASSUME NEW j \in SlotsOf(s, ProgramSeq(s)[i]), c = SlotCall(s, i, j)
        PROVE  PlainKind(s, c)
    <3>1. CASE SlotFits(Slots(s)[j])
      <4>1. /\ c.function = "write" /\ AreStores(c.data) /\ Range(c.data) = SlotPair(s, i, j)
        BY <2>2, <3>1, SlotCallWrites
      <4>2. \A w \in SlotPair(s, i, j) : w \in CustomExpected(s)
        BY <1>1 DEF CoreExpects
      <4> QED BY <4>1, <4>2 DEF PlainKind
    <3>2. CASE ~SlotFits(Slots(s)[j])
      BY <2>2, <3>2, ThrowKind DEF SlotCall
    <3> QED BY <3>1, <3>2
  <2> QED BY <1>2, <2>1, <2>2 DEF IsDmaCall
<1>3. CASE IsMemoryCall(s, i, c)
  <2> DEFINE at == ControlAddress(s, i)
             n == ProgramSeq(s)[i].n_channels
  <2>1. PICK m \in Range(MemoryOf(s, ProgramSeq(s)[i])) : c = WriteAll(MemoryStores(at, n, m))
    BY <1>3 DEF IsMemoryCall, ControlAddress, Options
  <2>2. n \in Nat /\ m.address \in Nat /\ (Len(m.value) = n => m.address < MemoryShift)
    BY MemoryFits
  <2>3. /\ AreStores(MemoryStores(at, n, m))
        /\ \A w : w \in Range(MemoryStores(at, n, m)) <=> w \in MemoryWords(at, n, m)
    BY <2>2, MemoryStoresAre
  <2>4. \A w \in MemoryWords(at, n, m) : w \in CustomExpected(s)
    BY <1>1 DEF CoreExpects
  <2> HIDE DEF at, n
  <2> QED BY <2>1, <2>3, <2>4, ExpectedCall
<1>4. CASE c = CoreCallOf(s, i)
  <2> DEFINE w == <<ControlAddress(s, i), CustomChannelsSet(ProgramSeq(s)[i])>>
  <2>1. w \in CustomExpected(s)
    BY <1>1 DEF CoreExpects
  <2>2. AreStores(<<w>>) /\ Range(<<w>>) = {w}
    BY OneStore
  <2>3. c = WriteAll(<<w>>)
    BY <1>4, CoreCallWrites
  <2> HIDE DEF w
  <2> QED BY <2>1, <2>2, <2>3, ExpectedCall
<1> QED BY <1>2, <1>3, <1>4

\* Every call loads a program of the specification, writes what is expected of
\* it, an engine's registers or a slot of the noise generator, or throws.
LEMMA CallKinds ==
  ASSUME CustomAddressesFit, NEW s \in CustomSpecs, NEW i \in DOMAIN ProgramSeq(s), NEW c,
         CalledFor(s, i, c)
  PROVE  KindOf(s, c)
<1>1. CASE c = LoadCallOf(s, i)
  <2>1. ProgramSeq(s)[i] \in ProgramsOf(s)
    BY CustomSequences
  <2>2. /\ c.function = "load_core" /\ c.address = ProgramSeq(s)[i].options.rom_address
        /\ c.data = ProgramSeq(s)[i].binary
    BY <1>1, CallFields DEF LoadCallOf, Options
  <2> QED BY <2>1, <2>2 DEF KindOf
<1>2. CASE IsDmaCall(s, i, c) \/ IsMemoryCall(s, i, c) \/ c = CoreCallOf(s, i)
  BY <1>2, PlainCalls, PlainIsKind
<1>3. CASE IsInputCall(s, i, c)
  BY <1>3, InputCallKind DEF IsInputCall
<1> QED BY <1>1, <1>2, <1>3 DEF CalledFor

----------------------------------------------------------------------------
(* What the calls that were made leave in the hardware *)

\* A write the hardware holds, and a program it holds.
Held(w) == w[1] \in Int /\ ControlMapped(w[1]) /\ InRegisters(w)
LoadedAt(address, program) ==
  \A n \in DOMAIN program :
    CoreMapped(address, n - 1) /\ fCore[fcore_address_to_index(address) + n - 1] = program[n]

\* Stores that do not fault: each register has one of those to it, or is as before.
LEMMA StoresLand ==
  ASSUME NEW stores, AreStores(stores), write_direct_all(stores), fpga_loaded, ~sink_mode, up'
  PROVE  /\ \A x \in Range(stores) : ControlMapped(x[1])
         /\ \A k \in 0 .. ControlWords - 1 :
              \/ /\ registers'[k] = registers[k]
                 /\ \A x \in Range(stores) : register_address_to_index(x[1]) # k
              \/ \E x \in Range(stores) :
                   register_address_to_index(x[1]) = k /\ registers'[k] = x[2]
         /\ UNCHANGED <<fCore, fpga_loaded, sink_mode>>
<1>1. registers' = Stored(stores) /\ Performed(stores) = DOMAIN stores
  BY DEF write_direct_all, write_registers
<1>2. \A j \in DOMAIN stores : ControlMapped(stores[j][1]) /\ stores[j] \in Range(stores)
  <2>1. Len(stores) \in Nat /\ DOMAIN stores = 1 .. Len(stores)
    BY SequenceDomain DEF AreStores
  <2>2. ASSUME NEW j \in DOMAIN stores PROVE ControlMapped(stores[j][1])
    <3>1. j \in Performed(stores) /\ j \in 1 .. j
      BY <1>1, <2>1
    <3> QED BY <3>1 DEF Performed
  <2> QED BY <2>2 DEF Range
<1>3. ASSUME NEW k \in 0 .. ControlWords - 1
      PROVE  \/ /\ registers'[k] = registers[k]
                /\ \A x \in Range(stores) : register_address_to_index(x[1]) # k
             \/ \E x \in Range(stores) :
                  register_address_to_index(x[1]) = k /\ registers'[k] = x[2]
  <2> DEFINE last == CHOOSE i \in LastHit(stores, DOMAIN stores, k) : TRUE
  <2>1. registers'[k] = IF LastHit(stores, DOMAIN stores, k) = {} THEN registers[k] ELSE stores[last][2]
    BY <1>1 DEF Stored
  <2>2. CASE LastHit(stores, DOMAIN stores, k) # {}
    <3>1. last \in LastHit(stores, DOMAIN stores, k)
      BY <2>2
    <3> HIDE DEF last
    <3>2. last \in DOMAIN stores /\ register_address_to_index(stores[last][1]) = k
      BY <3>1 DEF LastHit
    <3> QED BY <1>2, <2>1, <2>2, <3>2
  <2>3. CASE LastHit(stores, DOMAIN stores, k) = {}
    <3>1. \A x \in Range(stores) : register_address_to_index(x[1]) # k
      BY <2>3, LastStore DEF Range, AreStores
    <3> QED BY <2>1, <2>3, <3>1
  <2> QED BY <2>2, <2>3
<1>4. \A x \in Range(stores) : ControlMapped(x[1])
  BY <1>2 DEF Range
<1>5. UNCHANGED <<fCore, fpga_loaded, sink_mode>>
  BY DEF write_direct_all, write_registers
<1> QED BY <1>3, <1>4, <1>5

\* A write is held if it was or is made now, and no other hides it.
LEMMA StoresHold ==
  ASSUME NEW stores, AreStores(stores), write_direct_all(stores), fpga_loaded, ~sink_mode, up',
         NEW w, w[1] \in Int, w \in Range(stores) \/ Held(w),
         \A x \in Range(stores) :
           register_address_to_index(x[1]) = register_address_to_index(w[1]) => x[2] = w[2]
  PROVE  Held(w)'
<1> DEFINE k == register_address_to_index(w[1])
<1>1. ControlMapped(w[1])
  BY StoresLand DEF Held
<1>2. k \in 0 .. ControlWords - 1
  BY <1>1, MappedRegister
<1>3. \/ /\ registers'[k] = registers[k]
         /\ \A x \in Range(stores) : register_address_to_index(x[1]) # k
      \/ \E x \in Range(stores) : register_address_to_index(x[1]) = k /\ registers'[k] = x[2]
  BY <1>2, StoresLand
<1>4. registers'[k] = w[2]
  BY <1>3 DEF Held, InRegisters
<1> QED BY <1>1, <1>4 DEF Held, InRegisters

\* Where two programs are apart in program memory.
ProgramsApart(a, p, b, q) ==
  \/ fcore_address_to_index(a) + Len(p) <= fcore_address_to_index(b)
  \/ fcore_address_to_index(b) + Len(q) <= fcore_address_to_index(a)

\* A program that is loaded without a fault is held, and any other that was is.
LEMMA LoadLands ==
  ASSUME NEW address \in Int, NEW program, IsSequence(program), load_program(address, program),
         ~sink_mode, up'
  PROVE  /\ LoadedAt(address, program)'
         /\ \A b, q : b \in Int /\ IsSequence(q) /\ LoadedAt(b, q)
                      /\ ProgramsApart(address, program, b, q) => LoadedAt(b, q)'
         /\ UNCHANGED <<registers, fpga_loaded, sink_mode>>
<1> DEFINE written == {i \in DOMAIN program : \A j \in 1 .. i : CoreMapped(address, j - 1)}
           f == fcore_address_to_index(address)
<1>1. /\ written = DOMAIN program
      /\ fCore' = [k \in 0 .. CoreWords - 1 |->
                     IF \E i \in written : f + i - 1 = k THEN program[k - f + 1] ELSE fCore[k]]
      /\ UNCHANGED <<registers, fpga_loaded, sink_mode>>
  BY DEF load_program
<1>2. Len(program) \in Nat /\ DOMAIN program = 1 .. Len(program)
  BY SequenceDomain
<1>3. \A i \in DOMAIN program : i \in Nat \ {0} /\ CoreMapped(address, i - 1)
  <2>1. ASSUME NEW i \in DOMAIN program PROVE CoreMapped(address, i - 1)
    <3>1. i \in written /\ i \in 1 .. i
      BY <1>1, <1>2
    <3> QED BY <3>1
  <2> QED BY <1>2, <2>1
<1> HIDE DEF written
<1>4. \A a \in Int : fcore_address_to_index(a) \in Int /\ (a >= CoreAddr => fcore_address_to_index(a) >= 0)
  BY BusAssumption DEF fcore_address_to_index
<1>5. f \in Int
  BY <1>4
<1>6. ASSUME NEW i \in DOMAIN program
      PROVE  fCore'[f + i - 1] = program[i]
  <2>1. i \in Nat \ {0} /\ CoreMapped(address, i - 1)
    BY <1>3
  <2>2. f + (i - 1) < CoreWords /\ f >= 0
    BY <1>4, <2>1 DEF CoreMapped
  <2>3. f + i - 1 \in 0 .. CoreWords - 1 /\ (f + i - 1) - f + 1 = i
    BY <1>5, <2>1, <2>2, BusAssumption
  <2>4. \E l \in written : f + l - 1 = f + i - 1
    BY <1>1
  <2> HIDE DEF f
  <2> QED BY <1>1, <2>3, <2>4
<1>7. LoadedAt(address, program)'
  BY <1>3, <1>6 DEF LoadedAt
<1>8. ASSUME NEW b \in Int, NEW q, IsSequence(q), LoadedAt(b, q), ProgramsApart(address, program, b, q)
      PROVE  LoadedAt(b, q)'
  <2> DEFINE g == fcore_address_to_index(b)
  <2>1. SUFFICES ASSUME NEW n \in DOMAIN q PROVE fCore'[g + n - 1] = q[n]
    BY <1>8 DEF LoadedAt
  <2>2. Len(q) \in Nat /\ n \in 1 .. Len(q)
    BY <1>8, SequenceDomain
  <2>3. CoreMapped(b, n - 1) /\ fCore[g + n - 1] = q[n]
    BY <1>8 DEF LoadedAt
  <2>4. g \in Int /\ g >= 0 /\ g + (n - 1) < CoreWords
    BY <1>4, <2>3 DEF CoreMapped
  <2>5. g + n - 1 \in 0 .. CoreWords - 1
    BY <2>2, <2>4, BusAssumption
  <2>6. f + Len(program) <= g \/ g + Len(q) <= f
    BY <1>8 DEF ProgramsApart
  <2> HIDE DEF f, g
  <2>7. ~ \E l \in written : f + l - 1 = g + n - 1
    BY <1>1, <1>2, <1>5, <2>2, <2>4, <2>6
  <2> QED BY <1>1, <2>3, <2>5, <2>7
<1> QED BY <1>1, <1>7, <1>8

\* The registers of the noise generator, and those of the engines.
NoiseRegister(n) == register_address_to_index(Bases.noise_generator + 4 * n)
InEngine(a) == \E b \in EngineAddresses : register_address_to_index(a) = register_address_to_index(b)
SlotInEngine(n) == \E b \in EngineAddresses : NoiseRegister(n) = register_address_to_index(b)

\* What an address map has to be for a custom specification, `n` random inputs
\* having been deployed: registers are words, none of what is expected is an
\* engine's or in the noise generator, these two are apart, and so are the programs.
ApartWith(s, n) ==
  /\ \A w \in CustomExpected(s) : WordAligned(w[1]) /\ ~InEngine(w[1])
  /\ WordAligned(Bases.noise_generator)
  /\ \A m \in 1 .. n : /\ ~SlotInEngine(m)
                       /\ \A w \in CustomExpected(s) :
                            register_address_to_index(w[1]) # NoiseRegister(m)
  /\ \A p \in ProgramsOf(s) : p.options.rom_address \in Int
  /\ \A p, q \in ProgramsOf(s) : p # q =>
       ProgramsApart(p.options.rom_address, p.binary, q.options.rom_address, q.binary)
CustomApart(s) == ApartWith(s, custom_random_inputs)

\* All of this depends on the address map alone.
LEMMA SameMap ==
  ASSUME UNCHANGED addresses, NEW s
  PROVE  /\ CustomExpected(s)' = CustomExpected(s)
         /\ EngineAddresses' = EngineAddresses /\ Bases' = Bases
         /\ \A n : ApartWith(s, n)' <=> ApartWith(s, n)
<1>1. Bases' = Bases /\ Offsets' = Offsets
  BY DEF Bases, Offsets
<1>2. EngineAddresses' = EngineAddresses
  BY <1>1 DEF EngineAddresses
<1>3. ASSUME NEW w PROVE (w \in CustomExpected(s))' <=> w \in CustomExpected(s)
  BY <1>1 DEF CustomExpected, CustomDmaWrites, CustomMemoryWrites, MappingAddress, MetadataAddress,
              CustomChannelsSet, Slots, SlotsOf, SlotRank, SlotMapping, SlotMetadata, ProgramSeq
<1>4. CustomExpected(s)' = CustomExpected(s)
  BY <1>3
<1>5. \A n : ApartWith(s, n)' <=> ApartWith(s, n)
  BY <1>1, <1>2, <1>4 DEF ApartWith, InEngine, SlotInEngine, NoiseRegister, WordAligned, ProgramsApart,
     register_address_to_index, fcore_address_to_index, ProgramsOf, ProgramSeq
<1> QED BY <1>1, <1>2, <1>4, <1>5

\* With fewer random inputs it is no less apart.
LEMMA FewerApart ==
  ASSUME NEW s, NEW m \in Nat, NEW n \in Nat, m <= n, ApartWith(s, n)
  PROVE  ApartWith(s, m)
<1>1. \A l \in 1 .. m : l \in 1 .. n
  OBVIOUS
<1> QED BY <1>1 DEF ApartWith

\* The addresses of words are those of their registers.
LEMMA AlignedRegisters ==
  ASSUME NEW a, NEW b, WordAligned(a), WordAligned(b),
         register_address_to_index(a) = register_address_to_index(b)
  PROVE  a = b
<1>1. ASSUME NEW x \in Int, NEW y \in Int, x % 4 = 0, y % 4 = 0, x \div 4 = y \div 4
      PROVE  x = y
  BY <1>1
<1>2. PICK x, y : x = a - ControlAddr /\ y = b - ControlAddr
  OBVIOUS
<1>3. x \in Int /\ y \in Int /\ x % 4 = 0 /\ y % 4 = 0 /\ a = x + ControlAddr /\ b = y + ControlAddr
  BY <1>2, BusAssumption DEF WordAligned
<1>4. x \div 4 = y \div 4
  BY <1>2 DEF register_address_to_index
<1>5. x = y
  BY <1>1, <1>3, <1>4
<1> QED BY <1>3, <1>5

\* The slots of the noise generator follow its base, the 1 of its low bits or not.
LEMMA NoiseRegisters ==
  ASSUME WordAligned(Bases.noise_generator), NEW n \in Nat
  PROVE  /\ NoiseRegister(n) = register_address_to_index(Bases.noise_generator) + n
         /\ NoiseRegister(n) \in Int /\ Bases.noise_generator + 4 * n \in Int
         /\ register_address_to_index((1 + Bases.noise_generator) + 4 * n) = NoiseRegister(n)
         /\ ControlMapped((1 + Bases.noise_generator) + 4 * n)
              => ControlMapped(Bases.noise_generator + 4 * n)
<1>1. PICK a, c : a = Bases.noise_generator /\ c = ControlAddr
  OBVIOUS
<1>2. a \in Int /\ c \in Nat /\ (a - c) % 4 = 0
  BY <1>1, BusAssumption DEF WordAligned
<1>3. /\ ((a + 4 * n) - c) \div 4 = ((a - c) \div 4) + n
      /\ (((1 + a) + 4 * n) - c) \div 4 = ((a - c) \div 4) + n
      /\ ((a - c) \div 4) + n \in Int
  BY <1>2
<1>4. (1 + a) + 4 * n >= c => a + 4 * n >= c
  <2>1. \A x, y \in Int : (x - y) % 4 = 0 => \E q \in Int : x = y + 4 * q
    <3>1. ASSUME NEW x \in Int, NEW y \in Int, (x - y) % 4 = 0 PROVE \E q \in Int : x = y + 4 * q
      <4>1. (x - y) \div 4 \in Int /\ x = y + 4 * ((x - y) \div 4)
        BY <3>1
      <4> QED BY <4>1
    <3> QED BY <3>1
  <2>2. PICK q \in Int : a = c + 4 * q
    BY <1>2, <2>1
  <2> QED BY <1>2, <2>2
<1>5. a + 4 * n \in Int
  BY <1>2
<1> QED BY <1>1, <1>3, <1>4, <1>5 DEF NoiseRegister, register_address_to_index, ControlMapped

\* A destination in one of the slots the noise generator has by now.
SlotHeld(dest) ==
  \E slot \in 1 .. custom_random_inputs : Held(<<Bases.noise_generator + 4 * slot, dest>>)

\* What a call that has been made leaves in the hardware.
Made(s, c) ==
  /\ c.function # "throw"
  /\ c.function = "load_core" => LoadedAt(c.address, c.data)
  /\ c.function = "write" =>
       \A w \in Range(c.data) : w \in Unambiguous(CustomExpected(s)) => Held(w)
  /\ c.function = "random" => SlotHeld(c.data)

\* The stores of a call: what is expected, an engine's, or those of the next slot.
StoresOf(s, stores, next) ==
  /\ AreStores(stores)
  /\ \A x \in Range(stores) :
       \/ x \in CustomExpected(s) \/ InEngine(x[1])
       \/ next > custom_random_inputs /\ register_address_to_index(x[1]) = NoiseRegister(next)

\* They hide nothing of what was written before them.
LEMMA StoresHideNothing ==
  ASSUME NEW s, NEW next \in Nat, ApartWith(s, next), custom_random_inputs \in Nat,
         custom_random_inputs <= next, next <= custom_random_inputs + 1,
         NEW stores, StoresOf(s, stores, next), write_direct_all(stores), fpga_loaded, ~sink_mode, up'
  PROVE  /\ \A w \in Unambiguous(CustomExpected(s)) : Held(w) \/ w \in Range(stores) => Held(w)'
         /\ \A slot \in 1 .. custom_random_inputs : \A dest, w :
              w = <<Bases.noise_generator + 4 * slot, dest>> /\ Held(w) => Held(w)'
<1>1. ASSUME NEW w \in Unambiguous(CustomExpected(s)), Held(w) \/ w \in Range(stores)
      PROVE  Held(w)'
  <2>1. w \in CustomExpected(s) /\ \A x \in CustomExpected(s) : x[1] = w[1] => x[2] = w[2]
    BY DEF Unambiguous
  <2>2. WordAligned(w[1]) /\ ~InEngine(w[1])
    BY <2>1 DEF ApartWith
  <2>3. ASSUME NEW x \in Range(stores),
               register_address_to_index(x[1]) = register_address_to_index(w[1])
        PROVE  x[2] = w[2]
    <3>1. CASE x \in CustomExpected(s)
      <4>1. WordAligned(x[1])
        BY <3>1 DEF ApartWith
      <4> QED BY <2>1, <2>2, <2>3, <3>1, <4>1, AlignedRegisters
    <3>2. ~InEngine(x[1])
      BY <2>2, <2>3 DEF InEngine
    <3>3. ASSUME next > custom_random_inputs,
                 register_address_to_index(x[1]) = NoiseRegister(next)
          PROVE  FALSE
      <4>1. next \in 1 .. next
        BY <3>3
      <4> QED BY <2>1, <2>3, <3>3, <4>1 DEF ApartWith
    <3> QED BY <3>1, <3>2, <3>3 DEF StoresOf
  <2> QED BY <1>1, <2>2, <2>3, StoresHold DEF StoresOf, WordAligned
<1>2. ASSUME NEW slot \in 1 .. custom_random_inputs, NEW dest, NEW w,
             w = <<Bases.noise_generator + 4 * slot, dest>>, Held(w)
      PROVE  Held(w)'
  <2>1. WordAligned(Bases.noise_generator) /\ slot \in Nat /\ slot \in 1 .. next
    BY DEF ApartWith
  <2>2. /\ w[1] \in Int /\ register_address_to_index(w[1]) = NoiseRegister(slot)
    BY <1>2, <2>1, NoiseRegisters DEF NoiseRegister
  <2>3. ASSUME NEW x \in Range(stores),
               register_address_to_index(x[1]) = register_address_to_index(w[1])
        PROVE  FALSE
    <3>1. x \notin CustomExpected(s)
      BY <2>1, <2>2, <2>3 DEF ApartWith
    <3>2. ~InEngine(x[1])
      BY <2>1, <2>2, <2>3 DEF InEngine, SlotInEngine, ApartWith
    <3>3. ASSUME next > custom_random_inputs,
                 register_address_to_index(x[1]) = NoiseRegister(next)
          PROVE  FALSE
      <4>1. /\ NoiseRegister(next) = register_address_to_index(Bases.noise_generator) + next
            /\ NoiseRegister(slot) = register_address_to_index(Bases.noise_generator) + slot
            /\ NoiseRegister(slot) \in Int
        BY <2>1, NoiseRegisters
      <4>3. register_address_to_index(Bases.noise_generator) \in Int
        BY <2>1, BusAssumption DEF WordAligned, register_address_to_index
      <4>4. \A r \in Int : r + next = r + slot => next = slot
        BY <2>1
      <4>5. slot <= custom_random_inputs /\ next > custom_random_inputs
        BY <3>3
      <4>6. next # slot
        BY <2>1, <4>5
      <4> QED BY <2>2, <2>3, <3>3, <4>1, <4>3, <4>4, <4>6
    <3> QED BY <3>1, <3>2, <3>3 DEF StoresOf
  <2> QED BY <1>2, <2>2, <2>3, StoresHold DEF StoresOf
<1> QED BY <1>1, <1>2

\* A step that only adds to what is held keeps the calls made.
LEMMA MadeKept ==
  ASSUME NEW s, UNCHANGED addresses, custom_random_inputs \in Nat, custom_random_inputs' \in Nat,
         custom_random_inputs <= custom_random_inputs',
         \A w \in Unambiguous(CustomExpected(s)) : Held(w) => Held(w)',
         \A slot \in 1 .. custom_random_inputs : \A dest, w :
           w = <<Bases.noise_generator + 4 * slot, dest>> /\ Held(w) => Held(w)',
         \A p \in ProgramsOf(s) :
           LoadedAt(p.options.rom_address, p.binary) => LoadedAt(p.options.rom_address, p.binary)',
         NEW c, KindOf(s, c), Made(s, c)
  PROVE  Made(s, c)'
<1>1. CustomExpected(s)' = CustomExpected(s) /\ Bases' = Bases
  BY SameMap
<1>2. Unambiguous(CustomExpected(s))' = Unambiguous(CustomExpected(s))
  BY <1>1 DEF Unambiguous
<1>3. c.function = "load_core" => LoadedAt(c.address, c.data)'
  BY DEF Made, KindOf
<1>4. c.function = "write" =>
        \A w \in Range(c.data) : w \in Unambiguous(CustomExpected(s)) => Held(w)'
  BY DEF Made
<1>5. ASSUME c.function = "random" PROVE SlotHeld(c.data)'
  <2>1. PICK slot \in 1 .. custom_random_inputs : Held(<<Bases.noise_generator + 4 * slot, c.data>>)
    BY <1>5 DEF Made, SlotHeld
  <2>2. PICK w : w = <<Bases.noise_generator + 4 * slot, c.data>>
    OBVIOUS
  <2>3. Held(w)'
    BY <2>1, <2>2
  <2>4. slot \in 1 .. custom_random_inputs' /\ w = <<Bases'.noise_generator + 4 * slot, c.data>>
    BY <1>1, <2>2
  <2> QED BY <2>3, <2>4 DEF SlotHeld
<1>6. c.function # "throw"
  BY DEF Made
<1> QED BY <1>2, <1>3, <1>4, <1>5, <1>6 DEF Made, Range

\* A waveform writes the ten registers of its base.
LEMMA WaveCallStores ==
  ASSUME NEW active, NEW wave, NEW dest
  PROVE  LET stores == WaveStores(1 + Bases.cores_inputs, active, wave, dest)
         IN AreStores(stores) /\ \A x \in Range(stores) : x[1] \in EngineAddresses
<1> DEFINE base == 1 + Bases.cores_inputs
           w == wave[(dest \div BusShift) + 1]
           a == <<base + 8, active>>
           b == <<base + 12, w.v_on>>
           c == <<base + 16, w.v_off>>
           d == <<base + 20, w.t_delay>>
           e == <<base + 24, w.t_on>>
           f == <<base + 28, w.period>>
           g == <<base + 32, dest>>
           h == <<base + 4, 0>>
           i == <<base + 36, get_metadata_value(32, TRUE, TRUE)>>
           j == <<base, active + 1>>
           stores == <<a, b, c, d, e, f, g, h, i, j>>
<1>1. WaveStores(base, active, wave, dest) = stores
  BY DEF WaveStores
<1>2. \A x, y : <<x, y>> = <<<<x, y>>[1], <<x, y>>[2]>>
  OBVIOUS
<1>10. /\ a = <<a[1], a[2]>> /\ b = <<b[1], b[2]>> /\ c = <<c[1], c[2]>> /\ d = <<d[1], d[2]>>
       /\ e = <<e[1], e[2]>> /\ f = <<f[1], f[2]>> /\ g = <<g[1], g[2]>> /\ h = <<h[1], h[2]>>
       /\ i = <<i[1], i[2]>> /\ j = <<j[1], j[2]>>
  BY <1>2
<1>7. \A x, y : <<x, y>>[1] = x
  OBVIOUS
<1>8. /\ a[1] = base + 8 /\ b[1] = base + 12 /\ c[1] = base + 16 /\ d[1] = base + 20
      /\ e[1] = base + 24 /\ f[1] = base + 28 /\ g[1] = base + 32 /\ h[1] = base + 4
      /\ i[1] = base + 36 /\ j[1] = base
  BY <1>7
<1>9. {base, base + 4, base + 8, base + 12, base + 16, base + 20, base + 24, base + 28, base + 32,
       base + 36} = EngineAddresses
  BY DEF EngineAddresses
<1> HIDE DEF base, a, b, c, d, e, f, g, h, i, j
<1>4. \A x \in {a, b, c, d, e, f, g, h, i, j} : x[1] \in EngineAddresses
  BY <1>8, <1>9
<1>3. \A x \in {a, b, c, d, e, f, g, h, i, j} : x = <<x[1], x[2]>>
  BY <1>10
<1> USE DEF base
<1>5. Range(stores) = {a, b, c, d, e, f, g, h, i, j} /\ stores \in Seq({a, b, c, d, e, f, g, h, i, j})
  BY DEF Range
<1> HIDE DEF stores
<1>6. AreStores(stores) /\ \A x \in Range(stores) : x[1] \in EngineAddresses
  BY <1>3, <1>4, <1>5 DEF AreStores, IsSequence
<1> QED BY <1>1, <1>6

\* The stores of a call that writes, and how many random inputs there are after it.
LEMMA CallStores ==
  ASSUME NEW s, NEW c, KindOf(s, c), CustomCall(c), custom_random_inputs \in Nat,
         WordAligned(Bases.noise_generator), c.function \in {"write", "random", "waveform"},
         UNCHANGED addresses
  PROVE  \E stores, n : /\ StoresOf(s, stores, n) /\ write_direct_all(stores)
                        /\ n = custom_random_inputs'
                        /\ n = custom_random_inputs + (IF c.function = "random" THEN 1 ELSE 0)
                        /\ c.function = "write" => stores = c.data
                        /\ c.function = "random" =>
                             stores = <<<<(1 + Bases.noise_generator) + 4 * n, c.data>>>>
<1> DEFINE next == [pc EXCEPT !.j = @ + 1]
<1>1. \A x : x \in EngineAddresses => InEngine(x)
  BY DEF InEngine
<1>2. CASE c.function = "write"
  <2>1. WriteThen(c.data, next) /\ custom_random_inputs' = custom_random_inputs + 0
    BY <1>2 DEF CustomCall, Counted
  <2>2. write_direct_all(c.data) /\ custom_random_inputs' = custom_random_inputs
    BY <2>1 DEF WriteThen
  <2>3. StoresOf(s, c.data, custom_random_inputs)
    BY <1>1, <1>2 DEF KindOf, StoresOf
  <2>4. PICK n : n = custom_random_inputs
    OBVIOUS
  <2> QED BY <1>2, <2>2, <2>3, <2>4
<1>3. CASE c.function = "random"
  <2>0. c.address = 1 + Bases.noise_generator
    BY <1>3 DEF KindOf
  <2>1. /\ WriteThen(<<<<NoiseSlot(c.address), c.data>>>>, next)
        /\ custom_random_inputs' = custom_random_inputs + 1
    BY <1>3 DEF CustomCall, Counted
  <2>2. PICK n \in Nat : n = custom_random_inputs + 1
    OBVIOUS
  <2> DEFINE address == (1 + Bases.noise_generator) + 4 * n
  <2>3. NoiseSlot(c.address) = address
    BY <2>0, <2>2 DEF NoiseSlot
  <2>4. PICK stores : stores = <<<<address, c.data>>>>
    OBVIOUS
  <2>5. write_direct_all(stores)
    BY <2>1, <2>3, <2>4 DEF WriteThen
  <2>6. register_address_to_index(address) = NoiseRegister(n)
    BY NoiseRegisters
  <2> HIDE DEF address
  <2>7. AreStores(stores) /\ \A x \in Range(stores) : x[1] = address
    <3>1. AreStores(<<<<address, c.data>>>>) /\ Range(<<<<address, c.data>>>>) = {<<address, c.data>>}
      BY OneStore
    <3> QED BY <2>4, <3>1
  <2>8. n > custom_random_inputs
    BY <2>2
  <2>9. StoresOf(s, stores, n)
    BY <2>6, <2>7, <2>8 DEF StoresOf
  <2> QED BY <1>3, <2>1, <2>2, <2>4, <2>5, <2>9 DEF address
<1>4. CASE c.function = "waveform"
  <2>1. /\ WriteThen(WaveStores(c.address, custom_waveforms, c.data[1], c.data[2]), next)
        /\ custom_random_inputs' = custom_random_inputs + 0
    BY <1>4 DEF CustomCall, Counted
  <2>2. PICK stores : stores = WaveStores(c.address, custom_waveforms, c.data[1], c.data[2])
    OBVIOUS
  <2>3. write_direct_all(stores) /\ custom_random_inputs' = custom_random_inputs
    BY <2>1, <2>2 DEF WriteThen
  <2>4. AreStores(stores) /\ \A x \in Range(stores) : x[1] \in EngineAddresses
    <3>1. c.address = 1 + Bases.cores_inputs
      BY <1>4 DEF KindOf
    <3> QED BY <2>2, <3>1, WaveCallStores
  <2>5. StoresOf(s, stores, custom_random_inputs)
    BY <1>1, <2>4 DEF StoresOf
  <2>6. PICK n : n = custom_random_inputs
    OBVIOUS
  <2> QED BY <1>4, <2>3, <2>5, <2>6
<1> QED BY <1>2, <1>3, <1>4

\* A call that does not end the deployment is made, and what was made before stays.
CallLeaves(s, c) ==
  Made(s, c)' /\ \A d : KindOf(s, d) /\ Made(s, d) => Made(s, d)'

\* A call that writes has what it writes in the hardware, and hides nothing that
\* was made before.
LEMMA WriteCallMakes ==
  ASSUME NEW s, NEW c, KindOf(s, c), CustomCall(c), custom_random_inputs \in Nat, fpga_loaded,
         ~sink_mode, up', UNCHANGED addresses, CustomApart(s)',
         c.function \in {"write", "random", "waveform"}
  PROVE  CallLeaves(s, c)
<1>1. custom_random_inputs' \in Nat /\ custom_random_inputs <= custom_random_inputs'
      /\ custom_random_inputs' <= custom_random_inputs + 1
  BY DEF CustomCall, Counted
<1>2. PICK m \in Nat : m = custom_random_inputs'
  BY <1>1
<1>3. ApartWith(s, m)
  <2>1. ApartWith(s, m)'
    BY <1>2 DEF CustomApart
  <2> QED BY <2>1, SameMap
<1>4. WordAligned(Bases.noise_generator)
  BY <1>3 DEF ApartWith
<1>5. \E stores, n : /\ StoresOf(s, stores, n) /\ write_direct_all(stores)
                     /\ n = custom_random_inputs'
                     /\ n = custom_random_inputs + (IF c.function = "random" THEN 1 ELSE 0)
                     /\ c.function = "write" => stores = c.data
                     /\ c.function = "random" =>
                          stores = <<<<(1 + Bases.noise_generator) + 4 * n, c.data>>>>
  BY <1>4, CallStores
<1>6. PICK stores : /\ StoresOf(s, stores, m) /\ write_direct_all(stores)
                    /\ m = custom_random_inputs + (IF c.function = "random" THEN 1 ELSE 0)
                    /\ c.function = "write" => stores = c.data
                    /\ c.function = "random" =>
                         stores = <<<<(1 + Bases.noise_generator) + 4 * m, c.data>>>>
  BY <1>2, <1>5
<1>7. /\ \A w \in Unambiguous(CustomExpected(s)) : Held(w) \/ w \in Range(stores) => Held(w)'
      /\ \A slot \in 1 .. custom_random_inputs : \A dest, w :
           w = <<Bases.noise_generator + 4 * slot, dest>> /\ Held(w) => Held(w)'
  BY <1>1, <1>2, <1>3, <1>6, StoresHideNothing
<1>8. /\ \A x \in Range(stores) : ControlMapped(x[1])
      /\ \A k \in 0 .. ControlWords - 1 :
           \/ /\ registers'[k] = registers[k]
              /\ \A x \in Range(stores) : register_address_to_index(x[1]) # k
           \/ \E x \in Range(stores) : register_address_to_index(x[1]) = k /\ registers'[k] = x[2]
      /\ UNCHANGED fCore
  BY <1>6, StoresLand DEF StoresOf
<1>9. \A a, p : LoadedAt(a, p) => LoadedAt(a, p)'
  BY <1>8 DEF LoadedAt
<1>10. \A d : KindOf(s, d) /\ Made(s, d) => Made(s, d)'
  BY <1>1, <1>7, <1>9, MadeKept
<1>11. CustomExpected(s)' = CustomExpected(s) /\ Bases' = Bases
  BY SameMap
<1>12. CASE c.function = "write"
  <2>1. Unambiguous(CustomExpected(s))' = Unambiguous(CustomExpected(s))
    BY <1>11 DEF Unambiguous
  <2>2. \A w \in Range(c.data) : w \in Unambiguous(CustomExpected(s)) => Held(w)'
    BY <1>6, <1>7, <1>12
  <2>3. Made(s, c)'
    BY <1>12, <2>1, <2>2 DEF Made, Range
  <2> QED BY <1>10, <2>3 DEF CallLeaves
<1>13. CASE c.function = "random"
  <2> DEFINE address == (1 + Bases.noise_generator) + 4 * m
             k == NoiseRegister(m)
  <2>1. /\ register_address_to_index(address) = k
        /\ Bases.noise_generator + 4 * m \in Int
        /\ ControlMapped(address) => ControlMapped(Bases.noise_generator + 4 * m)
    BY <1>4, NoiseRegisters
  <2>2. PICK x : x = <<address, c.data>>
    OBVIOUS
  <2>3. Range(stores) = {x} /\ x[1] = address /\ x[2] = c.data
    <3>1. Range(<<<<address, c.data>>>>) = {<<address, c.data>>}
      BY OneStore
    <3> QED BY <1>6, <1>13, <2>2, <3>1
  <2>4. PICK w : w = <<Bases.noise_generator + 4 * m, c.data>>
    OBVIOUS
  <2>5. w[1] \in Int /\ ControlMapped(w[1]) /\ register_address_to_index(w[1]) = k /\ w[2] = c.data
    BY <1>8, <2>1, <2>3, <2>4 DEF NoiseRegister
  <2>6. k \in 0 .. ControlWords - 1
    BY <2>5, MappedRegister
  <2>7. registers'[k] = c.data
    BY <1>8, <2>1, <2>3, <2>6
  <2>8. Held(w)'
    BY <2>5, <2>7 DEF Held, InRegisters
  <2>9. m \in 1 .. custom_random_inputs' /\ w = <<Bases'.noise_generator + 4 * m, c.data>>
    BY <1>2, <1>6, <1>11, <1>13, <2>4
  <2>10. SlotHeld(c.data)'
    BY <2>8, <2>9 DEF SlotHeld
  <2>11. Made(s, c)'
    BY <1>13, <2>10 DEF Made
  <2> QED BY <1>10, <2>11 DEF CallLeaves
<1>14. CASE c.function = "waveform"
  <2>1. Made(s, c)'
    BY <1>14 DEF Made
  <2> QED BY <1>10, <2>1 DEF CallLeaves
<1> QED BY <1>12, <1>13, <1>14

\* The calls depend on the address map alone.
LEMMA SameCalls ==
  ASSUME UNCHANGED addresses, NEW s
  PROVE  CustomCalls(s)' = CustomCalls(s)
<1>1. Bases' = Bases /\ Offsets' = Offsets
  BY DEF Bases, Offsets
<1>2. \A i : CustomDma(i)' = CustomDma(i)
  BY <1>1 DEF CustomDma
<1>3. \A in : CustomInputBase(in)' = CustomInputBase(in)
  BY <1>1 DEF CustomInputBase
<1>4. \A i : DmaCalls(s, i)' = DmaCalls(s, i)
  BY <1>2 DEF DmaCalls
<1>5. \A i : MemoryCalls(s, i)' = MemoryCalls(s, i)
  BY DEF MemoryCalls
<1>6. \A i, x, c : InputCall(s, i, x, c)' = InputCall(s, i, x, c)
  BY <1>3 DEF InputCall
<1>7. \A i, x : ChannelCalls(s, i, x)' = ChannelCalls(s, i, x)
  BY <1>6 DEF ChannelCalls
<1>8. \A i : InputCalls(s, i)' = InputCalls(s, i)
  BY <1>7 DEF InputCalls
<1> QED BY <1>4, <1>5, <1>8 DEF CustomCalls, LoadCalls, CoreCalls

\* load_core.
LEMMA LoadCallMakes ==
  ASSUME NEW s \in CustomSpecs, NEW c, KindOf(s, c), CustomCall(c), custom_random_inputs \in Nat,
         ~sink_mode, up', UNCHANGED addresses, CustomApart(s)', c.function = "load_core"
  PROVE  CallLeaves(s, c)
<1>1. custom_random_inputs' = custom_random_inputs
  <2>1. custom_random_inputs' = custom_random_inputs + 0
    BY DEF CustomCall, Counted
  <2> QED BY <2>1
<1>2. PICK p \in ProgramsOf(s) : c.address = p.options.rom_address /\ c.data = p.binary
  BY DEF KindOf
<1>3. PICK m : m = custom_random_inputs'
  OBVIOUS
<1>4. ApartWith(s, m)
  <2>1. ApartWith(s, m)'
    BY <1>3 DEF CustomApart
  <2> QED BY <2>1, SameMap
<1>5. \A q \in ProgramsOf(s) : q.options.rom_address \in Int /\ IsSequence(q.binary)
  BY <1>4, CustomSpecAssumption DEF ApartWith, ProgramsOf, ProgramSeq
<1>6. load_program(c.address, c.data)
  BY DEF CustomCall, LoadThen, apply_program
<1>7. /\ LoadedAt(c.address, c.data)'
      /\ \A b, q : b \in Int /\ IsSequence(q) /\ LoadedAt(b, q)
                   /\ ProgramsApart(c.address, c.data, b, q) => LoadedAt(b, q)'
      /\ UNCHANGED registers
  BY <1>2, <1>5, <1>6, LoadLands
<1>8. \A q \in ProgramsOf(s) :
        LoadedAt(q.options.rom_address, q.binary) => LoadedAt(q.options.rom_address, q.binary)'
  <2>1. ASSUME NEW q \in ProgramsOf(s), LoadedAt(q.options.rom_address, q.binary), q # p
        PROVE  LoadedAt(q.options.rom_address, q.binary)'
    <3>1. ProgramsApart(c.address, c.data, q.options.rom_address, q.binary)
      BY <1>2, <1>4, <2>1 DEF ApartWith
    <3> QED BY <1>5, <1>7, <2>1, <3>1
  <2> QED BY <1>2, <1>7, <2>1
<1>9. \A w : Held(w) => Held(w)'
  BY <1>7 DEF Held, InRegisters
<1>10. \A d : KindOf(s, d) /\ Made(s, d) => Made(s, d)'
  BY <1>1, <1>8, <1>9, MadeKept
<1>11. Made(s, c)'
  BY <1>7 DEF Made
<1> QED BY <1>10, <1>11 DEF CallLeaves

\* Any call but the one that throws.
LEMMA CallMakes ==
  ASSUME NEW s \in CustomSpecs, NEW c, KindOf(s, c), CustomCall(c), custom_random_inputs \in Nat,
         fpga_loaded, ~sink_mode, up', UNCHANGED addresses, CustomApart(s)', c.function # "throw"
  PROVE  CallLeaves(s, c)
BY LoadCallMakes, WriteCallMakes DEF KindOf

----------------------------------------------------------------------------
(* A deployment all of whose calls are made *)

Configured(s) ==
  /\ \A p \in ProgramsOf(s) : \A n \in DOMAIN p.binary :
       fCore[fcore_address_to_index(p.options.rom_address) + n - 1] = p.binary[n]
  /\ \A w \in Unambiguous(CustomExpected(s)) : InRegisters(w)
  /\ \A u \in {v \in CustomUses(s) : UsedInput(s, v).source_type = "random"} :
       \E slot \in 1 .. custom_random_inputs :
         InRegisters(<<Bases.noise_generator + 4 * slot, UseDest(s, u)>>)

\* What is expected is in a call that writes it, or one throws.
LEMMA ExpectedIsCalled ==
  ASSUME CustomAddressesFit, NEW s \in CustomSpecs, NEW i \in DOMAIN ProgramSeq(s), NEW w,
         CoreExpects(s, i, w)
  PROVE  \E c : /\ CalledFor(s, i, c)
                /\ \/ c.function = "throw"
                   \/ c.function = "write" /\ w \in Range(c.data)
<1>1. CASE w = <<ControlAddress(s, i), CustomChannelsSet(ProgramSeq(s)[i])>>
  <2>1. CoreCallOf(s, i) = WriteAll(<<w>>)
    BY <1>1, CoreCallWrites
  <2>2. Range(<<w>>) = {w}
    BY <1>1, OneStore
  <2> QED BY <2>1, <2>2, CallFields DEF CalledFor
<1>2. CASE w = <<CustomDma(i), Cardinality(SlotsOf(s, ProgramSeq(s)[i]))>>
  <2>1. IsDmaCall(s, i, WriteAll(<<w>>))
    BY <1>2 DEF IsDmaCall
  <2>2. Range(<<w>>) = {w}
    BY <1>2, OneStore
  <2> QED BY <2>1, <2>2, CallFields DEF CalledFor
<1>3. ASSUME NEW j \in SlotsOf(s, ProgramSeq(s)[i]), w \in SlotPair(s, i, j)
      PROVE  \E c : /\ CalledFor(s, i, c)
                    /\ \/ c.function = "throw"
                       \/ c.function = "write" /\ w \in Range(c.data)
  <2>1. CalledFor(s, i, SlotCall(s, i, j))
    BY DEF CalledFor, IsDmaCall
  <2>2. CASE SlotFits(Slots(s)[j])
    BY <1>3, <2>1, <2>2, SlotCallWrites
  <2>3. CASE ~SlotFits(Slots(s)[j])
    BY <2>1, <2>3, CallFields DEF SlotCall
  <2> QED BY <2>2, <2>3
<1>4. ASSUME NEW m \in Range(MemoryOf(s, ProgramSeq(s)[i])),
             w \in MemoryWords(ControlAddress(s, i), ProgramSeq(s)[i].n_channels, m)
      PROVE  \E c : /\ CalledFor(s, i, c)
                    /\ \/ c.function = "throw"
                       \/ c.function = "write" /\ w \in Range(c.data)
  <2> DEFINE at == ControlAddress(s, i)
             n == ProgramSeq(s)[i].n_channels
             stores == MemoryStores(at, n, m)
  <2>1. n \in Nat /\ m.address \in Nat /\ (Len(m.value) = n => m.address < MemoryShift)
    BY <1>4, MemoryFits
  <2>2. w \in Range(stores)
    BY <1>4, <2>1, MemoryStoresAre
  <2>3. IsMemoryCall(s, i, WriteAll(stores))
    BY DEF IsMemoryCall, ControlAddress, Options
  <2> HIDE DEF stores
  <2> QED BY <2>2, <2>3, CallFields DEF CalledFor
<1> QED BY <1>1, <1>2, <1>3, <1>4 DEF CoreExpects

\* The uses that are set up are of the channels the loop goes over.
LEMMA CustomUse ==
  ASSUME NEW s \in CustomSpecs, NEW u \in CustomUses(s)
  PROVE  /\ u[1] \in DOMAIN ProgramSeq(s) /\ u[2] \in DOMAIN InputsAt(s, u[1])
         /\ u[3] \in 0 .. ChannelsAt(s, u[1], u[2]) - 1
<1> DEFINE Channels(i, x) == {d \in 0 .. Len(InputsAt(s, i)[x].data) - 1 :
                                d = 0 \/ (ProgramSeq(s)[i].n_channels > 1
                                          /\ 2 * d < Len(InputsAt(s, i)[x].data))}
<1>1. CustomUses(s) = UNION {UNION {{<<i, x, c>> : c \in Channels(i, x)} : x \in DOMAIN InputsAt(s, i)}
                               : i \in DOMAIN ProgramSeq(s)}
  BY DEF CustomUses
<1> HIDE DEF Channels
<1>2. \E i \in DOMAIN ProgramSeq(s) : \E x \in DOMAIN InputsAt(s, i) : \E c \in Channels(i, x) :
        u = <<i, x, c>>
  BY <1>1
<1>3. PICK i \in DOMAIN ProgramSeq(s) : \E x \in DOMAIN InputsAt(s, i) : \E c \in Channels(i, x) :
        u = <<i, x, c>>
  BY <1>2
<1>4. PICK x \in DOMAIN InputsAt(s, i) : \E c \in Channels(i, x) : u = <<i, x, c>>
  BY <1>3
<1>5. PICK c \in Channels(i, x) : u = <<i, x, c>>
  BY <1>4
<1>6. PICK l, n : l = Len(InputsAt(s, i)[x].data) /\ n = ProgramSeq(s)[i].n_channels
  OBVIOUS
<1>7. l \in Nat /\ n \in Nat /\ c \in 0 .. l - 1 /\ (c = 0 \/ (n > 1 /\ 2 * c < l))
  BY <1>6, CustomParts, CustomSequences DEF Channels
<1>8. ChannelsAt(s, i, x) = IF n > 1 /\ l > 1 THEN (l + 1) \div 2 ELSE 1
  BY <1>6 DEF ChannelsAt, CustomChannels
<1>9. l > 1 => (l + 1) \div 2 >= 1
  BY <1>7
<1>10. c > 0 => l > 1 /\ (l + 1) \div 2 >= c + 1 /\ n > 1
  BY <1>7
<1>11. (l + 1) \div 2 \in Nat
  BY <1>7
<1>12. c \in 0 .. ChannelsAt(s, i, x) - 1
  BY <1>7, <1>8, <1>9, <1>10, <1>11
<1> QED BY <1>5, <1>12

\* With all of its calls made, a specification is in the hardware.
LEMMA AllMade ==
  ASSUME CustomAddressesFit, NEW s \in CustomSpecs,
         \A i \in DOMAIN ProgramSeq(s) : \A c : CalledFor(s, i, c) => Made(s, c)
  PROVE  Configured(s)
<1>1. ASSUME NEW p \in ProgramsOf(s), NEW n \in DOMAIN p.binary
      PROVE  fCore[fcore_address_to_index(p.options.rom_address) + n - 1] = p.binary[n]
  <2>1. PICK i \in DOMAIN ProgramSeq(s) : p = ProgramSeq(s)[i]
    BY DEF ProgramsOf, Range
  <2>2. Made(s, LoadCallOf(s, i))
    BY DEF CalledFor
  <2>3. LoadedAt(p.options.rom_address, p.binary)
    BY <2>1, <2>2, CallFields DEF Made, LoadCallOf, Options
  <2> QED BY <2>3 DEF LoadedAt
<1>2. ASSUME NEW w \in Unambiguous(CustomExpected(s)) PROVE InRegisters(w)
  <2>1. PICK i \in DOMAIN ProgramSeq(s) : CoreExpects(s, i, w)
    BY CustomExpectedIs DEF Unambiguous
  <2>2. PICK c : /\ CalledFor(s, i, c)
                 /\ c.function = "throw" \/ (c.function = "write" /\ w \in Range(c.data))
    BY <2>1, ExpectedIsCalled
  <2>3. Made(s, c)
    BY <2>2
  <2> QED BY <2>2, <2>3 DEF Made, Held
<1>3. ASSUME NEW u \in CustomUses(s), UsedInput(s, u).source_type = "random"
      PROVE  \E slot \in 1 .. custom_random_inputs :
               InRegisters(<<Bases.noise_generator + 4 * slot, UseDest(s, u)>>)
  <2> DEFINE i == u[1]
             x == u[2]
             in == InputsAt(s, i)[x]
             call == Call("random", CustomInputBase(in), InputDest(in, u[3]))
  <2>1. /\ i \in DOMAIN ProgramSeq(s) /\ x \in DOMAIN InputsAt(s, i)
        /\ u[3] \in 0 .. ChannelsAt(s, i, x) - 1
    BY CustomUse
  <2>2. in = UsedInput(s, u) /\ in.source_type = "random" /\ ~IsConstant(in)
    BY <1>3 DEF UsedInput, IsConstant
  <2>3. InputCall(s, i, x, u[3]) = <<call>>
    BY <2>2 DEF InputCall
  <2>4. call.function = "random" /\ call.data = UseDest(s, u)
    BY <2>2, CallFields DEF UseDest
  <2> HIDE DEF call, in
  <2>5. call \in Range(InputCall(s, i, x, u[3]))
    BY <2>3, OneElement
  <2>6. CalledFor(s, i, call)
    BY <2>1, <2>5 DEF CalledFor, IsInputCall
  <2>7. SlotHeld(UseDest(s, u))
    BY <2>1, <2>4, <2>6 DEF Made
  <2> QED BY <2>7 DEF SlotHeld, Held
<1> QED BY <1>1, <1>2, <1>3 DEF Configured

\* The calls a custom deployment has made so far.
Progress ==
  \A m \in DOMAIN CustomCalls(pc.spec) : m < pc.j => Made(pc.spec, CustomCalls(pc.spec)[m])

\* Each call of a deployment is of one of the kinds.
LEMMA CallOfSpec ==
  ASSUME CustomAddressesFit, NEW s \in CustomSpecs, NEW m \in DOMAIN CustomCalls(s)
  PROVE  KindOf(s, CustomCalls(s)[m]) /\ m \in Nat
<1>1. CustomCalls(s)[m] \in Range(CustomCalls(s))
  BY DEF Range
<1>2. PICK i \in DOMAIN ProgramSeq(s) : CalledFor(s, i, CustomCalls(s)[m])
  BY <1>1, CustomCallsAre
<1>3. m \in Nat
  BY CustomCallsAre, SequenceDomain
<1> QED BY <1>2, <1>3, CallKinds

\* All of them, when there is none left.
LEMMA LastCall ==
  ASSUME CustomAddressesFit, pc.spec \in CustomSpecs, pc.j \in Nat \ {0},
         pc.j \notin DOMAIN CustomCalls(pc.spec), Progress
  PROVE  Configured(pc.spec)
<1>1. PICK s \in CustomSpecs : s = pc.spec
  OBVIOUS
<1>2. PICK j \in Nat \ {0} : j = pc.j
  OBVIOUS
<1>3. IsSequence(CustomCalls(s))
  BY CustomCallsAre
<1>4. Len(CustomCalls(s)) \in Nat /\ DOMAIN CustomCalls(s) = 1 .. Len(CustomCalls(s))
  BY <1>3, SequenceDomain
<1>5. \A m \in DOMAIN CustomCalls(s) : m < j
  BY <1>1, <1>2, <1>4
<1>6. \A m \in DOMAIN CustomCalls(s) : Made(s, CustomCalls(s)[m])
  BY <1>1, <1>2, <1>5 DEF Progress
<1>7. \A c \in Range(CustomCalls(s)) : Made(s, c)
  BY <1>6 DEF Range
<1>8. \A i \in DOMAIN ProgramSeq(s) : \A c : CalledFor(s, i, c) => Made(s, c)
  BY <1>7, CustomCallsAre
<1> QED BY <1>1, <1>8, AllMade

----------------------------------------------------------------------------
(* A custom deployment that completes is in the hardware *)

\* What a completed custom deployment has left in the hardware, and one that runs
\* so far.
CustomReached ==
  /\ custom_random_inputs \in Nat
  /\ reply.kind = "deployed_custom" =>
       /\ pc = Idle /\ reply.spec \in CustomSpecs
       /\ fpga_loaded /\ CustomApart(reply.spec) => Configured(reply.spec)
  /\ RunningCustom => /\ pc.j \in Nat \ {0}
                      /\ fpga_loaded /\ CustomApart(pc.spec) => Progress

CoresReached == CoresBracket /\ CustomReached

\* The answer to a custom deployment comes from its last step, and goes with the
\* next of the others.
LEMMA OthersAnswer ==
  ASSUME ServerStep \/ Relaunch
  PROVE  reply'.kind # "deployed_custom" \/ (UNCHANGED reply /\ pc # Idle)
<1>1. \A kind, s, data : Reply(kind, s, data).kind = kind
  BY DEF Reply
<1>2. NoReply.kind = "none"
  BY DEF NoReply, Reply
<1>3. CASE DeployStep
  <2>1. pc # Idle
    BY <1>3 DEF DeployStep, LoadCore, ComputeTimebase, SetupOutputEntry, FinishOutputDma,
       SetupMemory, SetupInput, FinishInput, FinishCoreInputs, RaiseTimebaseDivider, NextDivider,
       SetupSequencer, SetupInterconnectIv, SetupCore, EndOfLoop, FinishDeploy, FinishSimulation,
       At, Idle
  <2>2. \/ UNCHANGED reply
        \/ \E s, data : \E kind \in {"died", "deployment_error", "deployed", "simulated"} :
             reply' = Reply(kind, s, data)
    BY <1>3, DeployStepReplies
  <2> QED BY <1>1, <2>1, <2>2
<1>4. CASE DeployHil \/ HilHardwareSim
  <2>1. ASSUME NEW cmd, NEW s, Prologue(cmd, s) PROVE reply'.kind # "deployed_custom"
    BY <1>1, <1>2, <2>1 DEF Prologue
  <2>2. ASSUME NEW s, SimulateDeployed(s) PROVE reply'.kind # "deployed_custom"
    BY <1>1, <2>2 DEF SimulateDeployed
  <2> QED BY <1>4, <2>1, <2>2 DEF DeployHil, HilHardwareSim, process_deploy_hil, SimulateAnew
<1>5. ASSUME NEW stores, Command(stores) PROVE reply'.kind # "deployed_custom"
  BY <1>1, <1>2, <1>5 DEF Command
<1>6. CASE HilStart \/ HilStop \/ HilSelectOut \/ HilSetIn
  <2>1. HilStart \/ HilStop => reply'.kind # "deployed_custom"
    BY <1>5 DEF HilStart, HilStop
  <2>2. HilSelectOut => reply'.kind # "deployed_custom"
    BY <1>1, <1>5 DEF HilSelectOut, select_output
  <2>3. HilSetIn => reply'.kind # "deployed_custom"
    BY <1>5 DEF HilSetIn, set_input
  <2> QED BY <1>6, <2>1, <2>2, <2>3
<1>7. CASE LoadBitstream \/ SetAddressMap \/ GetAddressMap \/ GetSamplingFrequency \/ Terminate
           \/ Relaunch
  BY <1>1, <1>2, <1>7 DEF LoadBitstream, SetAddressMap, GetAddressMap, GetSamplingFrequency, Answer,
     Terminate, Relaunch
<1> QED BY <1>3, <1>4, <1>6, <1>7 DEF ServerStep

\* A call goes on to the next, or ends the deployment.
LEMMA CallGoesOn ==
  ASSUME NEW c, CustomCall(c)
  PROVE  /\ UNCHANGED fpga_loaded
         /\ \/ pc' = Idle
            \/ up' /\ pc' = [pc EXCEPT !.j = @ + 1] /\ c.function # "throw"
         /\ UNCHANGED reply \/ reply'.kind \in {"died", "deployment_error"}
<1> DEFINE next == [pc EXCEPT !.j = @ + 1]
<1>1. \A stores, n : WriteThen(stores, n) =>
        /\ UNCHANGED fpga_loaded /\ (pc' = Idle \/ (up' /\ pc' = n))
        /\ UNCHANGED reply \/ reply'.kind \in {"died", "deployment_error"}
  BY DEF WriteThen, write_direct_all, write_registers, busVars, Reply
<1>2. \A a, p, n : LoadThen(a, p, n) =>
        /\ UNCHANGED fpga_loaded /\ (pc' = Idle \/ (up' /\ pc' = n))
        /\ UNCHANGED reply \/ reply'.kind \in {"died", "deployment_error"}
  BY DEF LoadThen, apply_program, load_program, Reply
<1>3. Throw => /\ UNCHANGED fpga_loaded /\ pc' = Idle
               /\ reply'.kind \in {"died", "deployment_error"}
  BY DEF Throw, Reply
<1> HIDE DEF next
<1>4. CASE c.function = "throw"
  BY <1>3, <1>4 DEF CustomCall
<1>5. CASE c.function # "throw"
  <2>1. (\E stores : WriteThen(stores, next)) \/ LoadThen(c.address, c.data, next)
    BY <1>5, Zenon DEF CustomCall, next
  <2> QED BY <1>1, <1>2, <1>5, <2>1 DEF next
<1> QED BY <1>4, <1>5

\* One more call.
LEMMA CallReaches ==
  ASSUME CustomAddressesFit, CoresReached, RunningCustom, UNCHANGED addresses,
         NEW s \in CustomSpecs, s = pc.spec, pc.j \in DOMAIN CustomCalls(s), CustomCall(CustomCalls(s)[pc.j])
  PROVE  CustomReached'
<1> DEFINE next == [pc EXCEPT !.j = @ + 1]
<1>1. PICK c, j : c = CustomCalls(s)[j] /\ j = pc.j
  OBVIOUS
<1>2. KindOf(s, c) /\ j \in Nat \ {0} /\ j \in DOMAIN CustomCalls(s) /\ CustomCall(c)
  BY <1>1, CallOfSpec DEF CoresReached, CustomReached
<1>3. reply.kind # "deployed_custom"
  BY DEF CoresReached, CustomReached, RunningCustom, CustomPc, Idle
<1>4. /\ UNCHANGED fpga_loaded
      /\ \/ pc' = Idle
         \/ up' /\ pc' = next /\ c.function # "throw"
      /\ UNCHANGED reply \/ reply'.kind \in {"died", "deployment_error"}
  BY <1>2, CallGoesOn
<1>5. custom_random_inputs' \in Nat /\ custom_random_inputs \in Nat
      /\ custom_random_inputs <= custom_random_inputs'
  <2>1. custom_random_inputs \in Nat
    BY DEF CoresReached, CustomReached
  <2>2. custom_random_inputs' = custom_random_inputs + 0 \/ custom_random_inputs' = custom_random_inputs + 1
    BY <1>2 DEF CustomCall, Counted
  <2> QED BY <2>1, <2>2
<1>6. reply'.kind # "deployed_custom"
  BY <1>3, <1>4
<1>7. ASSUME RunningCustom' PROVE pc'.j \in Nat \ {0} /\ (fpga_loaded' /\ CustomApart(pc.spec)' => Progress')
  <2>1. up' /\ pc' = next /\ c.function # "throw"
    BY <1>4, <1>7 DEF RunningCustom, CustomPc, Idle
  <2>2. pc'.j = j + 1 /\ pc'.spec = s
    BY <1>1, <2>1 DEF RunningCustom, CustomPc
  <2>3. ASSUME fpga_loaded', CustomApart(pc.spec)' PROVE Progress'
    <3>1. fpga_loaded /\ ~sink_mode
      BY <1>4, <2>3 DEF RunningCustom
    <3>2. CustomApart(s)'
      BY <2>2, <2>3
    <3>3. CustomApart(s)
      <4>1. PICK m, n : m = custom_random_inputs /\ n = custom_random_inputs'
        OBVIOUS
      <4>2. ApartWith(s, n)'
        BY <3>2, <4>1 DEF CustomApart
      <4>3. ApartWith(s, n)
        BY <4>2, SameMap
      <4>4. m \in Nat /\ n \in Nat /\ m <= n
        BY <1>5, <4>1
      <4>5. ApartWith(s, m)
        BY <4>3, <4>4, FewerApart
      <4> QED BY <4>1, <4>5 DEF CustomApart
    <3>4. \A m \in DOMAIN CustomCalls(s) : m < j => Made(s, CustomCalls(s)[m])
      BY <1>1, <3>1, <3>3 DEF CoresReached, CustomReached, Progress
    <3>5. CallLeaves(s, c)
      BY <1>2, <1>5, <2>1, <3>1, <3>2, CallMakes
    <3>6. ASSUME NEW m \in DOMAIN CustomCalls(s), m < j + 1 PROVE Made(s, CustomCalls(s)[m])'
      <4>1. PICK d : d = CustomCalls(s)[m]
        OBVIOUS
      <4>2. KindOf(s, d) /\ m \in Nat
        BY <4>1, CallOfSpec
      <4>3. Made(s, d)'
        <5>1. CASE m = j
          BY <1>1, <3>5, <4>1, <5>1 DEF CallLeaves
        <5>2. CASE m < j
          BY <3>4, <3>5, <4>1, <4>2, <5>2 DEF CallLeaves
        <5> QED BY <1>2, <3>6, <4>2, <5>1, <5>2
      <4>4. d = CustomCalls(s)'[m]
        BY <4>1, SameCalls
      <4> QED BY <4>3, <4>4
    <3>7. CustomCalls(s)' = CustomCalls(s)
      BY SameCalls
    <3> QED BY <2>2, <3>6, <3>7 DEF Progress
  <2>4. j + 1 \in Nat \ {0}
    BY <1>2
  <2> QED BY <2>2, <2>3, <2>4
<1> QED BY <1>5, <1>6, <1>7 DEF CustomReached

\* The last step of a custom deployment.
LEMMA FinishReaches ==
  ASSUME CustomAddressesFit, CoresReached, RunningCustom, UNCHANGED addresses,
         pc.j \notin DOMAIN CustomCalls(pc.spec), FinishCustom
  PROVE  CustomReached'
<1>1. PICK s \in CustomSpecs : s = pc.spec
  BY DEF RunningCustom, CustomPc
<1>2. /\ UNCHANGED <<fpga_loaded, registers, fCore, custom_random_inputs>>
      /\ pc' = Idle /\ reply'.spec = s
  BY <1>1 DEF FinishCustom, busVars, customVars, Reply
<1>3. ~RunningCustom'
  BY <1>2, CustomIsApart DEF RunningCustom
<1>4. ASSUME fpga_loaded', CustomApart(s)' PROVE Configured(s)'
  <2>1. PICK n : n = custom_random_inputs
    OBVIOUS
  <2>2. ApartWith(s, n)'
    BY <1>2, <1>4, <2>1 DEF CustomApart
  <2>3. CustomApart(s)
    BY <2>1, <2>2, SameMap DEF CustomApart
  <2>4. Configured(s)
    BY <1>1, <1>2, <1>4, <2>3, LastCall DEF CoresReached, CustomReached
  <2>5. CustomExpected(s)' = CustomExpected(s) /\ Bases' = Bases
    BY SameMap
  <2>6. Unambiguous(CustomExpected(s))' = Unambiguous(CustomExpected(s))
    BY <2>5 DEF Unambiguous
  <2>7. \A w : InRegisters(w)' <=> InRegisters(w)
    BY <1>2 DEF InRegisters
  <2>8. \A u \in {v \in CustomUses(s) : UsedInput(s, v).source_type = "random"} :
          \E slot \in 1 .. custom_random_inputs' :
            InRegisters(<<Bases.noise_generator + 4 * slot, UseDest(s, u)>>)'
    <3>1. SUFFICES ASSUME NEW u \in {v \in CustomUses(s) : UsedInput(s, v).source_type = "random"}
                   PROVE  \E slot \in 1 .. custom_random_inputs' :
                            InRegisters(<<Bases.noise_generator + 4 * slot, UseDest(s, u)>>)'
      OBVIOUS
    <3>2. PICK slot \in 1 .. custom_random_inputs :
            InRegisters(<<Bases.noise_generator + 4 * slot, UseDest(s, u)>>)
      BY <2>4 DEF Configured
    <3>3. InRegisters(<<Bases.noise_generator + 4 * slot, UseDest(s, u)>>)'
      BY <1>2, <2>5, <3>2 DEF InRegisters
    <3> QED BY <1>2, <3>2, <3>3
  <2> QED BY <1>2, <2>4, <2>6, <2>7, <2>8 DEF Configured
<1> QED BY <1>1, <1>2, <1>3, <1>4 DEF CustomReached, CoresReached

\* The first: a deployment begins with none of its calls made.
LEMMA BeginReaches ==
  ASSUME CoresReached, DeployCustom
  PROVE  CustomReached'
<1>1. PICK s \in CustomSpecs : process_deploy_custom(s)
  BY DEF DeployCustom
<1>2. reply'.kind # "deployed_custom"
  BY <1>1 DEF process_deploy_custom, NoReply, Reply
<1>3. ASSUME RunningCustom' PROVE pc'.j = 1 /\ pc'.spec = s
  <2>1. pc' # Idle
    BY <1>3, CustomIsApart DEF RunningCustom
  <2> QED BY <1>1, <2>1 DEF process_deploy_custom, Idle
<1>4. UNCHANGED addresses /\ UNCHANGED custom_random_inputs
  BY <1>1 DEF process_deploy_custom, deployerVars, customVars
<1>5. ASSUME RunningCustom' PROVE Progress'
  <2>1. IsSequence(CustomCalls(s)) /\ CustomCalls(s)' = CustomCalls(s)
    BY <1>4, CustomCallsAre, SameCalls
  <2>2. \A m \in DOMAIN CustomCalls(s) : ~ m < 1
    <3>1. DOMAIN CustomCalls(s) = 1 .. Len(CustomCalls(s)) /\ Len(CustomCalls(s)) \in Nat
      BY <2>1, SequenceDomain
    <3> QED BY <3>1
  <2> QED BY <1>3, <1>5, <2>1, <2>2 DEF Progress
<1> QED BY <1>2, <1>3, <1>4, <1>5 DEF CustomReached, CoresReached

\* Nothing done, or a step of the rest of the server.
LEMMA StutterReaches ==
  ASSUME CoresReached, UNCHANGED coresVars
  PROVE  CustomReached'
<1>1. UNCHANGED <<fpga_loaded, registers, fCore, custom_random_inputs, addresses, pc, reply, up,
                  sink_mode, previous_sink_mode>>
  BY DEF coresVars, vars, busVars, customVars, deployerVars
<1>2. \A s : ApartWith(s, custom_random_inputs)' <=> ApartWith(s, custom_random_inputs)
  <2>1. SUFFICES ASSUME NEW s
                 PROVE ApartWith(s, custom_random_inputs)' <=> ApartWith(s, custom_random_inputs)
    OBVIOUS
  <2>2. PICK n : n = custom_random_inputs
    OBVIOUS
  <2>3. ApartWith(s, n)' <=> ApartWith(s, n)
    BY <1>1, SameMap
  <2> QED BY <1>1, <2>2, <2>3
<1>3. \A s : CustomExpected(s)' = CustomExpected(s) /\ Bases' = Bases
  BY <1>1, SameMap
<1>4. \A w : (InRegisters(w)' <=> InRegisters(w)) /\ (Held(w)' <=> Held(w))
  BY <1>1 DEF InRegisters, Held
<1>5. \A s : Configured(s) => Configured(s)'
  <2>1. SUFFICES ASSUME NEW s, Configured(s) PROVE Configured(s)'
    OBVIOUS
  <2>2. Unambiguous(CustomExpected(s))' = Unambiguous(CustomExpected(s))
    BY <1>3 DEF Unambiguous
  <2>3. Bases' = Bases
    BY <1>3
  <2>4. \A a, v : InRegisters(<<Bases.noise_generator + 4 * a, v>>)'
                    <=> InRegisters(<<Bases.noise_generator + 4 * a, v>>)
    BY <1>1, <2>3 DEF InRegisters
  <2> QED BY <1>1, <1>4, <2>1, <2>2, <2>4 DEF Configured
<1>6. ASSUME RunningCustom, Progress PROVE Progress'
  <2>1. PICK s \in CustomSpecs : s = pc.spec
    BY <1>6 DEF RunningCustom, CustomPc
  <2>2. CustomCalls(s)' = CustomCalls(s)
    BY <1>1, SameCalls
  <2>3. ASSUME NEW c, Made(s, c) PROVE Made(s, c)'
    <3>1. Unambiguous(CustomExpected(s))' = Unambiguous(CustomExpected(s))
      BY <1>3 DEF Unambiguous
    <3>2. \A a, p : LoadedAt(a, p)' <=> LoadedAt(a, p)
      BY <1>1 DEF LoadedAt
    <3>3. Bases' = Bases
      BY <1>3
    <3>4. \A d : SlotHeld(d)' <=> SlotHeld(d)
      BY <1>1, <3>3 DEF SlotHeld, Held, InRegisters
    <3> QED BY <1>4, <2>3, <3>1, <3>2, <3>4 DEF Made, Range
  <2>4. ASSUME NEW m \in DOMAIN CustomCalls(s), m < pc.j PROVE Made(s, CustomCalls(s)[m])'
    <3>1. PICK c : c = CustomCalls(s)[m]
      OBVIOUS
    <3>2. Made(s, c)
      BY <1>6, <2>1, <2>4, <3>1 DEF Progress
    <3>3. Made(s, c)' /\ c = CustomCalls(s)'[m]
      BY <2>2, <2>3, <3>1, <3>2
    <3> QED BY <3>3
  <2> QED BY <1>1, <2>1, <2>2, <2>4 DEF Progress
<1>7. RunningCustom' <=> RunningCustom
  BY <1>1 DEF RunningCustom
<1>8. \A s : CustomApart(s)' <=> CustomApart(s)
  BY <1>2 DEF CustomApart
<1>9. reply'.kind = "deployed_custom" =>
        /\ pc' = Idle /\ reply'.spec \in CustomSpecs
        /\ fpga_loaded' /\ CustomApart(reply.spec)' => Configured(reply.spec)'
  <2>1. ASSUME reply'.kind = "deployed_custom", fpga_loaded', CustomApart(reply.spec)'
        PROVE  Configured(reply.spec)'
    <3>1. PICK s : s = reply.spec
      OBVIOUS
    <3>2. CustomApart(s)' /\ s = reply'.spec
      BY <1>1, <2>1, <3>1
    <3>3. Configured(s)'
      BY <1>1, <1>5, <1>8, <2>1, <3>1, <3>2 DEF CoresReached, CustomReached
    <3> QED BY <3>2, <3>3
  <2> QED BY <1>1, <2>1 DEF CoresReached, CustomReached
<1>10. RunningCustom' => pc'.j \in Nat \ {0} /\ (fpga_loaded' /\ CustomApart(pc.spec)' => Progress')
  <2>1. ASSUME RunningCustom', fpga_loaded', CustomApart(pc.spec)' PROVE Progress'
    <3>1. PICK s : s = pc.spec
      OBVIOUS
    <3>2. CustomApart(s)'
      BY <1>1, <2>1, <3>1
    <3>3. CustomApart(pc.spec) /\ RunningCustom
      BY <1>7, <1>8, <2>1, <3>1, <3>2
    <3> QED BY <1>1, <1>6, <2>1, <3>3 DEF CoresReached, CustomReached
  <2> QED BY <1>1, <1>7, <2>1 DEF CoresReached, CustomReached
<1> QED BY <1>1, <1>9, <1>10 DEF CoresReached, CustomReached

\* The rest of the server, and a new process, do not answer for a custom deployment
\* nor run one.
LEMMA OthersRunNone ==
  ASSUME CoresReached, ServerStep \/ Relaunch
  PROVE  reply'.kind # "deployed_custom" /\ ~RunningCustom'
<1>1. reply'.kind # "deployed_custom"
  <2>1. reply'.kind # "deployed_custom" \/ (UNCHANGED reply /\ pc # Idle)
    BY OthersAnswer
  <2> QED BY <2>1 DEF CoresReached, CustomReached
<1>2. ~RunningCustom'
  <2>1. CASE Bracket
    <3>1. Bracket'
      BY <2>1, BracketNext DEF Next
    <3>2. pc'.phase # "custom"
      <4>1. Idle.phase = "idle" /\ \A x \in Range(Phases) : x # "custom"
        BY CustomIsApart DEF Idle
      <4> QED BY <3>1, <4>1 DEF Bracket, Running, RunningPc
    <3> QED BY <3>2 DEF RunningCustom, CustomPc
  <2>2. CASE RunningCustom
    <3>1. ServerStep
      BY <2>2 DEF RunningCustom, Relaunch
    <3>2. pc' = Idle
      BY <2>2, <3>1, OnlySignals DEF Terminate
    <3> QED BY <3>2, CustomIsApart DEF RunningCustom
  <2> QED BY <2>1, <2>2 DEF CoresReached, CoresBracket
<1> QED BY <1>1, <1>2

\* So they keep it.
LEMMA OthersReach ==
  ASSUME CoresReached, (ServerStep /\ UNCHANGED customVars) \/ (Relaunch /\ custom_random_inputs' = 0)
  PROVE  CustomReached'
<1>1. custom_random_inputs' \in Nat
  BY DEF customVars, CoresReached, CustomReached
<1> QED BY <1>1, OthersRunNone DEF CustomReached

\* Every step keeps it.
LEMMA CoresReachedNext ==
  ASSUME CustomAddressesFit, CoresReached, [CoresNext]_coresVars
  PROVE  CoresReached'
<1>1. CoresBracket'
  BY CoresBracketNext DEF CoresReached
<1>2. CASE CustomStep
  <2> SUFFICES CustomReached'
    BY <1>1 DEF CoresReached
  <2>1. RunningCustom
    BY <1>2, CustomIsApart DEF CoresReached, CoresBracket, CustomStep, At
  <2>2. UNCHANGED addresses
    BY <1>2 DEF CustomStep, deployerVars
  <2>3. PICK s \in CustomSpecs : s = pc.spec
    BY <2>1 DEF RunningCustom, CustomPc
  <2>4. CASE pc.j \in DOMAIN CustomCalls(s) /\ CustomCall(CustomCalls(s)[pc.j])
    BY <2>1, <2>2, <2>3, <2>4, CallReaches
  <2>5. CASE pc.j \notin DOMAIN CustomCalls(s) /\ FinishCustom
    BY <2>1, <2>2, <2>3, <2>5, FinishReaches
  <2> QED BY <1>2, <2>3, <2>4, <2>5 DEF CustomStep
<1>3. CASE DeployCustom
  BY <1>1, <1>3, BeginReaches DEF CoresReached
<1>4. CASE UNCHANGED coresVars
  BY <1>1, <1>4, StutterReaches DEF CoresReached
<1>5. CASE (ServerStep /\ UNCHANGED customVars) \/ (Relaunch /\ custom_random_inputs' = 0)
  BY <1>1, <1>5, OthersReach DEF CoresReached
<1> QED BY <1>2, <1>3, <1>4, <1>5 DEF CoresNext

\* It holds at first.
LEMMA CoresReachedInit == CoresInit => CoresReached
<1>1. CoresInit => CoresBracket
  BY BracketInit DEF CoresInit, CoresBracket
<1>2. CoresInit => pc = Idle /\ reply.kind = "none" /\ custom_random_inputs = 0
  BY DEF CoresInit, Init, NoReply, Reply
<1>3. pc = Idle => ~RunningCustom
  BY CustomIsApart DEF RunningCustom
<1> QED BY <1>1, <1>2, <1>3 DEF CoresReached, CustomReached

\* A custom deployment that completes is in the hardware, where the address map and
\* the specification keep the registers it calls for, those of the engines, the
\* slots of the noise generator and the programs apart.
THEOREM CustomDeployReachesHardware ==
  ASSUME CustomAddressesFit
  PROVE  CoresSpec => []((reply.kind = "deployed_custom" => CustomApart(reply.spec))
                           => CustomConfigurationInHardware)
<1>1. CoresReached => ((reply.kind = "deployed_custom" => CustomApart(reply.spec))
                         => CustomConfigurationInHardware)
  <2>1. SUFFICES ASSUME CoresReached, reply.kind = "deployed_custom", CustomApart(reply.spec), fpga_loaded
                 PROVE  Configured(reply.spec)
    BY DEF CustomConfigurationInHardware, Configured
  <2> QED BY <2>1 DEF CoresReached, CustomReached
<1> QED BY <1>1, CoresReachedInit, CoresReachedNext, PTL DEF CoresSpec

----------------------------------------------------------------------------
(* The log, with custom deployments in between *)

\* The values of a memory are written by a sequence of stores.
LEMMA MemoryIsStores ==
  ASSUME NEW base, NEW n \in Nat, NEW m
  PROVE  IsSequence(MemoryStores(base, n, m))
<1> DEFINE store(c) == <<base + 4 * ((m.address % MemoryShift) + MemoryShift * (c - 1)), m.value[c]>>
           stores == [c \in 1 .. n |-> store(c)]
           one == <<base + 4 * m.address, m.value[1]>>
<1>1. MemoryStores(base, n, m) = IF Len(m.value) = n THEN stores ELSE <<one>>
  BY DEF MemoryStores
<1> HIDE DEF store, one
<1>2. stores \in Seq({store(c) : c \in 1 .. n})
  OBVIOUS
<1>3. IsSequence(stores)
  BY <1>2, SequenceIntro
<1> HIDE DEF stores
<1>4. IsSequence(<<one>>)
  BY OneElement
<1> QED BY <1>1, <1>3, <1>4

\* So is whatever a call that writes has to write.
LEMMA CallIsStores ==
  ASSUME NEW s \in CustomSpecs, NEW c \in Range(CustomCalls(s)), c.function = "write"
  PROVE  IsSequence(c.data)
<1>1. PICK i \in DOMAIN ProgramSeq(s) : CalledFor(s, i, c)
  BY CustomCallsAre
<1>2. c # LoadCallOf(s, i)
  BY CallFields DEF LoadCallOf
<1>3. CASE IsDmaCall(s, i, c)
  <2>1. ASSUME c = WriteAll(<<<<CustomDma(i), Cardinality(SlotsOf(s, ProgramSeq(s)[i]))>>>>)
        PROVE  IsSequence(c.data)
    <3> DEFINE w == <<CustomDma(i), Cardinality(SlotsOf(s, ProgramSeq(s)[i]))>>
    <3> HIDE DEF w
    <3>1. IsSequence(<<w>>) /\ c = WriteAll(<<w>>)
      BY <2>1, OneElement DEF w
    <3> QED BY <3>1, CallFields
  <2>2. ASSUME NEW j \in SlotsOf(s, ProgramSeq(s)[i]), c = SlotCall(s, i, j)
        PROVE  IsSequence(c.data)
    <3>1. SlotFits(Slots(s)[j])
      BY <2>2, CallFields DEF SlotCall
    <3> QED BY <2>2, <3>1, SlotCallWrites DEF AreStores
  <2> QED BY <1>3, <2>1, <2>2 DEF IsDmaCall
<1>4. CASE IsMemoryCall(s, i, c)
  <2>1. PICK m \in Range(MemoryOf(s, ProgramSeq(s)[i])) :
          c = WriteAll(MemoryStores(ProgramSeq(s)[i].options.control_address, ProgramSeq(s)[i].n_channels, m))
    BY <1>4 DEF IsMemoryCall
  <2>2. ProgramSeq(s)[i].n_channels \in Nat
    BY CustomSequences
  <2> QED BY <2>1, <2>2, MemoryIsStores, CallFields
<1>5. CASE IsInputCall(s, i, c)
  BY <1>5, InputCallKind DEF IsInputCall, KindOf, AreStores
<1>6. CASE c = CoreCallOf(s, i)
  <2> DEFINE w == <<ControlAddress(s, i), CustomChannelsSet(ProgramSeq(s)[i])>>
  <2>1. c = WriteAll(<<w>>)
    BY <1>6, CoreCallWrites
  <2> HIDE DEF w
  <2> QED BY <2>1, OneElement, CallFields
<1> QED BY <1>1, <1>2, <1>3, <1>4, <1>5, <1>6 DEF CalledFor

\* The log, with custom deployments: it holds all that is expected of the
\* specification it is trusted for, also while a custom deployment adds to it.
TrustedLog ==
  IsSequence(operations) /\ (logged # NoSpec => Recorded(logged) /\ WordsLogged)

CoresLog ==
  /\ CoresBracket /\ IsSequence(inputs) /\ TrustedLog /\ CachedSimulationIsComplete
  /\ IF pc.phase = "custom" THEN reply = NoReply ELSE LogPart

\* What is trusted of the log is kept by whatever adds to it.
LEMMA TrustKept ==
  ASSUME TrustedLog, UNCHANGED <<logged, addresses>>, LogGrows
  PROVE  TrustedLog'
<1>1. PICK s : s = logged
  OBVIOUS
<1>2. s # NoSpec => Recorded(s) /\ WordsLogged
  BY <1>1 DEF TrustedLog
<1>3. Recorded(s) /\ WordsLogged => Recorded(s)' /\ WordsLogged'
  BY RecordedKept
<1>4. logged' = s /\ IsSequence(operations')
  BY <1>1 DEF LogGrows
<1> QED BY <1>2, <1>3, <1>4 DEF TrustedLog

\* A custom deployment that ends, or is refused, leaves the log as the rest of the
\* server finds it.
LEMMA CustomLeavesLog ==
  ASSUME TrustedLog', pc' = Idle, reply'.kind \in {"none", "died", "deployment_error", "deployed_custom"}
  PROVE  LogPart' /\ CachedSimulationIsComplete'
<1>1. Deploying' /\ LogIsSpecification' /\ DeployReached'
  BY IdleIsNotRunning DEF Deploying, Running, LogIsSpecification, DeployReached
<1> QED BY <1>1 DEF LogPart, TrustedLog, CachedSimulationIsComplete

\* It begins with the log as it is.
LEMMA BeginKeepsLog ==
  ASSUME TrustedLog, DeployCustom
  PROVE  /\ TrustedLog' /\ CachedSimulationIsComplete' /\ UNCHANGED inputs
         /\ IF pc'.phase = "custom" THEN reply' = NoReply ELSE LogPart'
<1>1. PICK s \in CustomSpecs : process_deploy_custom(s)
  BY DEF DeployCustom
<1>2. UNCHANGED <<operations, logged, addresses, inputs>>
  BY <1>1 DEF process_deploy_custom, keep_operations, deployerVars
<1>3. TrustedLog'
  BY <1>2, TrustKept, LogStays DEF TrustedLog
<1>4. CASE SpecData[s].set_specs = "ok"
  <2>1. pc'.phase = "custom" /\ reply' = NoReply
    BY <1>1, <1>4 DEF process_deploy_custom, Idle
  <2>2. reply'.kind = "none"
    BY <2>1 DEF NoReply, Reply
  <2> QED BY <1>2, <1>3, <2>1, <2>2 DEF CachedSimulationIsComplete
<1>5. CASE SpecData[s].set_specs # "ok"
  <2>1. pc' = Idle /\ reply' = Reply(IF up' THEN "deployment_error" ELSE "died", s, <<>>)
    BY <1>1, <1>5 DEF process_deploy_custom
  <2>2. reply'.kind \in {"died", "deployment_error"} /\ pc'.phase # "custom"
    BY <2>1 DEF Reply, Idle
  <2> QED BY <1>2, <1>3, <2>1, <2>2, CustomLeavesLog
<1> QED BY <1>4, <1>5

\* What a call loads is the words of a program.
LEMMA CallIsProgram ==
  ASSUME NEW s \in CustomSpecs, NEW c \in Range(CustomCalls(s)), c.function = "load_core"
  PROVE  IsSequence(c.data)
<1>1. PICK i \in DOMAIN ProgramSeq(s) : CalledFor(s, i, c)
  BY CustomCallsAre
<1>2. CASE c = LoadCallOf(s, i)
  BY <1>2, CallFields, CustomSequences DEF LoadCallOf
<1>3. CASE IsInputCall(s, i, c)
  <2>1. PICK p \in ProgramsOf(s) : c.data = p.binary
    BY <1>3, InputCallKind DEF IsInputCall, KindOf
  <2> QED BY <2>1, CustomSpecAssumption DEF ProgramsOf, ProgramSeq
<1>4. c = LoadCallOf(s, i) \/ IsInputCall(s, i, c)
  BY <1>1, CallFields DEF CalledFor, IsDmaCall, IsMemoryCall, CoreCallOf, SlotCall
<1> QED BY <1>2, <1>3, <1>4

\* A program that is loaded is added to the log.
LEMMA LoadExtendsLog ==
  ASSUME IsSequence(operations), NEW address, NEW program, IsSequence(program),
         apply_program(address, program)
  PROVE  LogGrows
<1> DEFINE entry == BusOp(<<address>>, program, "rom_plane_write")
<1>1. operations' = operations \/ operations' = Append(operations, entry)
  BY DEF apply_program, load_program
<1>2. entry.data = program
  BY DEF BusOp
<1> HIDE DEF entry
<1>3. CASE operations' = operations
  BY <1>3, LogStays
<1>4. CASE operations' = Append(operations, entry)
  <2>1. operations \in Seq(Range(operations) \union {entry})
    BY DEF IsSequence
  <2>2. operations' = operations \o <<entry>>
    BY <1>4, <2>1, Appending
  <2>3. IsSequence(<<entry>>)
    BY OneElement
  <2>4. /\ IsSequence(operations')
        /\ ControlWrites(operations') = ControlWrites(operations) \union ControlWrites(<<entry>>)
        /\ RomWrites(operations') = RomWrites(operations) \union RomWrites(<<entry>>)
    BY <2>2, <2>3, RangeOfConcat, WritesOfConcat
  <2>5. Range(<<entry>>) = {entry}
    BY DEF Range
  <2>6. \A w \in RomWrites(<<entry>>) : w[2] = program
    BY <1>2, <2>5 DEF RomWrites
  <2>7. WordsLogged => WordsLogged'
    BY <2>4, <2>6 DEF WordsLogged
  <2> QED BY <2>4, <2>7 DEF LogGrows
<1> QED BY <1>1, <1>3, <1>4

\* Each of its calls adds to it, or ends the deployment.
LEMMA CallKeepsLog ==
  ASSUME TrustedLog, RunningCustom, reply = NoReply, UNCHANGED <<logged, addresses>>,
         NEW s \in CustomSpecs, s = pc.spec,
         NEW c \in Range(CustomCalls(s)), CustomCall(c)
  PROVE  /\ TrustedLog' /\ CachedSimulationIsComplete'
         /\ IF pc'.phase = "custom" THEN reply' = NoReply ELSE LogPart'
<1> DEFINE next == [pc EXCEPT !.j = @ + 1]
<1>1. next.phase = "custom"
  BY DEF RunningCustom, CustomPc
<1>2. \/ IsSequence(c.data) /\ LoadThen(c.address, c.data, next)
      \/ \E stores : IsSequence(stores) /\ WriteThen(stores, next)
      \/ Throw
  <2>1. CASE c.function = "load_core"
    <3>1. LoadThen(c.address, c.data, next)
      BY <2>1, Zenon DEF CustomCall
    <3> QED BY <2>1, <3>1, CallIsProgram
  <2>2. CASE c.function = "write"
    <3>1. WriteThen(c.data, next)
      BY <2>2, Zenon DEF CustomCall
    <3> QED BY <2>2, <3>1, CallIsStores
  <2>3. CASE c.function = "random"
    <3>1. WriteThen(<<<<NoiseSlot(c.address), c.data>>>>, next)
      BY <2>3, Zenon DEF CustomCall
    <3>2. IsSequence(<<<<NoiseSlot(c.address), c.data>>>>)
      BY OneElement
    <3> QED BY <3>1, <3>2
  <2>4. CASE c.function = "waveform"
    <3>1. WriteThen(WaveStores(c.address, custom_waveforms, c.data[1], c.data[2]), next)
      BY <2>4, Zenon DEF CustomCall
    <3>2. PICK i \in DOMAIN ProgramSeq(s) : CalledFor(s, i, c)
      BY CustomCallsAre
    <3>3. c.address = 1 + Bases.cores_inputs
      <4>1. CASE IsInputCall(s, i, c)
        BY <2>4, <4>1, InputCallKind DEF IsInputCall, KindOf
      <4>2. ~IsInputCall(s, i, c) => c.function \in {"load_core", "write", "throw"}
        BY <3>2, CallFields DEF CalledFor, LoadCallOf, IsDmaCall, IsMemoryCall, CoreCallOf, SlotCall
      <4> QED BY <2>4, <4>1, <4>2
    <3>4. IsSequence(WaveStores(c.address, custom_waveforms, c.data[1], c.data[2]))
      BY <3>3, WaveCallStores DEF AreStores
    <3> QED BY <3>1, <3>4
  <2>5. CASE c.function = "throw"
    BY <2>5, Zenon DEF CustomCall
  <2> QED BY <2>1, <2>2, <2>3, <2>4, <2>5, Zenon DEF CustomCall
<1> HIDE DEF next
<1>3. Idle.phase # "custom"
  BY DEF Idle
<1>4. ASSUME LogGrows,
             \/ pc' = next /\ UNCHANGED reply
             \/ pc' = Idle /\ reply'.kind \in {"died", "deployment_error"}
      PROVE  /\ TrustedLog' /\ CachedSimulationIsComplete'
             /\ IF pc'.phase = "custom" THEN reply' = NoReply ELSE LogPart'
  <2>1. TrustedLog'
    BY <1>4, TrustKept
  <2>2. CASE pc' = next /\ UNCHANGED reply
    <3>1. reply' = NoReply /\ reply'.kind = "none"
      BY <2>2 DEF NoReply, Reply
    <3> QED BY <1>1, <2>1, <2>2, <3>1 DEF CachedSimulationIsComplete
  <2>3. CASE pc' = Idle /\ reply'.kind \in {"died", "deployment_error"}
    BY <1>3, <2>1, <2>3, CustomLeavesLog
  <2> QED BY <1>4, <2>2, <2>3
<1>5. CASE IsSequence(c.data) /\ LoadThen(c.address, c.data, next)
  <2>1. \/ pc' = next /\ UNCHANGED reply
        \/ pc' = Idle /\ reply'.kind \in {"died", "deployment_error"}
    BY <1>5 DEF LoadThen, Reply
  <2>2. LogGrows
    BY <1>5, LoadExtendsLog DEF LoadThen, TrustedLog
  <2> QED BY <1>4, <2>1, <2>2
<1>6. CASE \E stores : IsSequence(stores) /\ WriteThen(stores, next)
  <2>1. PICK stores : IsSequence(stores) /\ WriteThen(stores, next)
    BY <1>6
  <2>2. \/ pc' = next /\ UNCHANGED reply
        \/ pc' = Idle /\ reply'.kind \in {"died", "deployment_error"}
    BY <2>1 DEF WriteThen, Reply
  <2>3. LogGrows
    BY <2>1, WritesExtendLog DEF WriteThen, TrustedLog
  <2> QED BY <1>4, <2>2, <2>3
<1>7. CASE Throw
  <2>1. pc' = Idle /\ reply'.kind \in {"died", "deployment_error"} /\ UNCHANGED operations
    BY <1>7 DEF Throw, Reply
  <2> QED BY <1>4, <2>1, LogStays DEF TrustedLog
<1> QED BY <1>2, <1>5, <1>6, <1>7

\* Every step keeps it.
LEMMA CoresLogNext ==
  ASSUME AddressesFit, CoresLog, [CoresNext]_coresVars
  PROVE  CoresLog'
<1>1. CoresBracket'
  BY CoresBracketNext DEF CoresLog
<1> SUFFICES /\ IsSequence(inputs') /\ TrustedLog' /\ CachedSimulationIsComplete'
             /\ IF pc'.phase = "custom" THEN reply' = NoReply ELSE LogPart'
  BY <1>1 DEF CoresLog
<1>2. CASE DeployCustom
  BY <1>2, BeginKeepsLog DEF CoresLog
<1>3. CASE CustomStep
  <2>1. RunningCustom /\ pc.phase = "custom"
    BY <1>3, CustomIsApart DEF CoresLog, CoresBracket, CustomStep, At
  <2>2. UNCHANGED <<inputs, addresses, logged>>
    BY <1>3 DEF CustomStep, deployerVars
  <2>3. PICK s \in CustomSpecs : s = pc.spec
    BY <2>1 DEF RunningCustom, CustomPc
  <2>4. CASE pc.j \in DOMAIN CustomCalls(s) /\ CustomCall(CustomCalls(s)[pc.j])
    <3>1. PICK c : c = CustomCalls(s)[pc.j]
      OBVIOUS
    <3>2. c \in Range(CustomCalls(s)) /\ CustomCall(c)
      BY <2>4, <3>1 DEF Range
    <3> QED BY <2>1, <2>2, <2>3, <3>2, CallKeepsLog DEF CoresLog
  <2>5. CASE FinishCustom
    <3>1. pc' = Idle /\ reply'.kind = "deployed_custom" /\ UNCHANGED operations
      BY <2>5 DEF FinishCustom, busVars, Reply
    <3>2. TrustedLog'
      BY <2>2, <3>1, TrustKept, LogStays DEF CoresLog, TrustedLog
    <3>3. pc'.phase # "custom"
      BY <3>1 DEF Idle
    <3> QED BY <2>2, <3>1, <3>2, <3>3, CustomLeavesLog DEF CoresLog
  <2> QED BY <1>3, <2>3, <2>4, <2>5 DEF CustomStep
<1>4. CASE Bracket /\ [Next]_vars
  <2>1. pc.phase # "custom" /\ LogInvariant
    BY <1>4, CustomIsApart DEF CoresLog, LogInvariant
  <2>2. LogInvariant'
    BY <1>4, <2>1, LogNext
  <2>3. pc'.phase # "custom"
    <3>1. Idle.phase = "idle" /\ \A x \in Range(Phases) : x # "custom"
      BY CustomIsApart DEF Idle
    <3> QED BY <2>2, <3>1 DEF LogInvariant, Bracket, Running, RunningPc
  <2> QED BY <2>2, <2>3 DEF LogInvariant, LogPart, TrustedLog
<1>5. CASE RunningCustom /\ ServerStep
  <2>1. pc' = Idle /\ reply'.kind = "none" /\ UNCHANGED <<operations, inputs, logged, addresses>>
    BY <1>5, OnlySignals DEF Terminate, process_exit, deployerVars, NoReply, Reply
  <2>2. TrustedLog'
    BY <2>1, TrustKept, LogStays DEF CoresLog, TrustedLog
  <2>3. pc'.phase # "custom"
    BY <2>1 DEF Idle
  <2> QED BY <2>1, <2>2, <2>3, CustomLeavesLog DEF CoresLog
<1>6. CASE RunningCustom /\ UNCHANGED vars
  <2>1. UNCHANGED <<operations, inputs, logged, addresses, pc, reply>>
    BY <1>6 DEF vars, busVars, deployerVars
  <2>2. TrustedLog'
    BY <2>1, TrustKept, LogStays DEF CoresLog, TrustedLog
  <2>3. pc.phase = "custom" /\ reply = NoReply
    BY <1>6 DEF RunningCustom, CustomPc, CoresLog
  <2>4. reply'.kind = "none"
    BY <2>1, <2>3 DEF NoReply, Reply
  <2> QED BY <2>1, <2>2, <2>3, <2>4 DEF CoresLog, CachedSimulationIsComplete
<1>7. ~(RunningCustom /\ Relaunch)
  BY DEF RunningCustom, Relaunch
<1> QED BY <1>2, <1>3, <1>4, <1>5, <1>6, <1>7 DEF CoresLog, CoresBracket, CoresNext, Next, coresVars

\* It holds at first.
LEMMA CoresLogInit == CoresInit => CoresLog
<1>1. CoresInit => LogInvariant
  BY LogInit DEF CoresInit
<1>2. CoresInit => pc.phase # "custom"
  BY DEF CoresInit, Init, Idle
<1> QED BY <1>1, <1>2 DEF LogInvariant, LogPart, CoresLog, CoresBracket, TrustedLog

\* A simulation that is answered from the log is answered with the whole of it,
\* whatever custom deployments have added since.
THEOREM CoresCachedSimulationIsWhole ==
  ASSUME AddressesFit
  PROVE  CoresSpec => []CachedSimulationIsComplete
<1>1. CoresLog => CachedSimulationIsComplete
  BY DEF CoresLog
<1> QED BY <1>1, CoresLogInit, CoresLogNext, PTL DEF CoresSpec

----------------------------------------------------------------------------
(* The constants of a custom deployment are in the engine *)

\* A sequence and what is appended to it, element by element.
Extends(longer, x, y) ==
  /\ IsSequence(longer) /\ Len(longer) = Len(x) + Len(y)
  /\ \A n \in 1 .. Len(x) : longer[n] = x[n]
  /\ \A k \in 1 .. Len(y) : longer[Len(x) + k] = y[k]

\* The sizes of a set of positions and of one that goes on with the next k.
LEMMA MorePositions ==
  ASSUME NEW l \in Nat, NEW W \in SUBSET (1 .. l), NEW k \in Nat
  PROVE  /\ Cardinality(W) \in Nat
         /\ Cardinality(W \union ((l + 1) .. (l + k))) = Cardinality(W) + k
<1>1. IsFiniteSet(W) /\ Cardinality(W) \in Nat
  <2>1. IsFiniteSet(1 .. l)
    BY FS_Interval
  <2> QED BY <2>1, FS_Subset, FS_CardinalityType
<1> DEFINE more == (l + 1) .. (l + k)
<1>2. IsFiniteSet(more) /\ Cardinality(more) = k
  <2>1. \A a, b \in Int : /\ IsFiniteSet(a .. b)
                          /\ Cardinality(a .. b) = IF a > b THEN 0 ELSE b - a + 1
    BY FS_Interval
  <2>2. l + 1 \in Int /\ l + k \in Int
    OBVIOUS
  <2>3. IsFiniteSet(more) /\ Cardinality(more) = IF l + 1 > l + k THEN 0 ELSE l + k - (l + 1) + 1
    BY <2>1, <2>2
  <2> QED BY <2>3
<1>3. W \cap more = {}
  OBVIOUS
<1> HIDE DEF more
<1>4. Cardinality(W \union more) = Cardinality(W) + Cardinality(more) - Cardinality(W \cap more)
  BY <1>1, <1>2, FS_Union
<1>5. Cardinality(W \cap more) = 0
  BY <1>3, FS_EmptySet
<1> QED BY <1>1, <1>2, <1>4, <1>5 DEF more

\* The lines of a log with more writes are those of the log and one for each.
LEMMA LinesOfConcat ==
  ASSUME NEW ops, NEW entries, IsSequence(ops), IsSequence(entries), NEW stores,
         Len(stores) = Len(entries),
         \A k \in 1 .. Len(entries) :
           /\ entries[k].type = "control_plane_write"
           /\ <<entries[k].address[1], entries[k].data[1]>> = stores[k]
  PROVE  IsSequence(ControlLines(ops)) /\ Extends(ControlLines(ops \o entries), ControlLines(ops), stores)
<1> DEFINE all == ops \o entries
           W(x) == {i \in DOMAIN x : x[i].type = "control_plane_write"}
           line(x, n) == <<x[Nth(W(x), n)].address[1], x[Nth(W(x), n)].data[1]>>
<1>1. \A x : ControlLines(x) = [n \in 1 .. Cardinality(W(x)) |-> line(x, n)]
  BY DEF ControlLines
<1>2. PICK L, N : L = Len(ops) /\ N = Len(entries)
  OBVIOUS
<1>3. L \in Nat /\ N \in Nat /\ DOMAIN ops = 1 .. L /\ DOMAIN entries = 1 .. N
  BY <1>2, SequenceDomain
<1>4. /\ DOMAIN all = 1 .. (L + N) /\ L + N \in Nat
      /\ \A i \in 1 .. L : all[i] = ops[i]
      /\ \A k \in 1 .. N : all[L + k] = entries[k]
  <2>1. ops \in Seq(Range(ops) \union Range(entries)) /\ entries \in Seq(Range(ops) \union Range(entries))
    BY DEF IsSequence
  <2>2. /\ Len(all) = Len(ops) + Len(entries) /\ DOMAIN all = 1 .. Len(ops) + Len(entries)
        /\ \A i \in 1 .. Len(ops) + Len(entries) :
             all[i] = IF i <= Len(ops) THEN ops[i] ELSE entries[i - Len(ops)]
    BY <2>1
  <2>3. /\ DOMAIN all = 1 .. (L + N)
        /\ \A i \in 1 .. (L + N) : all[i] = IF i <= L THEN ops[i] ELSE entries[i - L]
    BY <1>2, <2>2
  <2> HIDE DEF all
  <2>4. \A k \in 1 .. N : L + k \in 1 .. (L + N) /\ ~(L + k <= L) /\ (L + k) - L = k
    BY <1>3
  <2> QED BY <1>3, <2>3, <2>4
<1> HIDE DEF all
<1>5. W(ops) \in SUBSET (1 .. L) /\ W(all) \in SUBSET (1 .. (L + N))
  BY <1>3, <1>4
<1>6. \A i : i \in W(all) <=> i \in W(ops) \/ i \in (L + 1) .. (L + N)
  <2>1. \A i \in 1 .. L : i \in W(all) <=> i \in W(ops)
    BY <1>3, <1>4
  <2>2. ASSUME NEW i \in (L + 1) .. (L + N) PROVE i \in W(all)
    <3>1. PICK k \in 1 .. N : i = L + k
      <4>1. i - L \in 1 .. N /\ i = L + (i - L)
        BY <1>3
      <4> QED BY <4>1
    <3>2. entries[k].type = "control_plane_write" /\ all[i] = entries[k] /\ i \in 1 .. (L + N)
      BY <1>2, <1>3, <1>4, <3>1
    <3> QED BY <1>4, <3>2
  <2>3. \A i \in 1 .. (L + N) : i \in 1 .. L \/ i \in (L + 1) .. (L + N)
    BY <1>3
  <2>4. \A i \in 1 .. L : i \in 1 .. (L + N)
    BY <1>3
  <2> HIDE DEF W
  <2> QED BY <1>5, <2>1, <2>2, <2>3, <2>4
<1>7. PICK U, V : U = W(ops) /\ V = W(all)
  OBVIOUS
<1>8. PICK c : c = Cardinality(U)
  OBVIOUS
<1>9. V = U \union ((L + 1) .. (L + N)) /\ U \in SUBSET (1 .. L) /\ V \in SUBSET (1 .. (L + N))
  <2> HIDE DEF W
  <2> QED BY <1>5, <1>6, <1>7
<1>10. c \in Nat /\ Cardinality(V) = c + N
  BY <1>3, <1>8, <1>9, MorePositions
<1>11. ASSUME NEW n \in 1 .. c PROVE Nth(V, n) = Nth(U, n) /\ Nth(U, n) \in 1 .. L
  <2>1. Nth(U, n) \in U /\ Cardinality(U \cap (1 .. Nth(U, n))) = n
    BY <1>3, <1>8, <1>9, NthIsPosition
  <2>2. PICK i : i = Nth(U, n)
    OBVIOUS
  <2>3. i \in V /\ i \in 1 .. L
    BY <1>9, <2>1, <2>2
  <2>4. V \cap (1 .. i) = U \cap (1 .. i)
    BY <1>3, <1>9, <2>3
  <2>5. Nth(V, Cardinality(V \cap (1 .. i))) = i
    BY <1>4, <1>9, <2>3, NthPosition
  <2> QED BY <2>1, <2>2, <2>3, <2>4, <2>5
<1>12. ASSUME NEW k \in 1 .. N PROVE Nth(V, c + k) = L + k
  <2>1. L + k \in V
    BY <1>3, <1>9
  <2>2. V \cap (1 .. (L + k)) = U \union ((L + 1) .. (L + k))
    <3>1. ASSUME NEW x PROVE x \in V \cap (1 .. (L + k)) <=> x \in U \union ((L + 1) .. (L + k))
      <4>1. x \in 1 .. L => x \in 1 .. (L + k)
        BY <1>3
      <4>2. x \in (L + 1) .. (L + N) /\ x \in 1 .. (L + k) <=> x \in (L + 1) .. (L + k)
        BY <1>3
      <4> QED BY <1>9, <4>1, <4>2
    <3> QED BY <3>1
  <2>3. Cardinality(U \union ((L + 1) .. (L + k))) = c + k
    BY <1>3, <1>8, <1>9, MorePositions
  <2>4. Nth(V, Cardinality(V \cap (1 .. (L + k)))) = L + k
    BY <1>4, <1>9, <2>1, NthPosition
  <2> QED BY <2>2, <2>3, <2>4
<1>13. /\ ControlLines(ops) = [n \in 1 .. c |->
             <<ops[Nth(U, n)].address[1], ops[Nth(U, n)].data[1]>>]
       /\ ControlLines(all) = [n \in 1 .. (c + N) |->
             <<all[Nth(V, n)].address[1], all[Nth(V, n)].data[1]>>]
  BY <1>1, <1>7, <1>8, <1>10
<1> HIDE DEF W, line
<1> DEFINE before(n) == <<ops[Nth(U, n)].address[1], ops[Nth(U, n)].data[1]>>
           after(n) == <<all[Nth(V, n)].address[1], all[Nth(V, n)].data[1]>>
<1>14. \A n \in 1 .. c : after(n) = before(n)
  BY <1>4, <1>11
<1>15. \A k \in 1 .. N : after(c + k) = stores[k]
  <2>1. ASSUME NEW k \in 1 .. N PROVE after(c + k) = stores[k]
    <3>1. Nth(V, c + k) = L + k /\ all[L + k] = entries[k]
      BY <1>4, <1>12
    <3>2. after(c + k) = <<entries[k].address[1], entries[k].data[1]>>
      BY <3>1
    <3> QED BY <1>2, <3>2
  <2> QED BY <2>1
<1>16. /\ ControlLines(ops) = [n \in 1 .. c |-> before(n)]
       /\ ControlLines(all) = [n \in 1 .. (c + N) |-> after(n)]
  BY <1>13
<1> HIDE DEF before, after
<1>17. /\ [n \in 1 .. c |-> before(n)] \in Seq({before(n) : n \in 1 .. c})
       /\ [n \in 1 .. (c + N) |-> after(n)] \in Seq({after(n) : n \in 1 .. (c + N)})
  <2>1. /\ \A m \in Nat : [n \in 1 .. m |-> before(n)] \in Seq({before(n) : n \in 1 .. m})
        /\ \A m \in Nat : [n \in 1 .. m |-> after(n)] \in Seq({after(n) : n \in 1 .. m})
    OBVIOUS
  <2>2. c \in Nat /\ c + N \in Nat
    BY <1>3, <1>10
  <2> QED BY <2>1, <2>2
<1>18. IsSequence(ControlLines(ops)) /\ IsSequence(ControlLines(all))
  BY <1>16, <1>17, SequenceIntro
<1>19. Len(ControlLines(ops)) = c /\ Len(ControlLines(all)) = c + N
  <2>1. Len([n \in 1 .. c |-> before(n)]) = c
    BY <1>10
  <2>2. c + N \in Nat
    BY <1>3, <1>10
  <2>3. \A m \in Nat : Len([n \in 1 .. m |-> after(n)]) = m
    OBVIOUS
  <2> QED BY <1>16, <2>1, <2>2, <2>3
<1>20. \A n \in 1 .. c : ControlLines(ops)[n] = before(n) /\ ControlLines(all)[n] = after(n)
  <2>1. \A n \in 1 .. c : n \in 1 .. (c + N)
    BY <1>3, <1>10
  <2> QED BY <1>16, <2>1
<1>21. \A k \in 1 .. N : ControlLines(all)[c + k] = after(c + k)
  <2>1. \A k \in 1 .. N : c + k \in 1 .. (c + N)
    BY <1>3, <1>10
  <2> QED BY <1>16, <2>1
<1>22. Len(stores) = N
  BY <1>2
<1>23. Extends(ControlLines(all), ControlLines(ops), stores)
  BY <1>14, <1>15, <1>18, <1>19, <1>20, <1>21, <1>22 DEF Extends
<1> QED BY <1>18, <1>23 DEF all

\* A constant is set by three writes in a row, to its selector, its destination and
\* its value; `Sets` says where they start, `Gives` what they set.
Sets(lines, engine, selector, n) ==
  /\ n + 2 \in DOMAIN lines
  /\ lines[n] = <<engine + 12, selector>>
  /\ lines[n + 1][1] = engine + 8 /\ lines[n + 2][1] = engine
Gives(lines, n, dest, value) == lines[n + 1][2] = dest /\ lines[n + 2][2] = value

\* From some place on, whatever sets this selector sets it to this.
Settled(lines, engine, selector, dest, value) ==
  \E n \in DOMAIN lines :
    /\ Sets(lines, engine, selector, n) /\ Gives(lines, n, dest, value)
    /\ \A m \in n + 1 .. Len(lines) :
         Sets(lines, engine, selector, m) => Gives(lines, m, dest, value)

\* Then the engine holds it: the last to set it did.
LEMMA SettledHolds ==
  ASSUME NEW lines, IsSequence(lines), NEW engine, NEW selector, NEW dest, NEW value,
         Settled(lines, engine, selector, dest, value)
  PROVE  EngineHolds(lines, engine, selector, dest, value)
<1>1. PICK L \in Nat : L = Len(lines) /\ DOMAIN lines = 1 .. L
  BY SequenceDomain
<1>2. PICK n \in 1 .. L :
        /\ Sets(lines, engine, selector, n) /\ Gives(lines, n, dest, value)
        /\ \A m \in n + 1 .. L :
             Sets(lines, engine, selector, m) => Gives(lines, m, dest, value)
  BY <1>1 DEF Settled
<1> DEFINE S == {m \in 1 .. L : Sets(lines, engine, selector, m)}
<1>3. n \in S /\ S \subseteq 1 .. L
  BY <1>2
<1>4. PICK l \in S : \A m \in S : m <= l
  BY <1>3, LargestExists
<1>5. l \in 1 .. L /\ Sets(lines, engine, selector, l) /\ n <= l
  BY <1>3, <1>4
<1>6. Gives(lines, l, dest, value)
  <2>1. l = n \/ l \in n + 1 .. L
    BY <1>5
  <2> QED BY <1>2, <1>5, <2>1
<1>7. \A m \in l + 1 .. L : ~Sets(lines, engine, selector, m)
  <2>1. \A m \in l + 1 .. L : m \in 1 .. L /\ ~(m <= l)
    BY <1>5
  <2> QED BY <1>4, <2>1
<1> QED BY <1>1, <1>5, <1>6, <1>7 DEF EngineHolds, Sets, Gives

\* Writes that do not go on with what another caller's began.
Afresh(stores, engine) ==
  /\ Len(stores) >= 1 => stores[1][1] # engine
  /\ Len(stores) >= 2 /\ stores[1][1] = engine + 8 => stores[2][1] # engine

\* They set what they set alone.
SetAlone(longer, x, y, engine, selector) ==
  /\ \A n \in 1 .. Len(x) :
       Sets(longer, engine, selector, n) =>
         /\ Sets(x, engine, selector, n)
         /\ \A d, v : Gives(longer, n, d, v) <=> Gives(x, n, d, v)
  /\ \A n \in 1 .. Len(x) : Sets(x, engine, selector, n) => Sets(longer, engine, selector, n)
  /\ \A k \in 1 .. Len(y) :
       /\ Sets(longer, engine, selector, Len(x) + k) <=> Sets(y, engine, selector, k)
       /\ Sets(y, engine, selector, k) =>
            \A d, v : Gives(longer, Len(x) + k, d, v) <=> Gives(y, k, d, v)

\* So it is with writes that begin afresh.
LEMMA SetsOfExtended ==
  ASSUME NEW x, NEW y, NEW longer, IsSequence(x), IsSequence(y), Extends(longer, x, y),
         NEW engine, NEW selector, Afresh(y, engine)
  PROVE  SetAlone(longer, x, y, engine, selector)
<1>1. PICK a, b : a = Len(x) /\ b = Len(y)
  OBVIOUS
<1>2. /\ a \in Nat /\ b \in Nat /\ DOMAIN x = 1 .. a /\ DOMAIN y = 1 .. b
      /\ DOMAIN longer = 1 .. (a + b)
      /\ \A n \in 1 .. a : longer[n] = x[n]
      /\ \A k \in 1 .. b : longer[a + k] = y[k]
  BY <1>1, SequenceDomain DEF Extends
<1>3. ASSUME NEW n \in 1 .. a, Sets(longer, engine, selector, n)
      PROVE  n + 2 \in 1 .. a
  <2>1. n + 2 \in 1 .. (a + b)
    BY <1>2, <1>3 DEF Sets
  <2>2. CASE n + 2 = a + 1
    <3>1. 1 \in 1 .. b
      BY <1>2, <2>1, <2>2
    <3>2. longer[n + 2] = y[1] /\ b >= 1
      BY <1>2, <2>2, <3>1
    <3> QED BY <1>1, <1>3, <3>2 DEF Sets, Afresh
  <2>3. CASE n + 2 = a + 2
    <3>1. 1 \in 1 .. b /\ 2 \in 1 .. b
      BY <1>2, <2>1, <2>3
    <3>2. n + 1 = a + 1
      BY <1>2, <2>3
    <3>3. longer[n + 1] = y[1] /\ longer[n + 2] = y[2] /\ b >= 2
      BY <1>2, <2>3, <3>1, <3>2
    <3> QED BY <1>1, <1>3, <3>3 DEF Sets, Afresh
  <2> QED BY <1>2, <2>1, <2>2, <2>3
<1>4. ASSUME NEW n \in 1 .. a, n + 2 \in 1 .. a
      PROVE  /\ Sets(longer, engine, selector, n) <=> Sets(x, engine, selector, n)
             /\ \A d, v : Gives(longer, n, d, v) <=> Gives(x, n, d, v)
  <2>1. n + 1 \in 1 .. a /\ n + 2 \in 1 .. (a + b)
    BY <1>2, <1>4
  <2>2. longer[n] = x[n] /\ longer[n + 1] = x[n + 1] /\ longer[n + 2] = x[n + 2]
    BY <1>2, <1>4, <2>1
  <2> QED BY <1>2, <1>4, <2>1, <2>2 DEF Sets, Gives
<1>5. ASSUME NEW n \in 1 .. a, Sets(x, engine, selector, n) PROVE Sets(longer, engine, selector, n)
  BY <1>2, <1>4, <1>5 DEF Sets
<1>6. ASSUME NEW k \in 1 .. b
      PROVE  /\ Sets(longer, engine, selector, a + k) <=> Sets(y, engine, selector, k)
             /\ Sets(y, engine, selector, k) =>
                  \A d, v : Gives(longer, a + k, d, v) <=> Gives(y, k, d, v)
  <2>1. (a + k) + 1 = a + (k + 1) /\ (a + k) + 2 = a + (k + 2)
        /\ (a + (k + 2) \in 1 .. (a + b) <=> k + 2 \in 1 .. b)
        /\ (k + 2 \in 1 .. b => k + 1 \in 1 .. b)
    BY <1>2
  <2>2. k + 2 \in 1 .. b =>
          longer[a + k] = y[k] /\ longer[a + (k + 1)] = y[k + 1] /\ longer[a + (k + 2)] = y[k + 2]
    BY <1>2, <2>1
  <2> QED BY <1>2, <2>1, <2>2 DEF Sets, Gives
<1> QED BY <1>1, <1>3, <1>4, <1>5, <1>6 DEF SetAlone

\* What is settled stays so through writes that set it to nothing else.
LEMMA SettledKept ==
  ASSUME NEW x, NEW y, NEW longer, IsSequence(x), IsSequence(y), Extends(longer, x, y),
         NEW engine, NEW selector, NEW dest, NEW value, Afresh(y, engine),
         \A k \in 1 .. Len(y) : Sets(y, engine, selector, k) => Gives(y, k, dest, value),
         Settled(x, engine, selector, dest, value)
  PROVE  Settled(longer, engine, selector, dest, value)
<1>1. PICK a, b : a = Len(x) /\ b = Len(y)
  OBVIOUS
<1>2. /\ a \in Nat /\ b \in Nat /\ DOMAIN x = 1 .. a
      /\ DOMAIN longer = 1 .. (a + b) /\ Len(longer) = a + b
  BY <1>1, SequenceDomain DEF Extends
<1>3. /\ \A n \in 1 .. a :
           Sets(longer, engine, selector, n) =>
             Sets(x, engine, selector, n) /\ (Gives(longer, n, dest, value) <=> Gives(x, n, dest, value))
      /\ \A n \in 1 .. a : Sets(x, engine, selector, n) => Sets(longer, engine, selector, n)
      /\ \A k \in 1 .. b :
           Sets(longer, engine, selector, a + k) => Gives(longer, a + k, dest, value)
  <2>1. SetAlone(longer, x, y, engine, selector)
    BY SetsOfExtended
  <2> QED BY <1>1, <2>1 DEF SetAlone
<1>4. PICK n \in 1 .. a :
        /\ Sets(x, engine, selector, n) /\ Gives(x, n, dest, value)
        /\ \A m \in n + 1 .. a : Sets(x, engine, selector, m) => Gives(x, m, dest, value)
  BY <1>1, <1>2 DEF Settled
<1>5. Sets(longer, engine, selector, n) /\ Gives(longer, n, dest, value) /\ n \in DOMAIN longer
  BY <1>2, <1>3, <1>4
<1>6. ASSUME NEW m \in n + 1 .. (a + b), Sets(longer, engine, selector, m)
      PROVE  Gives(longer, m, dest, value)
  <2>1. CASE m \in 1 .. a
    <3>1. m \in n + 1 .. a
      BY <1>2, <2>1
    <3> QED BY <1>3, <1>4, <1>6, <2>1, <3>1
  <2>2. CASE m \notin 1 .. a
    <3>1. m - a \in 1 .. b /\ m = a + (m - a)
      BY <1>2, <2>2
    <3> QED BY <1>3, <1>6, <3>1
  <2> QED BY <2>1, <2>2
<1> QED BY <1>2, <1>5, <1>6 DEF Settled

\* The three writes of a constant set it, and nothing else.
LEMMA ConstantSets ==
  ASSUME NEW engine \in Int, NEW selector, NEW dest, NEW value, NEW y,
         y = ConstantStores(engine, selector, dest, value)
  PROVE  /\ IsSequence(y) /\ Len(y) = 3 /\ Afresh(y, engine)
         /\ Sets(y, engine, selector, 1) /\ Gives(y, 1, dest, value)
         /\ \A other : \A k \in 1 .. 3 : Sets(y, engine, other, k) => k = 1 /\ other = selector
<1> DEFINE p == <<engine + 12, selector>>
           q == <<engine + 8, dest>>
           r == <<engine, value>>
<1>1. y = <<p, q, r>>
  BY DEF ConstantStores
<1>2. /\ p[1] = engine + 12 /\ q[1] = engine + 8 /\ r[1] = engine /\ q[2] = dest /\ r[2] = value
      /\ \A other : p = <<engine + 12, other>> => other = selector
  OBVIOUS
<1>3. p = <<engine + 12, selector>>
  OBVIOUS
<1>4. engine + 12 # engine /\ engine + 12 # engine + 8
  OBVIOUS
<1> HIDE DEF p, q, r
<1>5. y[1] = p /\ y[2] = q /\ y[3] = r /\ Len(y) = 3 /\ DOMAIN y = 1 .. 3 /\ y \in Seq({p, q, r})
  BY <1>1
<1>6. IsSequence(y)
  BY <1>5, SequenceIntro
<1>7. Afresh(y, engine)
  BY <1>2, <1>4, <1>5 DEF Afresh
<1>8. Sets(y, engine, selector, 1) /\ Gives(y, 1, dest, value)
  <2>1. 1 + 1 = 2 /\ 1 + 2 = 3 /\ 3 \in 1 .. 3
    OBVIOUS
  <2> QED BY <1>2, <1>3, <1>5, <2>1 DEF Sets, Gives
<1>9. ASSUME NEW other, NEW k \in 1 .. 3, Sets(y, engine, other, k)
      PROVE  k = 1 /\ other = selector
  <2>1. k + 2 \in 1 .. 3
    BY <1>5, <1>9 DEF Sets
  <2>2. k = 1
    BY <2>1
  <2> QED BY <1>2, <1>5, <1>9, <2>2 DEF Sets
<1> QED BY <1>5, <1>6, <1>7, <1>8, <1>9

\* So with them added it is settled.
LEMMA SettledNow ==
  ASSUME NEW x, NEW y, NEW longer, IsSequence(x), Extends(longer, x, y),
         NEW engine \in Int, NEW selector, NEW dest, NEW value,
         y = ConstantStores(engine, selector, dest, value)
  PROVE  Settled(longer, engine, selector, dest, value)
<1>1. PICK a : a = Len(x)
  OBVIOUS
<1>2. a \in Nat /\ DOMAIN longer = 1 .. (a + 3) /\ Len(longer) = a + 3 /\ IsSequence(y) /\ Len(y) = 3
  <2>1. IsSequence(y) /\ Len(y) = 3
    BY ConstantSets
  <2>2. a \in Nat /\ IsSequence(longer)
    BY <1>1, SequenceDomain DEF Extends
  <2>3. Len(longer) = a + 3
    BY <1>1, <2>1 DEF Extends
  <2> QED BY <2>1, <2>2, <2>3, SequenceDomain
<1>3. \A k \in 1 .. 3 :
        /\ Sets(longer, engine, selector, a + k) <=> Sets(y, engine, selector, k)
        /\ Sets(y, engine, selector, k) => (Gives(longer, a + k, dest, value) <=> Gives(y, k, dest, value))
  <2>1. SetAlone(longer, x, y, engine, selector)
    BY <1>2, ConstantSets, SetsOfExtended
  <2> QED BY <1>1, <1>2, <2>1 DEF SetAlone
<1>4. Sets(y, engine, selector, 1) /\ Gives(y, 1, dest, value)
      /\ \A k \in 1 .. 3 : Sets(y, engine, selector, k) => k = 1
  BY ConstantSets
<1>5. Sets(longer, engine, selector, a + 1) /\ Gives(longer, a + 1, dest, value)
  BY <1>3, <1>4
<1>6. ASSUME NEW m \in (a + 1) + 1 .. a + 3 PROVE ~Sets(longer, engine, selector, m)
  <2>1. m - a \in 1 .. 3 /\ m = a + (m - a) /\ m - a # 1
    BY <1>2
  <2> QED BY <1>3, <1>4, <2>1
<1>7. a + 1 \in 1 .. (a + 3)
  BY <1>2
<1> QED BY <1>2, <1>5, <1>6, <1>7 DEF Settled

\* A program that is loaded leaves the lines of the log as they are.
LEMMA LinesOfLoad ==
  ASSUME IsSequence(operations), NEW address, NEW program, apply_program(address, program)
  PROVE  ControlLines(operations)' = ControlLines(operations)
<1> DEFINE entry == BusOp(<<address>>, program, "rom_plane_write")
           W(x) == {i \in DOMAIN x : x[i].type = "control_plane_write"}
<1>1. PICK ops, all : ops = operations /\ all = operations'
  OBVIOUS
<1>2. all = ops \/ all = Append(ops, entry)
  BY <1>1 DEF apply_program, load_program
<1>3. entry.type # "control_plane_write"
  BY DEF BusOp
<1> HIDE DEF entry
<1>4. CASE all = Append(ops, entry)
  <2>1. PICK L \in Nat : L = Len(ops) /\ DOMAIN ops = 1 .. L
    BY <1>1, SequenceDomain
  <2>2. ops \in Seq(Range(ops) \union {entry})
    BY <1>1 DEF IsSequence
  <2>3. /\ DOMAIN all = 1 .. (L + 1) /\ all[L + 1] = entry
        /\ \A i \in 1 .. L : all[i] = ops[i]
    BY <1>4, <2>1, <2>2
  <2>4. W(all) = W(ops)
    <3>1. ASSUME NEW i PROVE i \in W(all) <=> i \in W(ops)
      <4>1. i \in 1 .. (L + 1) <=> i \in 1 .. L \/ i = L + 1
        BY <2>1
      <4>2. ~(L + 1 \in 1 .. L)
        BY <2>1
      <4> QED BY <1>3, <2>1, <2>3, <4>1, <4>2
    <3> HIDE DEF W
    <3> QED BY <3>1
  <2>5. PICK c : c = Cardinality(W(ops))
    OBVIOUS
  <2>6. \A n \in 1 .. c : all[Nth(W(ops), n)] = ops[Nth(W(ops), n)]
    <3>1. SUFFICES ASSUME NEW n \in 1 .. c PROVE all[Nth(W(ops), n)] = ops[Nth(W(ops), n)]
      OBVIOUS
    <3>2. W(ops) \in SUBSET (1 .. L)
      BY <2>1
    <3> HIDE DEF W
    <3>3. Nth(W(ops), n) \in W(ops)
      BY <2>1, <2>5, <3>2, NthIsPosition
    <3> QED BY <2>3, <3>2, <3>3
  <2>7. ControlLines(all) = ControlLines(ops)
    <3>1. \A x : ControlLines(x) = [n \in 1 .. Cardinality(W(x)) |->
                                      <<x[Nth(W(x), n)].address[1], x[Nth(W(x), n)].data[1]>>]
      BY DEF ControlLines
    <3> HIDE DEF W
    <3>2. ControlLines(all) = [n \in 1 .. c |-> <<all[Nth(W(ops), n)].address[1], all[Nth(W(ops), n)].data[1]>>]
      BY <2>4, <2>5, <3>1
    <3>3. ControlLines(ops) = [n \in 1 .. c |-> <<ops[Nth(W(ops), n)].address[1], ops[Nth(W(ops), n)].data[1]>>]
      BY <2>5, <3>1
    <3> QED BY <2>6, <3>2, <3>3
  <2>8. ControlLines(operations)' = ControlLines(all)
    BY <1>1 DEF ControlLines
  <2> QED BY <1>1, <2>7, <2>8
<1>5. CASE all = ops
  BY <1>1, <1>5 DEF ControlLines
<1> QED BY <1>2, <1>4, <1>5

\* Writes are appended to them, in order.
LEMMA LinesOfWrites ==
  ASSUME IsSequence(operations), NEW stores, AreStores(stores), write_direct_all(stores), fpga_loaded
  PROVE  /\ IsSequence(ControlLines(operations)) /\ IsSequence(stores)
         /\ Extends(ControlLines(operations)', ControlLines(operations), stores)
<1> DEFINE entry(i) == BusOp(<<stores[i][1]>>, <<stores[i][2]>>, "control_plane_write")
           entries == [i \in DOMAIN stores |-> entry(i)]
<1>1. operations' = operations \o entries
  BY DEF write_direct_all, write_registers
<1>2. PICK N \in Nat : N = Len(stores) /\ DOMAIN stores = 1 .. N
  BY SequenceDomain DEF AreStores
<1>3. \A i : /\ entry(i).type = "control_plane_write"
             /\ <<entry(i).address[1], entry(i).data[1]>> = <<stores[i][1], stores[i][2]>>
  BY DEF BusOp
<1>4. \A i \in 1 .. N : <<stores[i][1], stores[i][2]>> = stores[i]
  BY <1>2 DEF AreStores, Range
<1> HIDE DEF entry
<1>5. entries = [i \in 1 .. N |-> entry(i)]
  BY <1>2
<1>6. Len(entries) = N /\ \A i \in 1 .. N : entries[i] = entry(i)
  <2>1. \A m \in Nat : Len([i \in 1 .. m |-> entry(i)]) = m
    OBVIOUS
  <2> QED BY <1>5, <2>1
<1>7. IsSequence(entries)
  <2>1. [i \in 1 .. N |-> entry(i)] \in Seq({entry(i) : i \in 1 .. N})
    OBVIOUS
  <2> QED BY <1>5, <2>1, SequenceIntro
<1> HIDE DEF entries
<1>8. PICK ops : ops = operations
  OBVIOUS
<1>9. Len(stores) = Len(entries)
  BY <1>2, <1>6
<1>10. \A k \in 1 .. Len(entries) :
         /\ entries[k].type = "control_plane_write"
         /\ <<entries[k].address[1], entries[k].data[1]>> = stores[k]
  BY <1>3, <1>4, <1>6
<1>11. IsSequence(ControlLines(ops)) /\ Extends(ControlLines(ops \o entries), ControlLines(ops), stores)
  BY <1>7, <1>8, <1>9, <1>10, LinesOfConcat
<1>12. ControlLines(operations)' = ControlLines(ops \o entries)
  BY <1>1, <1>8 DEF ControlLines
<1> QED BY <1>8, <1>11, <1>12 DEF AreStores

\* The call that sets a constant, and that it is what its selector is set to.
ConstantOf(s, u) ==
  WriteAll(ConstantStores(1 + Bases.cores_inputs, CustomSelector(u[2], u[3]), UseDest(s, u),
                          InputValue(UsedInput(s, u), u[3])))
ConstantSettled(s, u) ==
  Settled(ControlLines(operations), 1 + Bases.cores_inputs, CustomSelector(u[2], u[3]),
          UseDest(s, u), InputValue(UsedInput(s, u), u[3]))

\* What it takes for the one engine to hold the constants of one core: the selectors
\* have room for its inputs, and every constant has a value.
OneCore(s) == Cardinality({u[1] : u \in CustomConstants(s)}) = 1
ConstantsApart(s) ==
  /\ CustomApart(s) /\ Bases.cores_inputs \in Int
  /\ \A i \in DOMAIN ProgramSeq(s) :
       /\ Len(InputsAt(s, i)) <= BusShift
       /\ \A in \in Range(InputsAt(s, i)) : IsConstant(in) => in.data # <<>>

\* The call for a constant is one of those made.
LEMMA ConstantIsCalled ==
  ASSUME NEW s \in CustomSpecs, NEW u \in CustomConstants(s)
  PROVE  ConstantOf(s, u) \in Range(CustomCalls(s))
<1> DEFINE i == u[1]
           x == u[2]
           in == InputsAt(s, i)[x]
<1>1. u \in CustomUses(s) /\ IsConstant(UsedInput(s, u))
  BY DEF CustomConstants
<1>2. /\ i \in DOMAIN ProgramSeq(s) /\ x \in DOMAIN InputsAt(s, i)
      /\ u[3] \in 0 .. ChannelsAt(s, i, x) - 1
  BY <1>1, CustomUse
<1>3. in = UsedInput(s, u) /\ IsConstant(in) /\ in.source_type # "random"
  BY <1>1 DEF UsedInput, IsConstant
<1>4. CustomInputBase(in) = 1 + Bases.cores_inputs
  BY <1>3, InputBases
<1>5. InputCall(s, i, x, u[3]) = <<ConstantOf(s, u)>>
  <2> DEFINE constant == WriteAll(ConstantStores(CustomInputBase(in), CustomSelector(x, u[3]),
                                                 InputDest(in, u[3]), InputValue(in, u[3])))
             random == Call("random", CustomInputBase(in), InputDest(in, u[3]))
             wave == IF in.shape = "square"
                       THEN Call("waveform", CustomInputBase(in), <<in.wave, InputDest(in, u[3])>>)
                       ELSE ThrowCall
  <2>1. InputCall(s, i, x, u[3]) =
          CASE IsConstant(in) -> <<constant>>
            [] in.source_type = "random" -> <<random>>
            [] in.source_type = "waveform" -> <<wave>>
            [] OTHER -> <<>>
    BY DEF InputCall
  <2>2. in.source_type \notin {"random", "waveform"}
    BY <1>3 DEF IsConstant
  <2>3. constant = ConstantOf(s, u)
    BY <1>3, <1>4 DEF ConstantOf, UseDest
  <2> HIDE DEF constant, random, wave, in
  <2> QED BY <1>3, <2>1, <2>2, <2>3
<1> HIDE DEF in
<1>6. ConstantOf(s, u) \in Range(InputCall(s, i, x, u[3]))
  <2>1. PICK c : c = ConstantOf(s, u)
    OBVIOUS
  <2> QED BY <1>5, <2>1, OneElement
<1>7. CalledFor(s, i, ConstantOf(s, u))
  BY <1>2, <1>6 DEF CalledFor, IsInputCall
<1> QED BY <1>2, <1>7, CustomCallsAre

\* The inputs of a core are a sequence, and so are the values of each.
LEMMA InputsAre ==
  ASSUME NEW s \in CustomSpecs, NEW i \in DOMAIN ProgramSeq(s)
  PROVE  IsSequence(InputsAt(s, i)) /\ \A in \in Range(InputsAt(s, i)) : IsSequence(in.data)
<1>1. ProgramSeq(s)[i] \in Range(SpecData[s].programs)
  BY DEF ProgramSeq, Range
<1> QED BY <1>1, CustomSpecAssumption DEF InputsAt

\* Of the calls for an input those that write are of its constants.
LEMMA InputCallWrites ==
  ASSUME NEW s \in CustomSpecs, NEW i \in DOMAIN ProgramSeq(s), NEW c, IsInputCall(s, i, c),
         c.function = "write",
         \A in \in Range(InputsAt(s, i)) : IsConstant(in) => in.data # <<>>
  PROVE  \E u \in CustomConstants(s) : c = ConstantOf(s, u)
<1>1. PICK x \in DOMAIN InputsAt(s, i) : \E ch \in 0 .. ChannelsAt(s, i, x) - 1 :
        c \in Range(InputCall(s, i, x, ch))
  BY DEF IsInputCall
<1>2. PICK ch \in 0 .. ChannelsAt(s, i, x) - 1 : c \in Range(InputCall(s, i, x, ch))
  BY <1>1
<1> DEFINE in == InputsAt(s, i)[x]
           base == CustomInputBase(in)
           dest == InputDest(in, ch)
           constant == WriteAll(ConstantStores(base, CustomSelector(x, ch), dest, InputValue(in, ch)))
           random == Call("random", base, dest)
           wave == IF in.shape = "square" THEN Call("waveform", base, <<in.wave, dest>>) ELSE ThrowCall
           u == <<i, x, ch>>
<1>3. InputCall(s, i, x, ch) =
        CASE IsConstant(in) -> <<constant>>
          [] in.source_type = "random" -> <<random>>
          [] in.source_type = "waveform" -> <<wave>>
          [] OTHER -> <<>>
  BY DEF InputCall
<1>4. random.function # "write" /\ wave.function # "write"
  BY CallFields
<1>5. ~IsConstant(in) \/ in.source_type \notin {"random", "waveform"}
  BY DEF IsConstant
<1>6. in \in Range(InputsAt(s, i))
  BY DEF Range
<1>7. /\ u[1] = i /\ u[2] = x /\ u[3] = ch /\ UsedInput(s, u) = in
      /\ UseDest(s, u) = dest
  BY DEF UsedInput, UseDest
<1> HIDE DEF in, base, dest, random, wave, u
<1>8. ~ c \in Range(<<>>)
  BY DEF Range
<1>9. IsConstant(in)
  <2>1. CASE ~IsConstant(in) /\ in.source_type = "random"
    <3>1. InputCall(s, i, x, ch) = <<random>>
      BY <1>3, <2>1
    <3> QED BY <1>2, <1>4, <3>1, OneElement
  <2>2. CASE ~IsConstant(in) /\ in.source_type = "waveform"
    <3>1. InputCall(s, i, x, ch) = <<wave>>
      BY <1>3, <2>2
    <3> QED BY <1>2, <1>4, <3>1, OneElement
  <2>3. CASE ~IsConstant(in) /\ in.source_type \notin {"random", "waveform"}
    <3>1. InputCall(s, i, x, ch) = <<>>
      BY <1>3, <2>3
    <3> QED BY <1>2, <1>8, <3>1
  <2> QED BY <2>1, <2>2, <2>3
<1>10. c = constant
  <2>1. InputCall(s, i, x, ch) = <<constant>>
    BY <1>3, <1>5, <1>9
  <2> HIDE DEF constant
  <2> QED BY <1>2, <2>1, OneElement
<1>11. base = 1 + Bases.cores_inputs
  BY <1>5, <1>9, InputBases DEF base
<1>12. c = ConstantOf(s, u)
  BY <1>7, <1>10, <1>11 DEF ConstantOf
<1>13. u \in CustomUses(s)
  <2> DEFINE Channels(j, y) == {d \in 0 .. Len(InputsAt(s, j)[y].data) - 1 :
                                  d = 0 \/ (ProgramSeq(s)[j].n_channels > 1
                                            /\ 2 * d < Len(InputsAt(s, j)[y].data))}
  <2>1. CustomUses(s) = UNION {UNION {{<<j, y, d>> : d \in Channels(j, y)} : y \in DOMAIN InputsAt(s, j)}
                                 : j \in DOMAIN ProgramSeq(s)}
    BY DEF CustomUses
  <2>2. PICK l, n : l = Len(in.data) /\ n = ProgramSeq(s)[i].n_channels
    OBVIOUS
  <2>3. l \in Nat /\ n \in Nat /\ l # 0
    <3>1. IsSequence(in.data) /\ in.data # <<>>
      BY <1>6, <1>9, InputsAre
    <3>2. in.data \in Seq(Range(in.data))
      BY <3>1 DEF IsSequence
    <3>3. Len(in.data) \in Nat /\ Len(in.data) # 0
      BY <3>1, <3>2
    <3> QED BY <2>2, <3>3, CustomSequences
  <2>4. ch \in 0 .. (IF n > 1 /\ l > 1 THEN (l + 1) \div 2 ELSE 1) - 1
    <3>1. ChannelsAt(s, i, x) = IF n > 1 /\ l > 1 THEN (l + 1) \div 2 ELSE 1
      BY <2>2 DEF ChannelsAt, CustomChannels, in
    <3> QED BY <1>2, <3>1
  <2>5. ch \in 0 .. l - 1 /\ (ch = 0 \/ (n > 1 /\ 2 * ch < l))
    <3>1. CASE n > 1 /\ l > 1
      <4>1. ch \in 0 .. ((l + 1) \div 2) - 1
        BY <2>4, <3>1
      <4> QED BY <2>3, <3>1, <4>1
    <3>2. CASE ~(n > 1 /\ l > 1)
      <4>1. ch \in 0 .. 1 - 1
        BY <2>4, <3>2
      <4> QED BY <2>3, <4>1
    <3> QED BY <3>1, <3>2
  <2>6. ch \in Channels(i, x)
    BY <2>2, <2>5 DEF in
  <2> HIDE DEF Channels
  <2> QED BY <2>1, <2>6 DEF u
<1>14. u \in CustomConstants(s)
  BY <1>7, <1>9, <1>13 DEF CustomConstants
<1> QED BY <1>12, <1>14

\* So whatever writes, writes what is expected or a constant.
LEMMA WritingCalls ==
  ASSUME CustomAddressesFit, NEW s \in CustomSpecs, NEW c \in Range(CustomCalls(s)),
         c.function = "write", ConstantsApart(s)
  PROVE  PlainKind(s, c) \/ \E u \in CustomConstants(s) : c = ConstantOf(s, u)
<1>1. PICK i \in DOMAIN ProgramSeq(s) : CalledFor(s, i, c)
  BY CustomCallsAre
<1>2. c # LoadCallOf(s, i)
  BY CallFields DEF LoadCallOf
<1>3. CASE IsInputCall(s, i, c)
  BY <1>3, InputCallWrites DEF ConstantsApart
<1>4. CASE IsDmaCall(s, i, c) \/ IsMemoryCall(s, i, c) \/ c = CoreCallOf(s, i)
  BY <1>4, PlainCalls
<1> QED BY <1>1, <1>2, <1>3, <1>4 DEF CalledFor

\* With one core, a selector is that of one constant.
LEMMA SelectorsDiffer ==
  ASSUME NEW s \in CustomSpecs, ConstantsApart(s), OneCore(s),
         NEW u \in CustomConstants(s), NEW v \in CustomConstants(s),
         CustomSelector(u[2], u[3]) = CustomSelector(v[2], v[3])
  PROVE  u = v
<1>1. u[1] = v[1]
  <2> DEFINE cores == {w[1] : w \in CustomConstants(s)}
  <2>1. PICK N \in Nat : DOMAIN ProgramSeq(s) = 1 .. N
    BY CustomSequences
  <2>2. cores \subseteq 1 .. N
    BY <2>1, CustomUse DEF CustomConstants
  <2>3. IsFiniteSet(cores)
    <3>1. IsFiniteSet(1 .. N)
      BY FS_Interval
    <3> HIDE DEF cores
    <3> QED BY <2>2, <3>1, FS_Subset
  <2>4. u[1] \in cores /\ v[1] \in cores
    OBVIOUS
  <2>5. Cardinality(cores) = 1
    BY DEF OneCore
  <2> HIDE DEF cores
  <2>6. \E x : cores = {x}
    BY <2>3, <2>5, FS_Singleton
  <2> QED BY <2>4, <2>6
<1>2. PICK i : i = u[1] /\ i = v[1]
  BY <1>1
<1>3. /\ i \in DOMAIN ProgramSeq(s) /\ u[2] \in DOMAIN InputsAt(s, i) /\ v[2] \in DOMAIN InputsAt(s, i)
      /\ u[3] \in 0 .. ChannelsAt(s, i, u[2]) - 1 /\ v[3] \in 0 .. ChannelsAt(s, i, v[2]) - 1
  BY <1>2, CustomUse DEF CustomConstants
<1>4. u[3] \in Nat /\ v[3] \in Nat
  <2>1. ChannelsAt(s, i, u[2]) \in Nat /\ ChannelsAt(s, i, v[2]) \in Nat
    BY <1>3, ChannelsType
  <2> QED BY <1>3, <2>1
<1>5. PICK L \in Nat : DOMAIN InputsAt(s, i) = 1 .. L /\ L <= BusShift
  <2>1. IsSequence(InputsAt(s, i))
    BY <1>3, InputsAre
  <2> QED BY <1>3, <2>1, SequenceDomain DEF ConstantsApart
<1>6. BusShift \in Nat \ {0}
  BY HilAssumption
<1>7. PICK x, y, c, d : x = u[2] - 1 /\ y = v[2] - 1 /\ c = u[3] /\ d = v[3]
  OBVIOUS
<1>8. /\ x \in Nat /\ y \in Nat /\ c \in Nat /\ d \in Nat /\ x < BusShift /\ y < BusShift
      /\ u[2] = x + 1 /\ v[2] = y + 1
  <2>1. u[2] \in 1 .. L /\ v[2] \in 1 .. L
    BY <1>3, <1>5
  <2>2. PICK p, q \in 1 .. L : p = u[2] /\ q = v[2]
    BY <2>1
  <2>3. x = p - 1 /\ y = q - 1
    BY <1>7, <2>2
  <2>4. L <= BusShift
    BY <1>5
  <2>5. x \in Nat /\ y \in Nat /\ x < BusShift /\ y < BusShift /\ p = x + 1 /\ q = y + 1
    BY <1>6, <2>2, <2>3, <2>4
  <2>6. c \in Nat /\ d \in Nat
    BY <1>4, <1>7
  <2> QED BY <2>2, <2>5, <2>6
<1>9. x + BusShift * c = y + BusShift * d
  BY <1>7 DEF CustomSelector
<1>10. c = (x + BusShift * c) \div BusShift /\ d = (y + BusShift * d) \div BusShift
  BY <1>6, <1>8, FitsDiv
<1>11. c = d
  BY <1>9, <1>10
<1>12. x = y
  <2>1. BusShift * c \in Int
    BY <1>6, <1>8
  <2> QED BY <1>8, <1>9, <1>11, <2>1
<1>13. u[2] = v[2] /\ u[3] = v[3]
  BY <1>7, <1>8, <1>11, <1>12
<1>14. u = <<u[1], u[2], u[3]>> /\ v = <<v[1], v[2], v[3]>>
  <2>1. \A w \in CustomUses(s) : w = <<w[1], w[2], w[3]>>
    <3>1. \A w \in CustomUses(s) : \E i1, x1, c1 : w = <<i1, x1, c1>>
      BY DEF CustomUses
    <3> QED BY <3>1
  <2> QED BY <2>1 DEF CustomConstants
<1> QED BY <1>1, <1>13, <1>14

\* Writes that set no constant, nor begin or end the setting of one.
Quiet(stores, engine) ==
  /\ IsSequence(stores) /\ Afresh(stores, engine)
  /\ \A selector : \A k \in 1 .. Len(stores) : ~Sets(stores, engine, selector, k)

\* Such are those to other registers,
LEMMA QuietElsewhere ==
  ASSUME NEW stores, AreStores(stores), NEW engine, \A x \in Range(stores) : x[1] # engine
  PROVE  Quiet(stores, engine)
<1>1. PICK L \in Nat : L = Len(stores) /\ DOMAIN stores = 1 .. L
  BY SequenceDomain DEF AreStores
<1>2. \A k \in 1 .. L : stores[k][1] # engine
  BY <1>1 DEF Range
<1>3. L >= 1 => 1 \in 1 .. L
  BY <1>1
<1>4. Afresh(stores, engine)
  <2>1. L >= 2 => 2 \in 1 .. L
    BY <1>1
  <2> QED BY <1>1, <1>2, <1>3, <2>1 DEF Afresh
<1>5. ASSUME NEW selector, NEW k \in 1 .. L PROVE ~Sets(stores, engine, selector, k)
  BY <1>1, <1>2 DEF Sets
<1> QED BY <1>1, <1>4, <1>5 DEF Quiet, AreStores

\* and a waveform's, whose base is the engine's: it writes the base last.
LEMMA WaveQuiet ==
  ASSUME NEW engine \in Int, NEW active, NEW wave, NEW dest
  PROVE  Quiet(WaveStores(engine, active, wave, dest), engine)
<1> DEFINE w == wave[(dest \div BusShift) + 1]
           a == <<engine + 8, active>>
           b == <<engine + 12, w.v_on>>
           c == <<engine + 16, w.v_off>>
           d == <<engine + 20, w.t_delay>>
           e == <<engine + 24, w.t_on>>
           f == <<engine + 28, w.period>>
           g == <<engine + 32, dest>>
           h == <<engine + 4, 0>>
           i == <<engine + 36, get_metadata_value(32, TRUE, TRUE)>>
           j == <<engine, active + 1>>
           stores == <<a, b, c, d, e, f, g, h, i, j>>
<1>1. WaveStores(engine, active, wave, dest) = stores
  BY DEF WaveStores
<1>2. \A x, y : <<x, y>>[1] = x
  OBVIOUS
<1>3. /\ a[1] = engine + 8 /\ b[1] = engine + 12 /\ c[1] = engine + 16 /\ d[1] = engine + 20
      /\ e[1] = engine + 24 /\ f[1] = engine + 28 /\ g[1] = engine + 32 /\ h[1] = engine + 4
      /\ i[1] = engine + 36
  BY <1>2
<1>4. \A m \in {4, 8, 12, 16, 20, 24, 28, 32, 36} : engine + m # engine
  OBVIOUS
<1>5. engine + 4 # engine + 12
  OBVIOUS
<1> HIDE DEF a, b, c, d, e, f, g, h, i, j
<1>6. /\ Len(stores) = 10 /\ DOMAIN stores = 1 .. 10
      /\ stores[1] = a /\ stores[2] = b /\ stores[3] = c /\ stores[4] = d /\ stores[5] = e
      /\ stores[6] = f /\ stores[7] = g /\ stores[8] = h /\ stores[9] = i
      /\ stores \in Seq({a, b, c, d, e, f, g, h, i, j})
  OBVIOUS
<1> HIDE DEF stores
<1>7. \A k \in 1 .. 9 : stores[k][1] # engine
  <2>1. \A k \in 1 .. 9 : k \in {1, 2, 3, 4, 5, 6, 7, 8, 9}
    OBVIOUS
  <2>2. /\ stores[1][1] # engine /\ stores[2][1] # engine /\ stores[3][1] # engine
        /\ stores[4][1] # engine /\ stores[5][1] # engine /\ stores[6][1] # engine
        /\ stores[7][1] # engine /\ stores[8][1] # engine /\ stores[9][1] # engine
    BY <1>3, <1>4, <1>6
  <2> QED BY <2>1, <2>2
<1>8. Afresh(stores, engine)
  <2>1. 1 \in 1 .. 9 /\ 2 \in 1 .. 9
    OBVIOUS
  <2> QED BY <1>7, <2>1 DEF Afresh
<1>9. ASSUME NEW selector, NEW k \in 1 .. 10 PROVE ~Sets(stores, engine, selector, k)
  <2>1. SUFFICES ASSUME Sets(stores, engine, selector, k) PROVE FALSE
    OBVIOUS
  <2>2. k + 2 \in 1 .. 10 /\ stores[k + 2][1] = engine /\ stores[k] = <<engine + 12, selector>>
    BY <1>6, <2>1 DEF Sets
  <2>3. k + 2 \notin 1 .. 9
    BY <1>7, <2>2
  <2>4. k = 8
    BY <2>2, <2>3
  <2>5. stores[8][1] = engine + 12
    BY <1>2, <2>2, <2>4
  <2> QED BY <1>3, <1>5, <1>6, <2>5
<1>10. IsSequence(stores)
  BY <1>6, SequenceIntro
<1>11. Quiet(stores, engine)
  BY <1>6, <1>8, <1>9, <1>10 DEF Quiet
<1> QED BY <1>1, <1>11

\* What a call adds to the lines of the log: nothing, nothing that concerns the
\* engine, or a constant.
Added(s, c, lines, longer) ==
  \/ /\ \A u \in CustomConstants(s) : c # ConstantOf(s, u)
     /\ \/ longer = lines
        \/ \E stores : Quiet(stores, 1 + Bases.cores_inputs) /\ Extends(longer, lines, stores)
  \/ \E u \in CustomConstants(s) : c = ConstantOf(s, u) /\ Extends(longer, lines, c.data)
CallAdds(s, c) ==
  /\ IsSequence(ControlLines(operations))
  /\ Added(s, c, ControlLines(operations), ControlLines(operations)')

\* A constant's call is for a constant only.
LEMMA ConstantIsWrite ==
  ASSUME NEW s, NEW u
  PROVE  /\ ConstantOf(s, u).function = "write"
         /\ ConstantOf(s, u).data =
              ConstantStores(1 + Bases.cores_inputs, CustomSelector(u[2], u[3]), UseDest(s, u),
                             InputValue(UsedInput(s, u), u[3]))
BY CallFields DEF ConstantOf

\* Every call that does not end the deployment.
LEMMA CallLines ==
  ASSUME CustomAddressesFit, NEW s \in CustomSpecs, NEW c \in Range(CustomCalls(s)), CustomCall(c),
         c.function # "throw", fpga_loaded, IsSequence(operations), custom_random_inputs \in Nat,
         ConstantsApart(s), NEW n \in Nat, n = custom_random_inputs', ApartWith(s, n),
         IsSequence(ControlLines(operations))
  PROVE  CallAdds(s, c)
<1> DEFINE next == [pc EXCEPT !.j = @ + 1]
           engine == 1 + Bases.cores_inputs
<1>1. KindOf(s, c)
  <2>1. PICK i \in DOMAIN ProgramSeq(s) : CalledFor(s, i, c)
    BY CustomCallsAre
  <2> QED BY <2>1, CallKinds
<1>2. engine \in Int /\ engine \in EngineAddresses
  BY DEF ConstantsApart, EngineAddresses
<1>3. ASSUME NEW stores, AreStores(stores), write_direct_all(stores)
      PROVE  Extends(ControlLines(operations)', ControlLines(operations), stores)
  BY <1>3, LinesOfWrites
<1>9. c.function # "write" => \A u \in CustomConstants(s) : c # ConstantOf(s, u)
  BY ConstantIsWrite
<1>4. ASSUME NEW stores, AreStores(stores), write_direct_all(stores),
             \A x \in Range(stores) : x[1] # engine,
             \A u \in CustomConstants(s) : c # ConstantOf(s, u)
      PROVE  CallAdds(s, c)
  <2>1. Quiet(stores, engine)
    BY <1>4, QuietElsewhere
  <2>2. Extends(ControlLines(operations)', ControlLines(operations), stores)
    BY <1>3, <1>4
  <2> QED BY <1>4, <2>1, <2>2 DEF CallAdds, Added
<1>5. CASE c.function = "load_core"
  <2>1. apply_program(c.address, c.data)
    BY <1>5, Zenon DEF CustomCall, LoadThen
  <2>2. ControlLines(operations)' = ControlLines(operations)
    BY <2>1, LinesOfLoad
  <2> QED BY <1>5, <1>9, <2>2 DEF CallAdds, Added
<1>6. CASE c.function = "write"
  <2>1. write_direct_all(c.data)
    BY <1>6, Zenon DEF CustomCall, WriteThen
  <2>2. AreStores(c.data)
    BY <1>1, <1>6 DEF KindOf
  <2>3. CASE PlainKind(s, c) /\ ~ \E u \in CustomConstants(s) : c = ConstantOf(s, u)
    <3>1. \A x \in Range(c.data) : x \in CustomExpected(s)
      BY <1>6, <2>3 DEF PlainKind
    <3>2. \A x \in CustomExpected(s) : ~InEngine(x[1])
      BY DEF ApartWith
    <3>3. InEngine(engine)
      BY <1>2 DEF InEngine
    <3>4. \A x \in Range(c.data) : x[1] # engine
      BY <3>1, <3>2, <3>3
    <3> QED BY <1>4, <2>1, <2>2, <2>3, <3>4
  <2>4. CASE \E u \in CustomConstants(s) : c = ConstantOf(s, u)
    <3>1. Extends(ControlLines(operations)', ControlLines(operations), c.data)
      BY <1>3, <2>1, <2>2
    <3> QED BY <2>4, <3>1 DEF CallAdds, Added
  <2> QED BY <1>6, <2>3, <2>4, WritingCalls
<1>7. CASE c.function = "random"
  <2> DEFINE address == (1 + Bases.noise_generator) + 4 * n
  <2>1. c.address = 1 + Bases.noise_generator
    BY <1>1, <1>7 DEF KindOf
  <2>2. /\ write_direct_all(<<<<NoiseSlot(c.address), c.data>>>>)
        /\ custom_random_inputs' = custom_random_inputs + 1
    BY <1>7, Zenon DEF CustomCall, WriteThen, Counted
  <2>3. n = custom_random_inputs + 1 /\ n \in 1 .. n
    BY <2>2
  <2>4. NoiseSlot(c.address) = address
    BY <2>1, <2>3 DEF NoiseSlot
  <2>5. register_address_to_index(address) = NoiseRegister(n) /\ ~SlotInEngine(n)
    BY <2>3, NoiseRegisters DEF ApartWith
  <2> HIDE DEF address
  <2>6. address # engine
    BY <1>2, <2>5 DEF SlotInEngine
  <2>7. PICK x : x = <<address, c.data>>
    OBVIOUS
  <2>8. x[1] = address /\ write_direct_all(<<x>>)
    BY <2>2, <2>4, <2>7
  <2>9. AreStores(<<x>>) /\ Range(<<x>>) = {x}
    BY <2>7, OneStore
  <2>10. PICK stores : stores = <<x>>
    OBVIOUS
  <2> QED BY <1>4, <1>7, <1>9, <2>6, <2>8, <2>9, <2>10
<1>8. CASE c.function = "waveform"
  <2>1. c.address = engine
    BY <1>1, <1>8 DEF KindOf
  <2>2. write_direct_all(WaveStores(c.address, custom_waveforms, c.data[1], c.data[2]))
    BY <1>8, Zenon DEF CustomCall, WriteThen
  <2>3. PICK stores : stores = WaveStores(engine, custom_waveforms, c.data[1], c.data[2])
    OBVIOUS
  <2>4. write_direct_all(stores)
    BY <2>1, <2>2, <2>3
  <2>5. AreStores(stores)
    BY <2>3, WaveCallStores
  <2>6. Quiet(stores, engine)
    BY <1>2, <2>3, WaveQuiet
  <2>7. Extends(ControlLines(operations)', ControlLines(operations), stores)
    BY <1>3, <2>4, <2>5
  <2> QED BY <1>8, <1>9, <2>6, <2>7 DEF CallAdds, Added
<1> QED BY <1>1, <1>5, <1>6, <1>7, <1>8 DEF KindOf

\* A call that does not end the deployment keeps the constants that are settled and
\* settles its own.
LEMMA CallSettles ==
  ASSUME NEW s \in CustomSpecs, NEW c, CallAdds(s, c), ConstantsApart(s), OneCore(s), UNCHANGED addresses,
         NEW u \in CustomConstants(s), ConstantSettled(s, u) \/ c = ConstantOf(s, u)
  PROVE  ConstantSettled(s, u)'
<1> DEFINE engine == 1 + Bases.cores_inputs
           selector == CustomSelector(u[2], u[3])
           dest == UseDest(s, u)
           value == InputValue(UsedInput(s, u), u[3])
<1>1. PICK x, longer : x = ControlLines(operations) /\ longer = ControlLines(operations)'
  OBVIOUS
<1>2. IsSequence(x) /\ Added(s, c, x, longer) /\ engine \in Int
  BY <1>1 DEF CallAdds, ConstantsApart
<1>3. Bases' = Bases
  BY SameMap
<1>4. ConstantSettled(s, u)' <=> Settled(longer, engine, selector, dest, value)
  BY <1>1, <1>3 DEF ConstantSettled
<1>5. ConstantSettled(s, u) <=> Settled(x, engine, selector, dest, value)
  BY <1>1 DEF ConstantSettled
<1>6. CASE \A v \in CustomConstants(s) : c # ConstantOf(s, v)
  <2>1. ConstantSettled(s, u)
    BY <1>6
  <2>2. CASE longer = x
    BY <1>4, <1>5, <2>1, <2>2
  <2>3. ASSUME NEW stores, Quiet(stores, engine), Extends(longer, x, stores)
        PROVE  ConstantSettled(s, u)'
    <3>1. /\ IsSequence(stores) /\ Afresh(stores, engine)
          /\ \A k \in 1 .. Len(stores) :
               Sets(stores, engine, selector, k) => Gives(stores, k, dest, value)
      BY <2>3 DEF Quiet
    <3>2. Settled(x, engine, selector, dest, value)
      BY <1>5, <2>1
    <3> HIDE DEF engine, selector, dest, value
    <3>3. Settled(longer, engine, selector, dest, value)
      BY <1>2, <2>3, <3>1, <3>2, SettledKept
    <3> QED BY <1>4, <3>3
  <2> QED BY <1>2, <1>6, <2>2, <2>3 DEF Added
<1>7. ASSUME NEW v \in CustomConstants(s), c = ConstantOf(s, v), Extends(longer, x, c.data)
      PROVE  ConstantSettled(s, u)'
  <2>1. PICK other, stores : other = CustomSelector(v[2], v[3]) /\ stores = c.data
    OBVIOUS
  <2>2. stores = ConstantStores(engine, other, UseDest(s, v), InputValue(UsedInput(s, v), v[3]))
    BY <1>7, <2>1, ConstantIsWrite
  <2>3. CASE u = v
    <3>1. stores = ConstantStores(engine, selector, dest, value) /\ Extends(longer, x, stores)
      BY <1>7, <2>1, <2>2, <2>3
    <3> HIDE DEF engine, selector, dest, value
    <3>2. Settled(longer, engine, selector, dest, value)
      BY <1>2, <3>1, SettledNow
    <3> QED BY <1>4, <3>2
  <2>4. CASE u # v
    <3>1. selector # other
      BY <2>1, <2>4, SelectorsDiffer
    <3>2. ConstantSettled(s, u)
      <4>1. ASSUME c = ConstantOf(s, u) PROVE FALSE
        <5>1. stores = ConstantStores(engine, selector, dest, value)
          BY <2>1, <4>1, ConstantIsWrite
        <5>2. \A p, q, r, p2, q2, r2 :
                ConstantStores(engine, p, q, r) = ConstantStores(engine, p2, q2, r2) => p = p2
          <6> HIDE DEF engine
          <6> QED BY DEF ConstantStores
        <5> QED BY <2>2, <3>1, <5>1, <5>2
      <4> QED BY <4>1
    <3>3. Settled(x, engine, selector, dest, value) /\ Extends(longer, x, stores)
      BY <1>5, <1>7, <2>1, <3>2
    <3> HIDE DEF engine, selector, dest, value
    <3>4. /\ IsSequence(stores) /\ Len(stores) = 3 /\ Afresh(stores, engine)
          /\ \A k \in 1 .. 3 : ~Sets(stores, engine, selector, k)
      BY <1>2, <2>2, <3>1, ConstantSets
    <3>5. Settled(longer, engine, selector, dest, value)
      BY <1>2, <3>3, <3>4, SettledKept
    <3> QED BY <1>4, <3>5
  <2> QED BY <2>3, <2>4
<1> QED BY <1>2, <1>6, <1>7 DEF Added

\* What a completed custom deployment has left in the log, and one that runs so far:
\* the constants whose calls have been made are settled.
Settling ==
  \A m \in DOMAIN CustomCalls(pc.spec) : m < pc.j =>
    \A u \in CustomConstants(pc.spec) :
      CustomCalls(pc.spec)[m] = ConstantOf(pc.spec, u) => ConstantSettled(pc.spec, u)
AllSettled(s) == \A u \in CustomConstants(s) : ConstantSettled(s, u)

ConstantsReached ==
  /\ reply.kind = "deployed_custom" =>
       (fpga_loaded /\ ConstantsApart(reply.spec) /\ OneCore(reply.spec) => AllSettled(reply.spec))
  /\ RunningCustom =>
       (fpga_loaded /\ ConstantsApart(pc.spec) /\ OneCore(pc.spec) => Settling)

CoresConstants == CoresReached /\ CoresLog /\ ConstantsReached

\* The lines of a log are a sequence.
LEMMA LinesAreSequence ==
  ASSUME NEW ops, IsSequence(ops)
  PROVE  IsSequence(ControlLines(ops))
<1>1. IsSequence(<<>>) /\ Len(<<>>) = 0
  <2>1. <<>> \in Seq({})
    OBVIOUS
  <2> QED BY <2>1, SequenceIntro
<1>2. PICK none : none = <<>>
  OBVIOUS
<1>3. /\ IsSequence(none) /\ Len(none) = Len(none)
      /\ \A k \in 1 .. Len(none) :
           /\ none[k].type = "control_plane_write"
           /\ <<none[k].address[1], none[k].data[1]>> = none[k]
  BY <1>1, <1>2
<1> QED BY <1>3, LinesOfConcat

\* Only as many random inputs as there are now had to be apart before.
LEMMA ApartBefore ==
  ASSUME NEW s, UNCHANGED addresses, custom_random_inputs \in Nat, custom_random_inputs' \in Nat,
         custom_random_inputs <= custom_random_inputs', ConstantsApart(s)'
  PROVE  ConstantsApart(s) /\ \A n : n = custom_random_inputs' => ApartWith(s, n)
<1>1. PICK m, n : m = custom_random_inputs /\ n = custom_random_inputs'
  OBVIOUS
<1>2. ApartWith(s, n)'
  BY <1>1 DEF ConstantsApart, CustomApart
<1>3. ApartWith(s, n) /\ Bases' = Bases
  BY <1>2, SameMap
<1>4. m \in Nat /\ n \in Nat /\ m <= n
  BY <1>1
<1>5. ApartWith(s, m)
  BY <1>3, <1>4, FewerApart
<1>6. CustomApart(s)
  BY <1>1, <1>5 DEF CustomApart
<1>7. ConstantsApart(s)
  BY <1>3, <1>6 DEF ConstantsApart, ProgramSeq, InputsAt
<1> QED BY <1>1, <1>3, <1>7

\* One more call.
LEMMA CallSettlesMore ==
  ASSUME CustomAddressesFit, CoresConstants, RunningCustom, UNCHANGED addresses,
         NEW s \in CustomSpecs, s = pc.spec, pc.j \in DOMAIN CustomCalls(s), CustomCall(CustomCalls(s)[pc.j])
  PROVE  ConstantsReached'
<1>1. PICK c, j : c = CustomCalls(s)[j] /\ j = pc.j
  OBVIOUS
<1>2. /\ c \in Range(CustomCalls(s)) /\ CustomCall(c) /\ j \in Nat \ {0}
      /\ custom_random_inputs \in Nat
  <2>1. c \in Range(CustomCalls(s)) /\ CustomCall(c)
    BY <1>1 DEF Range
  <2> QED BY <1>1, <2>1 DEF CoresConstants, CoresReached, CustomReached
<1>3. /\ UNCHANGED fpga_loaded
      /\ \/ pc' = Idle
         \/ up' /\ pc' = [pc EXCEPT !.j = @ + 1] /\ c.function # "throw"
      /\ UNCHANGED reply \/ reply'.kind \in {"died", "deployment_error"}
  BY <1>2, CallGoesOn
<1>4. reply'.kind # "deployed_custom"
  <2>1. reply.kind # "deployed_custom"
    BY DEF CoresConstants, CoresReached, CustomReached, RunningCustom, CustomPc, Idle
  <2> QED BY <1>3, <2>1
<1>5. /\ custom_random_inputs' \in Nat /\ custom_random_inputs <= custom_random_inputs'
  <2>1. custom_random_inputs' = custom_random_inputs + 0 \/ custom_random_inputs' = custom_random_inputs + 1
    BY <1>2 DEF CustomCall, Counted
  <2> QED BY <1>2, <2>1
<1>6. SUFFICES ASSUME RunningCustom', fpga_loaded', ConstantsApart(pc.spec)', OneCore(pc.spec)'
               PROVE  Settling'
  BY <1>4 DEF ConstantsReached
<1>7. up' /\ pc' = [pc EXCEPT !.j = @ + 1] /\ c.function # "throw"
  BY <1>3, <1>6 DEF RunningCustom, CustomPc, Idle
<1>8. pc'.j = j + 1 /\ pc'.spec = s
  BY <1>1, <1>7 DEF RunningCustom, CustomPc
<1>9. ConstantsApart(s)' /\ OneCore(s) /\ fpga_loaded
  BY <1>3, <1>6, <1>8 DEF OneCore
<1>10. PICK n \in Nat : n = custom_random_inputs'
  BY <1>5
<1>11. ConstantsApart(s) /\ ApartWith(s, n)
  BY <1>2, <1>5, <1>9, <1>10, ApartBefore
<1>12. CallAdds(s, c)
  <2>1. IsSequence(operations)
    BY DEF CoresConstants, CoresLog, TrustedLog
  <2>2. IsSequence(ControlLines(operations))
    BY <2>1, LinesAreSequence
  <2> QED BY <1>2, <1>7, <1>9, <1>10, <1>11, <2>1, <2>2, CallLines
<1>13. Settling
  BY <1>1, <1>9, <1>11 DEF CoresConstants, ConstantsReached
<1>14. ASSUME NEW m \in DOMAIN CustomCalls(s), m < j + 1, NEW u \in CustomConstants(s),
              CustomCalls(s)[m] = ConstantOf(s, u)
       PROVE  ConstantSettled(s, u)'
  <2>1. m \in Nat
    BY CustomCallsAre, SequenceDomain
  <2>2. CASE m = j
    BY <1>1, <1>9, <1>11, <1>12, <1>14, <2>2, CallSettles
  <2>3. CASE m < j
    <3>1. ConstantSettled(s, u)
      BY <1>1, <1>13, <1>14, <2>3 DEF Settling
    <3> QED BY <1>9, <1>11, <1>12, <3>1, CallSettles
  <2> QED BY <1>2, <1>14, <2>1, <2>2, <2>3
<1>15. CustomCalls(s)' = CustomCalls(s) /\ CustomConstants(s)' = CustomConstants(s)
       /\ \A u : ConstantOf(s, u)' = ConstantOf(s, u)
  <2>1. CustomCalls(s)' = CustomCalls(s) /\ Bases' = Bases
    BY SameCalls, SameMap
  <2> QED BY <2>1 DEF ConstantOf, CustomConstants
<1> QED BY <1>8, <1>14, <1>15 DEF Settling

\* What is settled depends on the log and the address map.
LEMMA SettledFrom ==
  ASSUME UNCHANGED <<operations, addresses>>, NEW s, NEW u
  PROVE  ConstantSettled(s, u)' <=> ConstantSettled(s, u)
<1>1. Bases' = Bases
  BY SameMap
<1> QED BY <1>1 DEF ConstantSettled, ControlLines

\* With all calls made, all constants are.
LEMMA LastSettled ==
  ASSUME NEW s \in CustomSpecs, s = pc.spec, pc.j \in Nat \ {0}, pc.j \notin DOMAIN CustomCalls(s), Settling
  PROVE  AllSettled(s)
<1>1. SUFFICES ASSUME NEW u \in CustomConstants(s) PROVE ConstantSettled(s, u)
  BY DEF AllSettled
<1>2. PICK j \in Nat \ {0} : j = pc.j
  OBVIOUS
<1>3. PICK L \in Nat : DOMAIN CustomCalls(s) = 1 .. L
  BY CustomCallsAre, SequenceDomain
<1>4. PICK m \in DOMAIN CustomCalls(s) : CustomCalls(s)[m] = ConstantOf(s, u)
  BY ConstantIsCalled DEF Range
<1>5. m < j
  BY <1>2, <1>3, <1>4
<1> QED BY <1>2, <1>4, <1>5 DEF Settling

\* The last step of a custom deployment.
LEMMA FinishSettles ==
  ASSUME CoresConstants, RunningCustom, UNCHANGED addresses,
         pc.j \notin DOMAIN CustomCalls(pc.spec), FinishCustom
  PROVE  ConstantsReached'
<1>1. PICK s \in CustomSpecs : s = pc.spec
  BY DEF RunningCustom, CustomPc
<1>2. /\ UNCHANGED <<fpga_loaded, operations, custom_random_inputs>>
      /\ pc' = Idle /\ reply'.spec = s
  BY <1>1 DEF FinishCustom, busVars, customVars, Reply
<1>3. ~RunningCustom'
  BY <1>2, CustomIsApart DEF RunningCustom
<1>4. ASSUME fpga_loaded', ConstantsApart(s)', OneCore(s) PROVE AllSettled(s)'
  <2>1. custom_random_inputs \in Nat /\ pc.j \in Nat \ {0}
    BY DEF CoresConstants, CoresReached, CustomReached
  <2>2. ConstantsApart(s)
    <3>1. PICK n \in Nat : n = custom_random_inputs /\ n = custom_random_inputs'
      BY <1>2, <2>1
    <3>2. custom_random_inputs' \in Nat /\ custom_random_inputs <= custom_random_inputs'
      BY <3>1
    <3> QED BY <1>4, <2>1, <3>2, ApartBefore
  <2>3. Settling
    BY <1>1, <1>2, <1>4, <2>2 DEF CoresConstants, ConstantsReached
  <2>4. AllSettled(s)
    BY <1>1, <2>1, <2>3, LastSettled
  <2> QED BY <1>2, <2>4, SettledFrom DEF AllSettled, CustomConstants
<1> QED BY <1>2, <1>3, <1>4 DEF ConstantsReached, OneCore, CustomConstants

\* The first, with none of its calls made.
LEMMA BeginSettles ==
  ASSUME DeployCustom
  PROVE  ConstantsReached'
<1>1. PICK s \in CustomSpecs : process_deploy_custom(s)
  BY DEF DeployCustom
<1>2. reply'.kind # "deployed_custom"
  BY <1>1 DEF process_deploy_custom, NoReply, Reply
<1>3. ASSUME RunningCustom' PROVE Settling'
  <2>1. pc' # Idle
    BY <1>3, CustomIsApart DEF RunningCustom
  <2>2. pc'.j = 1 /\ pc'.spec = s
    BY <1>1, <2>1 DEF process_deploy_custom, Idle
  <2>3. UNCHANGED addresses
    BY <1>1 DEF process_deploy_custom, deployerVars
  <2>4. PICK L \in Nat : DOMAIN CustomCalls(s) = 1 .. L
    BY CustomCallsAre, SequenceDomain
  <2>5. DOMAIN CustomCalls(s)' = 1 .. L
    BY <2>3, <2>4, SameCalls
  <2>6. \A m \in 1 .. L : ~ m < 1
    OBVIOUS
  <2> QED BY <2>2, <2>5, <2>6 DEF Settling
<1> QED BY <1>2, <1>3 DEF ConstantsReached

\* Nothing done.
LEMMA StutterSettles ==
  ASSUME CoresConstants, UNCHANGED coresVars
  PROVE  ConstantsReached'
<1>1. UNCHANGED <<fpga_loaded, operations, custom_random_inputs, addresses, pc, reply, up,
                  sink_mode, previous_sink_mode>>
  BY DEF coresVars, vars, busVars, customVars, deployerVars
<1>2. \A s, u : ConstantSettled(s, u)' <=> ConstantSettled(s, u)
  BY <1>1, SettledFrom
<1>3. ASSUME NEW s, ConstantsApart(s)' PROVE ConstantsApart(s)
  <2>1. PICK n \in Nat : n = custom_random_inputs /\ n = custom_random_inputs'
    BY <1>1 DEF CoresConstants, CoresReached, CustomReached
  <2>2. /\ custom_random_inputs \in Nat /\ custom_random_inputs' \in Nat
        /\ custom_random_inputs <= custom_random_inputs'
    BY <2>1
  <2> QED BY <1>1, <1>3, <2>2, ApartBefore
<1>4. \A s : AllSettled(s)' <=> AllSettled(s)
  BY <1>2 DEF AllSettled, CustomConstants
<1>5. RunningCustom' <=> RunningCustom
  BY <1>1 DEF RunningCustom
<1>6. ASSUME reply'.kind = "deployed_custom", fpga_loaded', ConstantsApart(reply.spec)', OneCore(reply.spec)'
      PROVE  AllSettled(reply.spec)'
  <2>1. PICK s : s = reply.spec
    OBVIOUS
  <2>2. ConstantsApart(s)' /\ OneCore(s) /\ s = reply'.spec
    BY <1>1, <1>6, <2>1 DEF OneCore, CustomConstants
  <2>3. AllSettled(s)
    BY <1>1, <1>3, <1>6, <2>1, <2>2 DEF CoresConstants, ConstantsReached
  <2>4. AllSettled(s)'
    BY <1>4, <2>3
  <2> QED BY <2>2, <2>4 DEF AllSettled, CustomConstants
<1>7. ASSUME RunningCustom', fpga_loaded', ConstantsApart(pc.spec)', OneCore(pc.spec)'
      PROVE  Settling'
  <2>1. PICK s : s = pc.spec
    OBVIOUS
  <2>2. ConstantsApart(s)' /\ OneCore(s) /\ s = pc'.spec
    BY <1>1, <1>7, <2>1 DEF OneCore, CustomConstants
  <2>3. Settling
    BY <1>1, <1>3, <1>5, <1>7, <2>1, <2>2 DEF CoresConstants, ConstantsReached
  <2>4. /\ CustomCalls(s)' = CustomCalls(s) /\ \A u : ConstantOf(s, u)' = ConstantOf(s, u)
    <3>1. CustomCalls(s)' = CustomCalls(s) /\ Bases' = Bases
      BY <1>1, SameCalls, SameMap
    <3> QED BY <3>1 DEF ConstantOf
  <2> QED BY <1>1, <1>2, <2>1, <2>2, <2>3, <2>4 DEF Settling
<1> QED BY <1>6, <1>7 DEF ConstantsReached

\* Every step keeps it.
LEMMA CoresConstantsNext ==
  ASSUME AddressesFit, CustomAddressesFit, CoresConstants, [CoresNext]_coresVars
  PROVE  CoresConstants'
<1>1. CoresReached' /\ CoresLog'
  BY CoresReachedNext, CoresLogNext DEF CoresConstants
<1> SUFFICES ConstantsReached'
  BY <1>1 DEF CoresConstants
<1>2. CASE CustomStep
  <2>1. RunningCustom
    BY <1>2, CustomIsApart DEF CoresConstants, CoresReached, CoresBracket, CustomStep, At
  <2>2. UNCHANGED addresses
    BY <1>2 DEF CustomStep, deployerVars
  <2>3. PICK s \in CustomSpecs : s = pc.spec
    BY <2>1 DEF RunningCustom, CustomPc
  <2>4. CASE pc.j \in DOMAIN CustomCalls(s) /\ CustomCall(CustomCalls(s)[pc.j])
    BY <2>1, <2>2, <2>3, <2>4, CallSettlesMore
  <2>5. CASE pc.j \notin DOMAIN CustomCalls(s) /\ FinishCustom
    BY <2>1, <2>2, <2>3, <2>5, FinishSettles
  <2> QED BY <1>2, <2>3, <2>4, <2>5 DEF CustomStep
<1>3. CASE DeployCustom
  BY <1>3, BeginSettles
<1>4. CASE UNCHANGED coresVars
  BY <1>4, StutterSettles
<1>5. CASE ServerStep \/ Relaunch
  BY <1>5, OthersRunNone DEF CoresConstants, ConstantsReached
<1> QED BY <1>2, <1>3, <1>4, <1>5 DEF CoresNext

\* After a custom deployment that completes, the constant engine holds the constants of
\* the one core that has any, each at its selector, where the selectors have room for
\* the inputs, every constant has a value, and what else is deployed is apart.
THEOREM CustomDeployHoldsConstants ==
  ASSUME AddressesFit, CustomAddressesFit
  PROVE  CoresSpec => []((reply.kind = "deployed_custom" => ConstantsApart(reply.spec))
                           => CustomConstantsInEngine)
<1>1. CoresInit => CoresConstants
  <2>1. CoresInit => CoresReached /\ CoresLog
    BY CoresReachedInit, CoresLogInit
  <2>2. CoresInit => pc = Idle /\ reply.kind = "none"
    BY DEF CoresInit, Init, NoReply, Reply
  <2>3. pc = Idle => ~RunningCustom
    BY CustomIsApart DEF RunningCustom
  <2> QED BY <2>1, <2>2, <2>3 DEF CoresConstants, ConstantsReached
<1>2. CoresConstants => ((reply.kind = "deployed_custom" => ConstantsApart(reply.spec))
                           => CustomConstantsInEngine)
  <2>1. SUFFICES ASSUME CoresConstants, reply.kind = "deployed_custom", ConstantsApart(reply.spec),
                        fpga_loaded, OneCore(reply.spec), NEW u \in CustomConstants(reply.spec)
                 PROVE  EngineHolds(ControlLines(operations), 1 + Bases.cores_inputs,
                                    u[2] - 1 + BusShift * u[3], UseDest(reply.spec, u),
                                    InputValue(UsedInput(reply.spec, u), u[3]))
    BY DEF CustomConstantsInEngine, OneCore
  <2>2. PICK s : s = reply.spec
    OBVIOUS
  <2>3. ConstantSettled(s, u)
    BY <2>1, <2>2 DEF CoresConstants, ConstantsReached, AllSettled
  <2>4. IsSequence(ControlLines(operations))
    BY <2>1, LinesAreSequence DEF CoresConstants, CoresLog, TrustedLog
  <2> DEFINE dest == UseDest(s, u)
             value == InputValue(UsedInput(s, u), u[3])
             selector == CustomSelector(u[2], u[3])
             engine == 1 + Bases.cores_inputs
  <2>5. Settled(ControlLines(operations), engine, selector, dest, value)
    BY <2>3 DEF ConstantSettled
  <2> HIDE DEF dest, value, selector, engine
  <2>6. EngineHolds(ControlLines(operations), engine, selector, dest, value)
    BY <2>4, <2>5, SettledHolds
  <2> QED BY <2>2, <2>6 DEF dest, value, selector, engine, CustomSelector
<1> QED BY <1>1, <1>2, CoresConstantsNext, PTL DEF CoresSpec
=============================================================================
