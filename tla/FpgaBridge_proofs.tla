-------------------------- MODULE FpgaBridge_proofs --------------------------
(***************************************************************************)
(* Lemmas about the operations of FpgaBridge, for the proofs about the     *)
(* modules that use them: each preserves the types of the bus, leaves the  *)
(* hardware alone in sink mode, and otherwise changes it the way the       *)
(* accesses it logs would, performed one after the other.                  *)
(***************************************************************************)
EXTENDS FpgaBridge, FiniteFolds

Stores == Seq(Nat \X Word)

\* The stores of write_register leave words in the registers.
LEMMA StoredType ==
  ASSUME registers \in [0 .. ControlWords - 1 -> Word], NEW stores \in Stores
  PROVE  Stored(stores) \in [0 .. ControlWords - 1 -> Word]
<1>1. SUFFICES ASSUME NEW k \in 0 .. ControlWords - 1, LastHit(stores, Performed(stores), k) # {}
               PROVE  stores[CHOOSE i \in LastHit(stores, Performed(stores), k) : TRUE][2] \in Word
  BY DEF Stored
<1>2. (CHOOSE i \in LastHit(stores, Performed(stores), k) : TRUE) \in DOMAIN stores
  BY <1>1 DEF LastHit, Performed
<1> QED BY <1>2 DEF Stores

\* bus_accessor::write_register, for any run of stores.
LEMMA WriteRegistersType ==
  ASSUME BusTypeOK, NEW logged \in Seq(BusOps), NEW stores \in Stores,
         write_registers(logged, stores)
  PROVE  BusTypeOK'
<1>1. registers' \in [0 .. ControlWords - 1 -> Word]
  BY StoredType DEF write_registers, BusTypeOK
<1>2. operations' \in Seq(BusOps)
  BY DEF write_registers, BusTypeOK
<1>3. up' \in BOOLEAN
  BY DEF write_registers, BusTypeOK
<1> QED BY <1>1, <1>2, <1>3 DEF write_registers, BusTypeOK

\* fpga_bridge::write_direct, loaded or not.
LEMMA DirectWritesType ==
  ASSUME BusTypeOK, NEW stores \in Stores, write_direct_all(stores)
  PROVE  BusTypeOK'
<1>1. CASE fpga_loaded
  <2> DEFINE logged == [i \in DOMAIN stores |->
               BusOp(<<stores[i][1]>>, <<stores[i][2]>>, "control_plane_write")]
  <2>1. logged \in Seq(BusOps)
    <3>1. ASSUME NEW i \in DOMAIN stores
          PROVE  BusOp(<<stores[i][1]>>, <<stores[i][2]>>, "control_plane_write") \in BusOps
      <4>1. stores[i] \in Nat \X Word
        BY DEF Stores
      <4>2. <<stores[i][1]>> \in Seq(Nat) /\ <<stores[i][2]>> \in Seq(Word)
        BY <4>1
      <4> QED BY <4>2 DEF BusOp, BusOps, OpTypes
    <3>2. Len(stores) \in Nat /\ DOMAIN stores = 1 .. Len(stores)
      BY DEF Stores
    <3> QED BY <3>1, <3>2
  <2>2. write_registers(logged, stores)
    BY <1>1 DEF write_direct_all
  <2> QED BY <2>1, <2>2, WriteRegistersType
<1>2. CASE ~fpga_loaded
  BY <1>2 DEF write_direct_all, busVars, BusTypeOK
<1> QED BY <1>1, <1>2 DEF BusTypeOK

\* The same for one write.
LEMMA DirectWriteType ==
  ASSUME BusTypeOK, NEW address \in Nat, NEW value \in Word, write_direct(address, value)
  PROVE  BusTypeOK'
<1>1. <<<<address, value>>>> \in Stores
  BY DEF Stores
<1> QED BY <1>1, DirectWritesType DEF write_direct

\* fpga_bridge::write_proxied: the target address is stored as a word.
LEMMA ProxiedWriteType ==
  ASSUME BusTypeOK, NEW proxy \in Nat, NEW target \in Word, NEW value \in Word,
         write_proxied(proxy, target, value)
  PROVE  BusTypeOK'
<1> USE BusAssumption
<1>1. ProxyStores(target, proxy, value) \in Stores
  BY DEF ProxyStores, Stores, Word
<1>2. <<BusOp(<<target, proxy>>, <<value>>, "control_plane_write")>> \in Seq(BusOps)
  BY DEF BusOp, BusOps, OpTypes, Word
<1> QED BY <1>1, <1>2, WriteRegistersType DEF write_proxied, busVars, BusTypeOK

\* fpga_bridge::read_direct: only the log grows, and a fault ends the process.
LEMMA ReadType ==
  ASSUME BusTypeOK, NEW address \in Nat, read_direct(address)
  PROVE  BusTypeOK'
<1>1. BusOp(<<address>>, <<0>>, "control_plane_read") \in BusOps
  BY BusAssumption DEF BusOp, BusOps, OpTypes, Word
<1>2. CASE fpga_loaded
  <2>1. read_register(address)
    BY <1>2 DEF read_direct
  <2>2. up' \in BOOLEAN
    BY <2>1, Zenon DEF read_register
  <2>3. operations' \in Seq(BusOps)
    BY <1>1, <2>1 DEF read_register, BusTypeOK
  <2> QED BY <2>1, <2>2, <2>3 DEF read_register, hardwareVars, BusTypeOK
<1>3. CASE ~fpga_loaded
  BY <1>3 DEF read_direct, busVars, BusTypeOK
<1> QED BY <1>2, <1>3

\* bus_accessor::load_program: each word of the window holds the word of the
\* program stored there or the one it had.
LEMMA LoadProgramType ==
  ASSUME BusTypeOK, NEW address \in Nat, NEW program \in Seq(Word),
         load_program(address, program)
  PROVE  BusTypeOK'
<1> DEFINE written == {i \in DOMAIN program : \A j \in 1 .. i : CoreMapped(address, j - 1)}
           offset == fcore_address_to_index(address)
<1>1. offset \in Int
  BY BusAssumption DEF fcore_address_to_index
<1>2. ASSUME NEW k \in 0 .. CoreWords - 1, NEW i \in written, offset + i - 1 = k
      PROVE  program[k - offset + 1] \in Word
  <2>1. i \in DOMAIN program /\ i \in Int
    OBVIOUS
  <2>2. k - offset + 1 = i
    BY <1>1, <1>2, <2>1
  <2> QED BY <2>1, <2>2
<1>3. fCore' \in [0 .. CoreWords - 1 -> Word]
  <2>1. CASE sink_mode
    BY <2>1 DEF load_program, BusTypeOK
  <2>2. CASE ~sink_mode
    <3>1. fCore' = [k \in 0 .. CoreWords - 1 |->
                      IF \E i \in written : offset + i - 1 = k
                        THEN program[k - offset + 1] ELSE fCore[k]]
      BY <2>2 DEF load_program
    <3>2. fCore \in [0 .. CoreWords - 1 -> Word]
      BY DEF BusTypeOK
    <3> HIDE DEF written, offset
    <3> QED BY <3>1, <3>2, <1>2
  <2> QED BY <2>1, <2>2 DEF BusTypeOK
<1>4. operations' \in Seq(BusOps)
  <2>1. BusOp(<<address>>, program, "rom_plane_write") \in BusOps
    BY DEF BusOp, BusOps, OpTypes
  <2> QED BY <2>1 DEF load_program, BusTypeOK
<1>5. up' \in BOOLEAN
  BY DEF load_program
<1> QED BY <1>3, <1>4, <1>5 DEF load_program, BusTypeOK

\* fpga_bridge::apply_filter: taps and their indices alternate.
LEMMA FilterStores ==
  ASSUME NEW address \in Nat, NEW taps \in Seq(Word)
  PROVE  [n \in 1 .. 2 * Len(taps) |->
            IF n % 2 = 1 THEN <<address, taps[(n + 1) \div 2]>>
                         ELSE <<address + 4, (n \div 2 - 1) % WordModulus>>] \in Stores
<1> DEFINE store(n) == IF n % 2 = 1 THEN <<address, taps[(n + 1) \div 2]>>
                                    ELSE <<address + 4, (n \div 2 - 1) % WordModulus>>
<1>1. ASSUME NEW n \in 1 .. 2 * Len(taps) PROVE store(n) \in Nat \X Word
  <2>1. CASE n % 2 = 1
    <3>1. (n + 1) \div 2 \in 1 .. Len(taps)
      BY <2>1
    <3> QED BY <2>1, <3>1
  <2>2. CASE n % 2 # 1
    <3>1. (n \div 2 - 1) \in Int /\ WordModulus \in Nat \ {0}
      BY BusAssumption
    <3>2. (n \div 2 - 1) % WordModulus \in Word
      BY <3>1 DEF Word
    <3> QED BY <2>2, <3>2
  <2> QED BY <2>1, <2>2
<1>2. 2 * Len(taps) \in Nat
  OBVIOUS
<1>3. [n \in 1 .. 2 * Len(taps) |-> store(n)] \in Stores
  <2> HIDE DEF store
  <2> QED BY <1>1, <1>2 DEF Stores
<1> QED BY <1>3

\* So they leave the bus with its types.
LEMMA FilterType ==
  ASSUME BusTypeOK, NEW address \in Nat, NEW taps \in Seq(Word), apply_filter(address, taps)
  PROVE  BusTypeOK'
BY FilterStores, DirectWritesType DEF apply_filter

\* fpga_bridge::load_bitstream, whatever it reports and does.
LEMMA LoadBitstreamType ==
  ASSUME BusTypeOK, NEW reported \in BOOLEAN, NEW fate \in {"kept", "programmed", "lost"},
         load_bitstream(reported, fate)
  PROVE  BusTypeOK'
<1>1. 0 \in Word
  BY BusAssumption DEF Word
<1>2. /\ registers' \in [0 .. ControlWords - 1 -> Word]
      /\ fCore' \in [0 .. CoreWords - 1 -> Word]
  BY <1>1 DEF load_bitstream, BusTypeOK
<1>3. operating' \in BOOLEAN /\ fpga_loaded' \in BOOLEAN
  BY DEF load_bitstream, BusTypeOK
<1> QED BY <1>2, <1>3 DEF load_bitstream, BusTypeOK

\* The operations on the log, on sink mode and on the process.
LEMMA AccessControlType ==
  ASSUME BusTypeOK,
         \/ clear_operations_vector \/ disable_bus_access \/ enable_bus_access
         \/ launch \/ process_exit
  PROVE  BusTypeOK'
<1>1. <<>> \in Seq(BusOps)
  OBVIOUS
<1>2. CASE clear_operations_vector
  BY <1>1, <1>2 DEF clear_operations_vector, hardwareVars, BusTypeOK
<1>3. CASE disable_bus_access
  BY <1>1, <1>3 DEF disable_bus_access, hardwareVars, BusTypeOK
<1>4. CASE enable_bus_access
  BY <1>4 DEF enable_bus_access, hardwareVars, BusTypeOK
<1>5. CASE launch
  BY <1>1, <1>5 DEF launch, hardwareVars, BusTypeOK
<1>6. CASE process_exit
  BY <1>6 DEF process_exit, hardwareVars, BusTypeOK
<1> QED BY <1>2, <1>3, <1>4, <1>5, <1>6

\* In sink mode an access is only logged.
LEMMA SunkWrites ==
  ASSUME sink_mode, NEW stores, write_direct_all(stores)
  PROVE  UNCHANGED <<hardwareVars, up, fpga_loaded, sink_mode, previous_sink_mode>>
BY DEF write_direct_all, write_registers, busVars, hardwareVars

\* The same for a program.
LEMMA SunkProgram ==
  ASSUME sink_mode, NEW address, NEW program, apply_program(address, program),
         up \in BOOLEAN, up
  PROVE  UNCHANGED <<hardwareVars, up, fpga_loaded, sink_mode, previous_sink_mode>>
BY DEF apply_program, load_program, hardwareVars

----------------------------------------------------------------------------
(* Performing a log *)

\* The hardware, and the accesses that can be performed on it.
Machines == [control : [0 .. ControlWords - 1 -> Nat], rom : [0 .. CoreWords - 1 -> Nat]]
Performable ==
  {o \in BusOps : Len(o.address) \in {1, 2} /\ (o.type = "control_plane_write" => Len(o.data) = 1)}

\* About sequences.
LEMMA SequenceOfSubset ==
  ASSUME NEW S, NEW T, S \subseteq T, NEW s \in Seq(S)
  PROVE  s \in Seq(T)
<1>1. Len(s) \in Nat /\ s = [i \in 1 .. Len(s) |-> s[i]]
  OBVIOUS
<1>2. \A i \in 1 .. Len(s) : s[i] \in S
  OBVIOUS
<1>3. \A i \in 1 .. Len(s) : s[i] \in T
  BY <1>2
<1> QED BY <1>1, <1>3

LEMMA Appending ==
  ASSUME NEW S, NEW s \in Seq(S)
  PROVE  s = s \o <<>> /\ \A e \in S : Append(s, e) = s \o <<e>>
OBVIOUS

\* A direct write and a program as they are logged.
LEMMA DirectIsPerformable ==
  ASSUME NEW address \in Nat, NEW value \in Word, NEW o,
         o = BusOp(<<address>>, <<value>>, "control_plane_write")
  PROVE  /\ o \in Performable /\ o.type = "control_plane_write" /\ Len(o.address) = 1
         /\ o.address[1] = address /\ o.data[1] = value
<1>1. <<address>> \in Seq(Nat) /\ <<value>> \in Seq(Word)
  OBVIOUS
<1>2. o.address = <<address>> /\ o.data = <<value>> /\ o.type = "control_plane_write"
  BY DEF BusOp
<1>3. o \in BusOps
  BY <1>1 DEF BusOp, BusOps, OpTypes
<1>4. Len(o.address) = 1 /\ Len(o.data) = 1
  BY <1>2
<1>5. o \in Performable
  BY <1>3, <1>4 DEF Performable
<1>6. <<address>>[1] = address /\ <<value>>[1] = value
  OBVIOUS
<1>7. o.address[1] = address /\ o.data[1] = value
  BY <1>2, <1>6, Zenon
<1> QED BY <1>2, <1>4, <1>5, <1>7, Zenon

LEMMA HardwareIsMachine ==
  ASSUME BusTypeOK
  PROVE  Hardware \in Machines
<1>1. Word \subseteq Nat
  BY BusAssumption DEF Word
<1> QED BY <1>1 DEF BusTypeOK, Hardware, Machines

LEMMA LatchedType ==
  ASSUME NEW control \in [0 .. ControlWords - 1 -> Nat], NEW at, NEW word \in Nat
  PROVE  Latched(control, at, word) \in [0 .. ControlWords - 1 -> Nat]
BY DEF Latched

LEMMA PerformType ==
  ASSUME NEW hw \in Machines, NEW o \in Performable
  PROVE  Perform(hw, o) \in Machines
<1>1. Word \subseteq Nat
  BY BusAssumption DEF Word
<1>2. o.address \in Seq(Nat) /\ o.data \in Seq(Nat) /\ o.type \in OpTypes
  <2>1. o.address \in Seq(Nat) /\ o.data \in Seq(Word) /\ o.type \in OpTypes
    BY DEF Performable, BusOps
  <2>2. \A data \in Seq(Word) : data \in Seq(Nat)
    BY <1>1, SequenceOfSubset
  <2> QED BY <2>1, <2>2
<1>3. hw.control \in [0 .. ControlWords - 1 -> Nat] /\ hw.rom \in [0 .. CoreWords - 1 -> Nat]
  BY DEF Machines
<1>4. CASE o.type = "control_plane_read"
  BY <1>4 DEF Perform
<1>5. CASE o.type = "rom_plane_write"
  <2> DEFINE rom == [k \in DOMAIN hw.rom |->
            IF k - fcore_address_to_index(o.address[1]) \in 0 .. Len(o.data) - 1
              THEN o.data[k - fcore_address_to_index(o.address[1]) + 1] ELSE hw.rom[k]]
  <2>1. fcore_address_to_index(o.address[1]) \in Int
    <3>1. o.address[1] \in Nat
      BY <1>2 DEF Performable
    <3> QED BY <3>1, BusAssumption DEF fcore_address_to_index
  <2>2. ASSUME NEW at \in Int, NEW k \in 0 .. CoreWords - 1, k - at \in 0 .. Len(o.data) - 1
        PROVE  o.data[k - at + 1] \in Nat
    <3>1. k - at + 1 \in 1 .. Len(o.data)
      BY <1>2, <2>2
    <3> QED BY <1>2, <3>1
  <2>3. rom \in [0 .. CoreWords - 1 -> Nat]
    BY <1>3, <2>1, <2>2
  <2>4. Perform(hw, o) = [hw EXCEPT !.rom = rom]
    BY <1>5 DEF Perform
  <2> HIDE DEF rom
  <2> QED BY <1>3, <2>3, <2>4 DEF Machines
<1>6. CASE o.type = "control_plane_write"
  <2>1. o.data[1] \in Nat /\ o.address[1] \in Nat
    BY <1>2, <1>6 DEF Performable
  <2>2. CASE Len(o.address) = 1
    <3>1. Perform(hw, o) = [hw EXCEPT !.control =
                              Latched(hw.control, register_address_to_index(o.address[1]), o.data[1])]
      BY <1>6, <2>2 DEF Perform
    <3> QED BY <1>3, <2>1, <3>1, LatchedType DEF Machines
  <2>3. CASE Len(o.address) # 1
    <3> DEFINE target == Latched(hw.control, register_address_to_index(o.address[2]) + 1, o.address[1])
               written == Latched(target, register_address_to_index(o.address[2]), o.data[1])
    <3>1. target \in [0 .. ControlWords - 1 -> Nat]
      BY <1>3, <2>1, LatchedType
    <3>3. written \in [0 .. ControlWords - 1 -> Nat]
      <4> HIDE DEF target
      <4> QED BY <2>1, <3>1, LatchedType
    <3>4. Perform(hw, o) = [hw EXCEPT !.control = written]
      BY <1>6, <2>3 DEF Perform
    <3> HIDE DEF written
    <3> QED BY <1>3, <3>3, <3>4 DEF Machines
  <2> QED BY <2>2, <2>3
<1> QED BY <1>2, <1>4, <1>5, <1>6 DEF OpTypes

\* A log is performed one access after the other.
LEMMA ReplaySteps ==
  ASSUME NEW hw \in Machines, NEW N \in Nat, NEW ops,
         DOMAIN ops = 1 .. N, \A i \in 1 .. N : ops[i] \in Performable
  PROVE  \E t \in [0 .. N -> Machines] :
           /\ t[0] = hw /\ t[N] = Replay(hw, ops)
           /\ \A i \in 1 .. N : t[i] = Perform(t[i - 1], ops[i])
<1> DEFINE S == 1 .. N
           op == [x \in Machines \X Performable |-> Perform(x[1], x[2])]
<1>1. op \in [Machines \X Performable -> Machines]
  <2>1. ASSUME NEW x \in Machines \X Performable PROVE Perform(x[1], x[2]) \in Machines
    <3>1. x[1] \in Machines /\ x[2] \in Performable
      OBVIOUS
    <3> QED BY <3>1, PerformType
  <2> QED BY <2>1
<1>2. PICK g \in [SUBSET S -> Machines] :
        \A s \in SUBSET S : g[s] = IF s = {} THEN hw ELSE op[<<g[s \ {Max(s)}], ops[Max(s)]>>]
  <2> HIDE DEF op
  <2>1. FoldOf(N, ops, Machines, Performable, hw, op)
    BY <1>1 DEF FoldOf
  <2>2. \E g \in [SUBSET S -> Machines] : IsFold(g, N, ops, hw, op)
    BY <2>1, SequenceFold, Zenon
  <2> QED BY <2>2 DEF IsFold
<1>3. g = [s \in SUBSET S |-> IF s = {} THEN hw ELSE Perform(g[s \ {Max(s)}], ops[Max(s)])]
  <2>1. ASSUME NEW s \in SUBSET S
        PROVE  g[s] = IF s = {} THEN hw ELSE Perform(g[s \ {Max(s)}], ops[Max(s)])
    <3>1. s # {} => <<g[s \ {Max(s)}], ops[Max(s)]>> \in Machines \X Performable
      <4>1. s # {} => Max(s) \in S
        BY LargestExists
      <4> QED BY <4>1
    <3>2. s # {} => op[<<g[s \ {Max(s)}], ops[Max(s)]>>] = Perform(g[s \ {Max(s)}], ops[Max(s)])
      BY <3>1
    <3> HIDE DEF op
    <3> QED BY <1>2, <3>2
  <2> QED BY <2>1
<1> DEFINE f == CHOOSE f : f = [s \in SUBSET (DOMAIN ops) |->
                  IF s = {} THEN hw ELSE Perform(f[s \ {Max(s)}], ops[Max(s)])]
<1>4. f = [s \in SUBSET S |-> IF s = {} THEN hw ELSE Perform(f[s \ {Max(s)}], ops[Max(s)])]
  BY <1>3
<1>5. Replay(hw, ops) = f[S]
  BY DEF Replay, FoldLeft, MapThenFoldSet
<1> HIDE DEF f, op
<1>6. f[1 .. 0] = hw
  <2>1. 1 .. 0 = {}
    OBVIOUS
  <2> QED BY <1>4, <2>1
<1>7. ASSUME NEW i \in 1 .. N PROVE f[1 .. i] = Perform(f[1 .. i - 1], ops[i])
  <2>1. 1 .. i \in SUBSET S /\ 1 .. i # {}
    <3>1. i \in 1 .. i /\ \A k \in 1 .. i : k \in S
      OBVIOUS
    <3> QED BY <3>1
  <2>2. Max(1 .. i) = i /\ (1 .. i) \ {i} = 1 .. i - 1
    BY FirstNumbers
  <2> QED BY <1>4, <2>1, <2>2
<1> DEFINE t == [i \in 0 .. N |-> f[1 .. i]]
           G == {i \in Nat : i <= N => t[i] \in Machines}
<1>8. /\ t[0] = hw /\ t[N] = Replay(hw, ops)
      /\ \A i \in 1 .. N : t[i] = Perform(t[i - 1], ops[i])
  <2>1. 0 \in 0 .. N /\ N \in 0 .. N /\ \A i \in 1 .. N : i \in 0 .. N /\ i - 1 \in 0 .. N
    OBVIOUS
  <2> QED BY <1>5, <1>6, <1>7, <2>1
<1> HIDE DEF t
<1>9. \A i \in Nat : i \in G
  <2>1. 0 \in G
    BY <1>8
  <2>2. ASSUME NEW i \in Nat, i \in G PROVE i + 1 \in G
    <3>1. SUFFICES ASSUME i + 1 <= N PROVE t[i + 1] \in Machines
      OBVIOUS
    <3>2. t[i] \in Machines /\ i + 1 \in 1 .. N /\ (i + 1) - 1 = i
      BY <2>2, <3>1
    <3>3. t[i + 1] = Perform(t[i], ops[i + 1]) /\ ops[i + 1] \in Performable
      BY <1>8, <3>2
    <3> QED BY <3>2, <3>3, PerformType
  <2> HIDE DEF G
  <2> QED BY <2>1, <2>2, AllNumbers
<1>10. t \in [0 .. N -> Machines]
  <2>1. \A i \in 0 .. N : t[i] \in Machines
    BY <1>9
  <2> QED BY <2>1 DEF t
<1> QED BY <1>8, <1>10

\* An empty log changes nothing, and one access is performed.
LEMMA ReplayNone ==
  ASSUME NEW hw \in Machines
  PROVE  Replay(hw, <<>>) = hw
<1>1. PICK N, ops : N = 0 /\ ops = <<>>
  OBVIOUS
<1>2. N \in Nat /\ DOMAIN ops = 1 .. N /\ \A i \in 1 .. N : ops[i] \in Performable
  BY <1>1
<1>3. PICK t \in [0 .. N -> Machines] : t[0] = hw /\ t[N] = Replay(hw, ops)
  BY <1>2, ReplaySteps
<1> QED BY <1>1, <1>3

LEMMA ReplayOne ==
  ASSUME NEW hw \in Machines, NEW o \in Performable
  PROVE  Replay(hw, <<o>>) = Perform(hw, o)
<1>1. PICK N, ops : N = 1 /\ ops = <<o>>
  OBVIOUS
<1>2. N \in Nat /\ DOMAIN ops = 1 .. N /\ \A i \in 1 .. N : ops[i] \in Performable
  BY <1>1
<1>3. PICK t \in [0 .. N -> Machines] :
        /\ t[0] = hw /\ t[N] = Replay(hw, ops)
        /\ \A i \in 1 .. N : t[i] = Perform(t[i - 1], ops[i])
  BY <1>2, ReplaySteps
<1>4. t[1] = Perform(t[0], o)
  BY <1>1, <1>3
<1> QED BY <1>1, <1>3, <1>4

\* The log of direct writes.
DirectLog(stores) ==
  [i \in DOMAIN stores |-> BusOp(<<stores[i][1]>>, <<stores[i][2]>>, "control_plane_write")]

\* Direct writes that reach the window, performed from the log, leave what storing
\* them leaves: each register has the last value written to it.
LEMMA ReplayWrites ==
  ASSUME BusTypeOK, NEW stores \in Stores, NEW logged, Performed(stores) = DOMAIN stores,
         logged = DirectLog(stores)
  PROVE  Replay(Hardware, logged) = [control |-> Stored(stores), rom |-> fCore]
<1> DEFINE at(m) == register_address_to_index(stores[m][1])
<1>1. PICK N \in Nat : DOMAIN stores = 1 .. N
  BY DEF Stores
<1>2. \A i \in 1 .. N : stores[i][1] \in Nat /\ stores[i][2] \in Word
  BY <1>1 DEF Stores
<1>3. \A i \in 1 .. N : /\ logged[i] \in Performable
                        /\ logged[i].type = "control_plane_write"
                        /\ Len(logged[i].address) = 1
                        /\ logged[i].address[1] = stores[i][1]
                        /\ logged[i].data[1] = stores[i][2]
  <2>1. SUFFICES ASSUME NEW i \in 1 .. N
                 PROVE  /\ logged[i] \in Performable
                        /\ logged[i].type = "control_plane_write"
                        /\ Len(logged[i].address) = 1
                        /\ logged[i].address[1] = stores[i][1]
                        /\ logged[i].data[1] = stores[i][2]
    OBVIOUS
  <2>2. logged[i] = BusOp(<<stores[i][1]>>, <<stores[i][2]>>, "control_plane_write")
    BY <1>1 DEF DirectLog
  <2> QED BY <1>2, <2>2, DirectIsPerformable
<1>4. PICK t \in [0 .. N -> Machines] :
        /\ t[0] = Hardware /\ t[N] = Replay(Hardware, logged)
        /\ \A i \in 1 .. N : t[i] = Perform(t[i - 1], logged[i])
  <2>1. DOMAIN logged = 1 .. N
    BY <1>1 DEF DirectLog
  <2>2. \A i \in 1 .. N : logged[i] \in Performable
    BY <1>3
  <2>3. Hardware \in Machines
    BY HardwareIsMachine
  <2>4. PICK ops : ops = logged
    OBVIOUS
  <2>5. DOMAIN ops = 1 .. N /\ \A i \in 1 .. N : ops[i] \in Performable
    BY <2>1, <2>2, <2>4
  <2>6. \E t \in [0 .. N -> Machines] :
          /\ t[0] = Hardware /\ t[N] = Replay(Hardware, ops)
          /\ \A i \in 1 .. N : t[i] = Perform(t[i - 1], ops[i])
    BY <2>3, <2>5, ReplaySteps
  <2> QED BY <2>4, <2>6
<1>5. \A i \in 1 .. N : t[i] = [t[i - 1] EXCEPT !.control = Latched(t[i - 1].control, at(i), stores[i][2])]
  BY <1>3, <1>4 DEF Perform
<1> DEFINE Value(i, k, value) ==
             \/ \E m \in 1 .. i : /\ at(m) = k /\ value = stores[m][2]
                                 /\ \A j \in 1 .. i : at(j) = k => j <= m
             \/ (\A m \in 1 .. i : at(m) # k) /\ value = registers[k]
           Holds(i) == /\ t[i].rom = fCore
                       /\ \A k \in 0 .. ControlWords - 1 : Value(i, k, t[i].control[k])
           G == {i \in Nat : i <= N => Holds(i)}
<1>6. 0 \in G
  BY <1>4 DEF Hardware
<1>7. ASSUME NEW i \in Nat, i \in G PROVE i + 1 \in G
  <2> HIDE DEF Holds
  <2>1. SUFFICES ASSUME i + 1 <= N PROVE Holds(i + 1)
    OBVIOUS
  <2>2. Holds(i) /\ i \in 0 .. N /\ i + 1 \in 1 .. N /\ (i + 1) - 1 = i
    <3>1. i \in 0 .. N /\ i + 1 \in 1 .. N /\ (i + 1) - 1 = i
      BY <2>1
    <3> QED BY <1>7, <2>1, <3>1
  <2> HIDE DEF Value
  <2> USE DEF Holds
  <2>3. t[i + 1] = [t[i] EXCEPT !.control = Latched(t[i].control, at(i + 1), stores[i + 1][2])]
    BY <1>5, <2>2
  <2>4. t[i] \in Machines
    BY <2>2
  <2>5. t[i + 1].rom = t[i].rom
    BY <2>3, <2>4 DEF Machines
  <2>6. ASSUME NEW k \in 0 .. ControlWords - 1
        PROVE  Value(i + 1, k, t[i + 1].control[k])
    <3>1. CASE at(i + 1) = k
      <4>1. t[i + 1].control[k] = stores[i + 1][2]
        BY <2>3, <2>4, <3>1 DEF Machines, Latched
      <4>2. i + 1 \in 1 .. i + 1 /\ \A j \in 1 .. i + 1 : j <= i + 1
        OBVIOUS
      <4> HIDE DEF at
      <4> QED BY <3>1, <4>1, <4>2 DEF Value
    <3>2. CASE at(i + 1) # k
      <4>1. t[i + 1].control[k] = t[i].control[k]
        BY <2>3, <2>4, <3>2 DEF Machines, Latched
      <4>2. Value(i, k, t[i].control[k])
        BY <2>2
      <4>3. \A j \in 1 .. i + 1 : j = i + 1 \/ j \in 1 .. i
        OBVIOUS
      <4>4. \A j \in 1 .. i : j \in 1 .. i + 1
        OBVIOUS
      <4> HIDE DEF at
      <4> QED BY <3>2, <4>1, <4>2, <4>3, <4>4 DEF Value
    <3> QED BY <3>1, <3>2
  <2> QED BY <2>2, <2>5, <2>6
<1>8. Holds(N)
  <2> HIDE DEF Holds
  <2>1. \A i \in Nat : i \in G
    BY <1>6, <1>7, AllNumbers
  <2> QED BY <2>1
<1>9. \A k \in 0 .. ControlWords - 1 : t[N].control[k] = Stored(stores)[k]
  <2>1. SUFFICES ASSUME NEW k \in 0 .. ControlWords - 1
                 PROVE  t[N].control[k] = Stored(stores)[k]
    OBVIOUS
  <2>2. Value(N, k, t[N].control[k])
    BY <1>8
  <2> HIDE DEF Holds, G, at
  <2> DEFINE hits == LastHit(stores, Performed(stores), k)
  <2>3. \A m : m \in hits <=> /\ m \in 1 .. N /\ at(m) = k
                              /\ \A j \in 1 .. N : at(j) = k => j <= m
    BY <1>1 DEF LastHit, at
  <2>4. Stored(stores)[k] = IF hits = {} THEN registers[k]
                                         ELSE stores[CHOOSE m \in hits : TRUE][2]
    BY DEF Stored
  <2> HIDE DEF hits
  <2>5. CASE \A m \in 1 .. N : at(m) # k
    <3>1. t[N].control[k] = registers[k]
      BY <2>2, <2>5
    <3>2. hits = {}
      BY <2>3, <2>5
    <3> QED BY <2>4, <3>1, <3>2
  <2>6. ASSUME NEW m \in 1 .. N, at(m) = k PROVE t[N].control[k] = Stored(stores)[k]
    <3>1. PICK n \in 1 .. N : /\ at(n) = k /\ t[N].control[k] = stores[n][2]
                             /\ \A j \in 1 .. N : at(j) = k => j <= n
      BY <2>2, <2>6
    <3>2. n \in hits
      BY <2>3, <3>1
    <3>3. (CHOOSE x \in hits : TRUE) \in hits
      BY <3>2
    <3>4. \A x \in hits : x = n
      BY <2>3, <3>1
    <3> QED BY <2>4, <3>1, <3>2, <3>3, <3>4
  <2> QED BY <2>5, <2>6
<1>10. t[N] \in Machines /\ DOMAIN Stored(stores) = 0 .. ControlWords - 1
  BY <1>1 DEF Stored
<1>11. t[N].control = Stored(stores)
  <2>1. Stored(stores) = [k \in 0 .. ControlWords - 1 |-> Stored(stores)[k]]
    BY DEF Stored
  <2> HIDE DEF Holds, Value, G
  <2> QED BY <1>9, <1>10, <2>1 DEF Machines
<1>12. t[N].rom = fCore
  BY <1>8
<1> HIDE DEF Holds, Value, G
<1> QED BY <1>4, <1>10, <1>11, <1>12 DEF Machines

\* What one access does when it is performed from the log.
LEMMA ReplayProxied ==
  ASSUME BusTypeOK, NEW proxy \in Nat, NEW target \in Word, NEW value \in Word,
         Performed(ProxyStores(target, proxy, value)) = DOMAIN ProxyStores(target, proxy, value)
  PROVE  Replay(Hardware, <<BusOp(<<target, proxy>>, <<value>>, "control_plane_write")>>)
           = [control |-> Stored(ProxyStores(target, proxy, value)), rom |-> fCore]
<1> DEFINE o == BusOp(<<target, proxy>>, <<value>>, "control_plane_write")
           k == register_address_to_index(proxy)
           stores == ProxyStores(target, proxy, value)
<1>1. Word \subseteq Nat /\ k \in Int
  BY BusAssumption DEF Word, register_address_to_index
<1>2. o \in Performable
  <2>1. <<target, proxy>> \in Seq(Nat) /\ <<value>> \in Seq(Word)
    BY <1>1
  <2>2. o \in BusOps
    BY <2>1 DEF BusOp, BusOps, OpTypes
  <2>3. o.address = <<target, proxy>> /\ o.data = <<value>>
    BY DEF BusOp
  <2>4. Len(o.address) = 2 /\ Len(o.data) = 1
    BY <2>3
  <2> HIDE DEF o
  <2> QED BY <2>2, <2>4 DEF Performable
<1>3. Perform(Hardware, o)
        = [Hardware EXCEPT !.control = Latched(Latched(Hardware.control, k + 1, target), k, value)]
  <2>1. /\ o.type = "control_plane_write" /\ Len(o.address) # 1
        /\ o.address[1] = target /\ o.address[2] = proxy /\ o.data[1] = value
    BY DEF BusOp
  <2> HIDE DEF o
  <2> QED BY <2>1 DEF Perform
<1>4. DOMAIN stores = {1, 2} /\ stores[1] = <<proxy + 4, target>> /\ stores[2] = <<proxy, value>>
  BY DEF ProxyStores
<1>5. register_address_to_index(proxy + 4) = k + 1
  BY BusAssumption DEF register_address_to_index
<1>6. ASSUME NEW n \in 0 .. ControlWords - 1
      PROVE  Stored(stores)[n] = IF n = k THEN value ELSE IF n = k + 1 THEN target ELSE registers[n]
  <2> DEFINE hits == LastHit(stores, {1, 2}, n)
  <2>1. Stored(stores)[n] = IF hits = {} THEN registers[n] ELSE stores[CHOOSE i \in hits : TRUE][2]
    BY <1>4 DEF Stored
  <2> HIDE DEF stores, k
  <2>2. hits = IF n = k THEN {2} ELSE IF n = k + 1 THEN {1} ELSE {}
    BY <1>1, <1>4, <1>5 DEF LastHit, k
  <2> HIDE DEF hits
  <2> QED BY <1>1, <1>4, <2>1, <2>2
<1>7. Stored(stores) = Latched(Latched(registers, k + 1, target), k, value)
  <2>1. registers \in [0 .. ControlWords - 1 -> Word]
    BY DEF BusTypeOK
  <2>2. Stored(stores) = [n \in 0 .. ControlWords - 1 |-> Stored(stores)[n]]
    BY DEF Stored
  <2> HIDE DEF k, stores
  <2> QED BY <1>1, <1>6, <2>1, <2>2 DEF Latched
<1>8. Perform(Hardware, o) = [control |-> Stored(stores), rom |-> fCore]
  <2> HIDE DEF k, stores, o
  <2> QED BY <1>3, <1>7 DEF Hardware
<1> QED BY <1>2, <1>8, ReplayOne, HardwareIsMachine

LEMMA ReplayProgram ==
  ASSUME BusTypeOK, NEW address \in Nat, NEW program \in Seq(Word),
         ~sink_mode, load_program(address, program), up'
  PROVE  /\ operations' = operations \o <<BusOp(<<address>>, program, "rom_plane_write")>>
         /\ Replay(Hardware, <<BusOp(<<address>>, program, "rom_plane_write")>>)
              = [control |-> registers, rom |-> fCore']
<1> DEFINE o == BusOp(<<address>>, program, "rom_plane_write")
           written == {i \in DOMAIN program : \A j \in 1 .. i : CoreMapped(address, j - 1)}
           at == fcore_address_to_index(address)
<1>1. at \in Int
  BY BusAssumption DEF fcore_address_to_index
<1>2. written = DOMAIN program
  BY DEF load_program
<1>3. operations' = operations \o <<o>>
  <2>1. operations' = Append(operations, o) /\ operations \in Seq(BusOps)
    BY <1>2 DEF load_program, BusTypeOK
  <2>2. o \in BusOps
    BY DEF BusOp, BusOps, OpTypes
  <2> HIDE DEF o
  <2> QED BY <2>1, <2>2, Appending
<1>4. fCore' = [k \in 0 .. CoreWords - 1 |->
                  IF \E i \in DOMAIN program : at + i - 1 = k THEN program[k - at + 1] ELSE fCore[k]]
  BY <1>2 DEF load_program
<1>5. \A k \in 0 .. CoreWords - 1 :
        (\E i \in DOMAIN program : at + i - 1 = k) <=> k - at \in 0 .. Len(program) - 1
  <2> HIDE DEF at
  <2>1. DOMAIN program = 1 .. Len(program) /\ Len(program) \in Nat
    OBVIOUS
  <2>2. ASSUME NEW k \in 0 .. CoreWords - 1, k - at \in 0 .. Len(program) - 1
        PROVE  \E i \in DOMAIN program : at + i - 1 = k
    <3>1. k - at + 1 \in DOMAIN program /\ at + (k - at + 1) - 1 = k
      BY <1>1, <2>1, <2>2
    <3> QED BY <3>1
  <2> QED BY <1>1, <2>1, <2>2
<1>6. o \in Performable
  <2>1. <<address>> \in Seq(Nat) /\ Len(<<address>>) = 1
    OBVIOUS
  <2> QED BY <2>1 DEF BusOp, BusOps, OpTypes, Performable
<1>7. Perform(Hardware, o) = [Hardware EXCEPT !.rom = [k \in DOMAIN Hardware.rom |->
            IF k - at \in 0 .. Len(program) - 1 THEN program[k - at + 1] ELSE Hardware.rom[k]]]
  <2>1. o.type = "rom_plane_write" /\ o.address[1] = address /\ o.data = program
    BY DEF BusOp
  <2> HIDE DEF o
  <2> QED BY <2>1 DEF Perform
<1>8. DOMAIN Hardware.rom = 0 .. CoreWords - 1 /\ Hardware.rom = fCore
  BY DEF Hardware, BusTypeOK
<1>9. Perform(Hardware, o) = [control |-> registers, rom |-> fCore']
  <2> HIDE DEF o, at
  <2>1. [k \in DOMAIN Hardware.rom |->
            IF k - at \in 0 .. Len(program) - 1 THEN program[k - at + 1] ELSE Hardware.rom[k]] = fCore'
    BY <1>4, <1>5, <1>8
  <2>2. Hardware = [control |-> registers, rom |-> fCore]
    BY DEF Hardware
  <2> QED BY <1>7, <2>1, <2>2
<1> QED BY <1>3, <1>6, <1>9, ReplayOne, HardwareIsMachine

\* What a step has logged.
LEMMA LoggedIsNew ==
  ASSUME operations \in Seq(BusOps), NEW logged \in Seq(BusOps), operations' = operations \o logged
  PROVE  NewOperations = logged
<1>1. /\ Len(operations') = Len(operations) + Len(logged)
      /\ \A i \in 1 .. Len(operations) : operations'[i] = operations[i]
      /\ \A i \in 1 .. Len(logged) : operations'[Len(operations) + i] = logged[i]
      /\ operations' \in Seq(BusOps)
  OBVIOUS
<1>2. IsPrefix(operations, operations')
  BY <1>1 DEF IsPrefix
<1>3. SubSeq(operations', Len(operations) + 1, Len(operations')) = logged
  BY <1>1
<1> QED BY <1>2, <1>3 DEF NewOperations

LEMMA NothingIsNew ==
  ASSUME operations \in Seq(BusOps), operations' = operations \/ operations' = <<>>
  PROVE  NewOperations = <<>>
<1>1. CASE operations' = operations
  <2>1. operations' = operations \o <<>> /\ <<>> \in Seq(BusOps)
    BY <1>1, Appending
  <2> QED BY <2>1, LoggedIsNew
<1>2. CASE operations' = <<>> /\ operations # <<>>
  <2>1. Len(operations') = 0 /\ Len(operations) # 0
    BY <1>2
  <2> QED BY <2>1 DEF NewOperations, IsPrefix
<1> QED BY <1>1, <1>2

\* What one step of a live driver does to the hardware, and what it logs.
AsLogged == Hardware' = IF sink_mode THEN Hardware ELSE Replay(Hardware, NewOperations)

\* A step that neither logs anything nor changes the hardware.
LEMMA QuietFollows ==
  ASSUME BusTypeOK, UNCHANGED hardwareVars, operations' = operations \/ operations' = <<>>
  PROVE  AsLogged
<1>1. NewOperations = <<>>
  BY NothingIsNew DEF BusTypeOK
<1>2. Hardware' = Hardware
  BY DEF Hardware, hardwareVars
<1> QED BY <1>1, <1>2, ReplayNone, HardwareIsMachine DEF AsLogged

LEMMA DirectWritesFollow ==
  ASSUME BusTypeOK, NEW stores \in Stores, write_direct_all(stores), up'
  PROVE  AsLogged
<1>1. CASE ~fpga_loaded
  BY <1>1, QuietFollows DEF write_direct_all, busVars, hardwareVars
<1>2. CASE fpga_loaded
  <2>1. write_registers(DirectLog(stores), stores)
    BY <1>2 DEF write_direct_all, DirectLog
  <2>2. fCore' = fCore /\ operations' = operations \o DirectLog(stores)
    BY <2>1 DEF write_registers
  <2>3. CASE sink_mode
    BY <2>1, <2>2, <2>3 DEF write_registers, Hardware, AsLogged
  <2>4. CASE ~sink_mode
    <3>1. registers' = Stored(stores) /\ Performed(stores) = DOMAIN stores
      BY <2>1, <2>4 DEF write_registers
    <3>2. DirectLog(stores) \in Seq(BusOps)
      <4>1. PICK N \in Nat : DOMAIN stores = 1 .. N
        BY DEF Stores
      <4>2. ASSUME NEW i \in 1 .. N PROVE DirectLog(stores)[i] \in BusOps
        <5>1. stores[i][1] \in Nat /\ stores[i][2] \in Word
          BY <4>1 DEF Stores
        <5>2. DirectLog(stores)[i] = BusOp(<<stores[i][1]>>, <<stores[i][2]>>, "control_plane_write")
          BY <4>1 DEF DirectLog
        <5> QED BY <5>1, <5>2, DirectIsPerformable DEF Performable
      <4>3. DirectLog(stores) = [i \in 1 .. N |-> DirectLog(stores)[i]]
        BY <4>1 DEF DirectLog
      <4> QED BY <4>2, <4>3
    <3>3. NewOperations = DirectLog(stores)
      BY <2>2, <3>2, LoggedIsNew DEF BusTypeOK
    <3>4. Hardware' = [control |-> Stored(stores), rom |-> fCore]
      BY <2>2, <3>1 DEF Hardware
    <3>5. Replay(Hardware, DirectLog(stores)) = [control |-> Stored(stores), rom |-> fCore]
      BY <3>1, ReplayWrites
    <3> QED BY <2>4, <3>3, <3>4, <3>5 DEF AsLogged
  <2> QED BY <2>3, <2>4
<1> QED BY <1>1, <1>2

LEMMA DirectWriteFollows ==
  ASSUME BusTypeOK, NEW address \in Nat, NEW value \in Word, write_direct(address, value), up'
  PROVE  AsLogged
<1>1. <<<<address, value>>>> \in Stores
  BY DEF Stores
<1> QED BY <1>1, DirectWritesFollow DEF write_direct

LEMMA ProxiedWriteFollows ==
  ASSUME BusTypeOK, NEW proxy \in Nat, NEW target \in Word, NEW value \in Word,
         write_proxied(proxy, target, value), up'
  PROVE  AsLogged
<1> DEFINE logged == <<BusOp(<<target, proxy>>, <<value>>, "control_plane_write")>>
           stores == ProxyStores(target, proxy, value)
<1>1. CASE ~fpga_loaded
  BY <1>1, QuietFollows DEF write_proxied, busVars, hardwareVars
<1>2. CASE fpga_loaded
  <2>1. write_registers(logged, stores)
    BY <1>2 DEF write_proxied
  <2>2. logged \in Seq(BusOps)
    BY BusAssumption DEF BusOp, BusOps, OpTypes, Word
  <2>3. Performed(stores) = DOMAIN stores
          => Replay(Hardware, logged) = [control |-> Stored(stores), rom |-> fCore]
    BY ReplayProxied
  <2> HIDE DEF logged, stores
  <2>4. fCore' = fCore /\ operations' = operations \o logged
    BY <2>1 DEF write_registers
  <2>5. CASE sink_mode
    BY <2>1, <2>4, <2>5 DEF write_registers, Hardware, AsLogged
  <2>6. CASE ~sink_mode
    <3>1. registers' = Stored(stores) /\ Performed(stores) = DOMAIN stores
      BY <2>1, <2>6 DEF write_registers
    <3>2. NewOperations = logged
      BY <2>2, <2>4, LoggedIsNew DEF BusTypeOK
    <3>3. Hardware' = [control |-> Stored(stores), rom |-> fCore]
      BY <2>4, <3>1 DEF Hardware
    <3> QED BY <2>3, <2>6, <3>1, <3>2, <3>3 DEF AsLogged
  <2> QED BY <2>5, <2>6
<1> QED BY <1>1, <1>2

LEMMA ReadFollows ==
  ASSUME BusTypeOK, NEW address \in Nat, read_direct(address)
  PROVE  AsLogged
<1> DEFINE o == BusOp(<<address>>, <<0>>, "control_plane_read")
<1>1. CASE ~fpga_loaded
  BY <1>1, QuietFollows DEF read_direct, busVars, hardwareVars
<1>2. CASE fpga_loaded
  <2>1. o \in BusOps /\ o.type = "control_plane_read" /\ o.address = <<address>>
    BY BusAssumption DEF BusOp, BusOps, OpTypes, Word
  <2>2. o \in Performable
    <3>1. Len(o.address) = 1
      BY <2>1
    <3> HIDE DEF o
    <3> QED BY <2>1, <3>1 DEF Performable
  <2>3. operations' = Append(operations, o) /\ UNCHANGED hardwareVars
    BY <1>2 DEF read_direct, read_register
  <2> HIDE DEF o
  <2>4. operations' = operations \o <<o>> /\ <<o>> \in Seq(BusOps)
    BY <2>1, <2>3, Appending DEF BusTypeOK
  <2>5. NewOperations = <<o>>
    BY <2>4, LoggedIsNew DEF BusTypeOK
  <2>6. Hardware' = Hardware
    BY <2>3 DEF Hardware, hardwareVars
  <2>7. Perform(Hardware, o) = Hardware
    BY <2>1 DEF Perform
  <2> QED BY <2>2, <2>5, <2>6, <2>7, ReplayOne, HardwareIsMachine DEF AsLogged
<1> QED BY <1>1, <1>2

LEMMA ProgramFollows ==
  ASSUME BusTypeOK, NEW address \in Nat, NEW program \in Seq(Word),
         load_program(address, program), up'
  PROVE  AsLogged
<1>1. CASE sink_mode
  BY <1>1 DEF load_program, Hardware, AsLogged
<1>2. CASE ~sink_mode
  <2> DEFINE o == BusOp(<<address>>, program, "rom_plane_write")
  <2>1. operations' = operations \o <<o>>
    BY <1>2, ReplayProgram
  <2>2. Replay(Hardware, <<o>>) = [control |-> registers, rom |-> fCore']
    BY <1>2, ReplayProgram
  <2>3. o \in BusOps
    BY DEF BusOp, BusOps, OpTypes
  <2>4. registers' = registers
    BY DEF load_program
  <2> HIDE DEF o
  <2>5. NewOperations = <<o>>
    <3>1. <<o>> \in Seq(BusOps)
      BY <2>3
    <3> QED BY <2>1, <3>1, LoggedIsNew DEF BusTypeOK
  <2> QED BY <1>2, <2>2, <2>4, <2>5 DEF Hardware, AsLogged
<1> QED BY <1>1, <1>2

\* Taps and their indices alternate.
LEMMA FilterFollows ==
  ASSUME BusTypeOK, NEW address \in Nat, NEW taps \in Seq(Word), apply_filter(address, taps), up'
  PROVE  AsLogged
<1> DEFINE store(n) == IF n % 2 = 1 THEN <<address, taps[(n + 1) \div 2]>>
                                    ELSE <<address + 4, (n \div 2 - 1) % WordModulus>>
<1>1. [n \in 1 .. 2 * Len(taps) |-> store(n)] \in Stores
  BY FilterStores
<1> QED BY <1>1, DirectWritesFollow DEF apply_filter

----------------------------------------------------------------------------
(* Positions *)

\* Every position of a set is the n-th of it for one n.
LEMMA NthPosition ==
  ASSUME NEW n \in Nat, NEW positions \in SUBSET (1 .. n), NEW i \in positions
  PROVE  LET rank == Cardinality(positions \cap (1 .. i))
         IN rank \in 1 .. Cardinality(positions) /\ Nth(positions, rank) = i
<1> DEFINE upTo(j) == positions \cap (1 .. j)
<1>1. IsFiniteSet(positions) /\ Cardinality(positions) \in Nat
  <2>1. IsFiniteSet(1 .. n)
    BY FS_Interval
  <2> QED BY <2>1, FS_Subset, FS_CardinalityType
<1>2. \A j : /\ IsFiniteSet(upTo(j)) /\ Cardinality(upTo(j)) \in Nat
             /\ Cardinality(upTo(j)) <= Cardinality(positions)
  BY <1>1, FS_Subset, FS_CardinalityType
<1>3. \A j \in positions : j \in upTo(j) /\ j \in Nat
  OBVIOUS
<1>4. ASSUME NEW j \in positions, NEW k \in positions, j < k
      PROVE  Cardinality(upTo(j)) # Cardinality(upTo(k))
  <2>1. upTo(j) \subseteq upTo(k) /\ k \notin upTo(j) /\ k \in upTo(k)
    BY <1>3, <1>4
  <2> HIDE DEF upTo
  <2> QED BY <1>2, <2>1, FS_Subset
<1>5. Cardinality(upTo(i)) # 0
  <2> HIDE DEF upTo
  <2> QED BY <1>2, <1>3, FS_EmptySet
<1>6. \A j \in positions : Cardinality(upTo(j)) = Cardinality(upTo(i)) => j = i
  BY <1>3, <1>4
<1>7. Nth(positions, Cardinality(upTo(i))) = i
  BY <1>6, Zenon DEF Nth
<1> QED BY <1>1, <1>2, <1>5, <1>7

\* The n-th position of a set is one of it, with n of them up to it.
LEMMA NthIsPosition ==
  ASSUME NEW n \in Nat, NEW positions \in SUBSET (1 .. n), NEW m \in 1 .. Cardinality(positions)
  PROVE  /\ Nth(positions, m) \in positions
         /\ Cardinality(positions \cap (1 .. Nth(positions, m))) = m
<1> DEFINE rank(i) == Cardinality(positions \cap (1 .. i))
           f == [i \in positions |-> rank(i)]
<1>1. IsFiniteSet(positions) /\ Cardinality(positions) \in Nat
  <2>1. IsFiniteSet(1 .. n)
    BY FS_Interval
  <2> QED BY <2>1, FS_Subset, FS_CardinalityType
<1>2. \A i \in positions : rank(i) \in 1 .. Cardinality(positions) /\ Nth(positions, rank(i)) = i
  BY NthPosition
<1> HIDE DEF rank
<1>3. f \in Injection(positions, 1 .. Cardinality(positions))
  <2>1. \A i \in positions : f[i] = rank(i)
    OBVIOUS
  <2>2. f \in [positions -> 1 .. Cardinality(positions)]
    BY <1>2
  <2>3. DOMAIN f = positions
    OBVIOUS
  <2> HIDE DEF f
  <2>4. \A i, j \in DOMAIN f : f[i] = f[j] => i = j
    BY <1>2, <2>1, <2>3
  <2> QED BY <2>2, <2>4 DEF Injection, IsInjective
<1>4. IsFiniteSet(1 .. Cardinality(positions)) /\ Cardinality(1 .. Cardinality(positions)) = Cardinality(positions)
  BY <1>1, FS_Interval
<1>5. f \in Surjection(positions, 1 .. Cardinality(positions))
  BY <1>3, <1>4, FS_Injection
<1>6. PICK i \in positions : f[i] = m
  BY <1>5 DEF Surjection
<1>7. rank(i) = m /\ Nth(positions, m) = i
  BY <1>2, <1>6
<1> QED BY <1>7 DEF rank

\* A sequence of sequences is flattened one after the other.
Sequences(seqs, N, S) == seqs = [n \in 1 .. N |-> seqs[n]] /\ \A n \in 1 .. N : seqs[n] \in Seq(S)
Flattens(u, seqs, N) ==
  /\ u[0] = <<>> /\ u[N] = FlattenSeq(seqs)
  /\ \A n \in 1 .. N : u[n] = u[n - 1] \o seqs[n]

LEMMA FlattenSteps ==
  ASSUME NEW S, NEW N \in Nat, NEW seqs, Sequences(seqs, N, S)
  PROVE  \E u \in [0 .. N -> Seq(S)] : Flattens(u, seqs, N)
<1> USE DEF Sequences, Flattens
<1>0. DOMAIN seqs = 1 .. N /\ Len(seqs) = N
  OBVIOUS
<1>1. CASE N = 0
  <2>1. seqs = <<>>
    BY <1>1
  <2>2. FlattenSeq(seqs) = <<>>
    BY <1>0, <1>1, <2>1 DEF FlattenSeq
  <2> DEFINE u == [n \in 0 .. N |-> <<>>]
  <2>3. u \in [0 .. N -> Seq(S)] /\ u[0] = <<>> /\ u[N] = <<>>
    BY <1>1
  <2>4. \A n \in 1 .. N : FALSE
    BY <1>1
  <2> HIDE DEF u
  <2> QED BY <2>2, <2>3, <2>4
<1>2. CASE N # 0
  <2> DEFINE f == CHOOSE f : f = [i \in 1 .. Len(seqs) |->
                    IF i = 1 THEN seqs[i] ELSE f[i - 1] \o seqs[i]]
             base == <<>>
             op == [x \in Seq(S) \X Seq(S) |-> x[1] \o x[2]]
  <2>1. FlattenSeq(seqs) = f[N]
    BY <1>0, <1>2 DEF FlattenSeq
  <2>2. PICK g \in [SUBSET (1 .. N) -> Seq(S)] : IsFold(g, N, seqs, base, op)
    <3>1. op \in [Seq(S) \X Seq(S) -> Seq(S)]
      <4>1. ASSUME NEW x \in Seq(S) \X Seq(S) PROVE x[1] \o x[2] \in Seq(S)
        <5>1. x[1] \in Seq(S) /\ x[2] \in Seq(S)
          OBVIOUS
        <5> QED BY <5>1
      <4> QED BY <4>1
    <3>2. base \in Seq(S)
      OBVIOUS
    <3> HIDE DEF base, op
    <3>3. FoldOf(N, seqs, Seq(S), Seq(S), base, op)
      BY <3>1, <3>2 DEF FoldOf
    <3> QED BY <3>3, SequenceFold, Zenon
  <2> HIDE DEF base
  <2>3. g[1 .. 0] = base /\ \A n \in 1 .. N : g[1 .. n] = g[1 .. n - 1] \o seqs[n]
    <3>1. 1 .. 0 = {} /\ 1 .. 0 \in SUBSET (1 .. N)
      OBVIOUS
    <3>2. g[1 .. 0] = base
      BY <2>2, <3>1 DEF IsFold
    <3>3. ASSUME NEW n \in 1 .. N PROVE g[1 .. n] = g[1 .. n - 1] \o seqs[n]
      <4>1. 1 .. n \in SUBSET (1 .. N) /\ 1 .. n - 1 \in SUBSET (1 .. N) /\ 1 .. n # {}
        <5>1. n \in 1 .. n /\ \A k \in 1 .. n : k \in 1 .. N
          OBVIOUS
        <5>2. \A k \in 1 .. n - 1 : k \in 1 .. N
          OBVIOUS
        <5> QED BY <5>1, <5>2
      <4>2. Max(1 .. n) = n /\ (1 .. n) \ {n} = 1 .. n - 1
        BY FirstNumbers
      <4>3. <<g[1 .. n - 1], seqs[n]>> \in Seq(S) \X Seq(S)
        BY <4>1
      <4>4. op[<<g[1 .. n - 1], seqs[n]>>] = g[1 .. n - 1] \o seqs[n]
        BY <4>3
      <4> HIDE DEF op
      <4> QED BY <2>2, <4>1, <4>2, <4>4 DEF IsFold
    <3> QED BY <3>2, <3>3
  <2> DEFINE u == [n \in 0 .. N |-> g[1 .. n]]
  <2>4. /\ u \in [0 .. N -> Seq(S)] /\ u[0] = <<>>
        /\ \A n \in 1 .. N : u[n] = u[n - 1] \o seqs[n]
    <3>1. \A n \in 0 .. N : 1 .. n \in SUBSET (1 .. N)
      <4>1. \A n \in 0 .. N : \A k \in 1 .. n : k \in 1 .. N
        OBVIOUS
      <4> QED BY <4>1
    <3>2. \A n \in 0 .. N : g[1 .. n] \in Seq(S)
      BY <3>1
    <3>3. 0 \in 0 .. N /\ \A n \in 1 .. N : n \in 0 .. N /\ n - 1 \in 0 .. N
      OBVIOUS
    <3>4. u \in [0 .. N -> Seq(S)]
      BY <3>2
    <3>5. u[0] = <<>>
      BY <2>3, <3>3 DEF base
    <3> HIDE DEF op
    <3> QED BY <2>3, <3>3, <3>4, <3>5
  <2> HIDE DEF u, f
  <2> DEFINE h == [i \in 1 .. Len(seqs) |-> u[i]]
  <2>5. h = [i \in 1 .. Len(seqs) |-> IF i = 1 THEN seqs[i] ELSE h[i - 1] \o seqs[i]]
    <3>1. ASSUME NEW i \in 1 .. N
          PROVE  u[i] = IF i = 1 THEN seqs[i] ELSE h[i - 1] \o seqs[i]
      <4>1. CASE i = 1
        <5>1. u[1] = u[0] \o seqs[1] /\ seqs[1] \in Seq(S)
          <6>1. 1 \in 1 .. N /\ 1 - 1 = 0
            BY <4>1
          <6>2. u[1] = u[1 - 1] \o seqs[1]
            BY <2>4, <6>1
          <6> QED BY <6>1, <6>2
        <5>2. <<>> \o seqs[1] = seqs[1]
          BY <5>1
        <5> QED BY <2>4, <4>1, <5>1, <5>2
      <4>2. CASE i # 1
        <5>1. i - 1 \in 1 .. Len(seqs)
          BY <1>0, <4>2
        <5>2. h[i - 1] = u[i - 1]
          BY <5>1
        <5> QED BY <2>4, <4>2, <5>2
      <4> QED BY <4>1, <4>2
    <3> QED BY <1>0, <3>1
  <2> HIDE DEF h
  <2>6. f = [i \in 1 .. Len(seqs) |-> IF i = 1 THEN seqs[i] ELSE f[i - 1] \o seqs[i]]
    BY <2>5 DEF f
  <2>7. \A n \in 1 .. N : f[n] = u[n]
    <3> DEFINE G == {n \in Nat : n \in 1 .. N => f[n] = u[n]}
    <3>1. 0 \in G
      OBVIOUS
    <3>2. ASSUME NEW n \in Nat, n \in G PROVE n + 1 \in G
      <4>1. SUFFICES ASSUME n + 1 \in 1 .. N PROVE f[n + 1] = u[n + 1]
        OBVIOUS
      <4>2. f[n + 1] = IF n + 1 = 1 THEN seqs[n + 1] ELSE f[(n + 1) - 1] \o seqs[n + 1]
        BY <1>0, <2>6, <4>1
      <4>3. u[n + 1] = u[(n + 1) - 1] \o seqs[n + 1]
        BY <2>4, <4>1
      <4>4. CASE n = 0
        <5>1. seqs[1] \in Seq(S) /\ <<>> \o seqs[1] = seqs[1]
          BY <4>1, <4>4
        <5> QED BY <2>4, <4>2, <4>3, <4>4, <5>1
      <4>5. CASE n # 0
        <5>1. n \in 1 .. N /\ (n + 1) - 1 = n
          BY <4>1, <4>5
        <5>2. f[n] = u[n]
          BY <3>2, <5>1
        <5>3. n + 1 # 1
          BY <4>5
        <5>4. f[n + 1] = f[(n + 1) - 1] \o seqs[n + 1]
          BY <4>2, <5>3, Zenon
        <5> QED BY <4>3, <5>1, <5>2, <5>4, Zenon
      <4> QED BY <4>4, <4>5
    <3> HIDE DEF G
    <3>3. \A n \in Nat : n \in G
      BY <3>1, <3>2, AllNumbers
    <3> QED BY <3>3 DEF G
  <2>8. u[N] = FlattenSeq(seqs)
    BY <1>2, <2>1, <2>7
  <2> QED BY <2>4, <2>8
<1> QED BY <1>1, <1>2
=============================================================================
