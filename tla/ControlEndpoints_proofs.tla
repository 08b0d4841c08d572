----------------------- MODULE ControlEndpoints_proofs -----------------------
(***************************************************************************)
(* Proofs about ControlEndpoints: the types, the registers of an unloaded  *)
(* fabric, the hardware as the log performed access by access, and the     *)
(* rendering of a simulation, whose lines perform to what the log does.    *)
(***************************************************************************)
EXTENDS ControlEndpoints, FpgaBridge_proofs

\* Responses come from the commands' own codes or from the death of the process.
LEMMA ResponseType ==
  ASSUME NEW code \in Codes, Respond(code)
  PROVE  response' \in Codes \union Deaths
BY DEF Respond, Deaths

\* register_write, through every branch of its validation.
LEMMA RegisterWriteType ==
  ASSUME TypeOK, NEW r \in WriteRequests, process_single_write_register(r)
  PROVE  TypeOK'
<1> USE EndpointsAssumption DEF TypeOK
<1>1. r.address \in Nat /\ r.value \in Word /\ (r.proxy # Absent => r.proxy \in Nat)
  BY DEF WriteRequests
<1>2. r.address % WordModulus \in Word
  BY <1>1, BusAssumption DEF Word
<1>3. CASE Reject
  BY <1>3 DEF Reject, busVars, BusTypeOK, Codes
<1>4. ASSUME NEW of \in Deaths, Die(of) PROVE TypeOK'
  BY <1>4, AccessControlType DEF Die
<1>5. CASE r.proxy # Absent /\ write_direct(r.address, r.value) /\ Respond("ok")
  BY <1>1, <1>5, DirectWriteType, ResponseType DEF Codes
<1>6. CASE /\ r.proxy # Absent
           /\ write_proxied(r.proxy, r.address % WordModulus, r.value) /\ Respond("ok")
  BY <1>1, <1>2, <1>6, ProxiedWriteType, ResponseType DEF Codes
<1> QED BY <1>3, <1>4, <1>5, <1>6 DEF process_single_write_register, Deaths

\* The state has the types the code declares, for all windows and requests.
THEOREM TypeCorrect == Spec => []TypeOK
<1> USE EndpointsAssumption
<1>1. Init => TypeOK
  BY BusAssumption DEF Init, BusInit, TypeOK, BusTypeOK, Word, Codes
<1>2. ASSUME TypeOK, [Next]_vars PROVE TypeOK'
  <2> USE <1>2
  <2>0. BusTypeOK
    BY DEF TypeOK
  <2>1. CASE RegisterWrite
    BY <2>1, RegisterWriteType DEF RegisterWrite
  <2>2. CASE RegisterRead
    <3>1. PICK a \in Addresses, numeric \in BOOLEAN : process_single_read_register(a, numeric)
      BY <2>2 DEF RegisterRead
    <3>2. CASE Reject
      BY <2>0, <3>2 DEF Reject, busVars, BusTypeOK, TypeOK, Codes
    <3>3. CASE read_direct(a) /\ Respond("ok")
      BY <2>0, <3>3, ReadType, ResponseType DEF TypeOK, Codes
    <3> QED BY <3>1, <3>2, <3>3 DEF process_single_read_register
  <2>3. CASE ApplyFilter
    <3>1. PICK a \in Addresses, taps \in Filters, integral \in BOOLEAN :
            process_apply_filter(a, taps, integral)
      BY <2>3 DEF ApplyFilter
    <3>2. CASE Reject
      BY <2>0, <3>2 DEF Reject, busVars, BusTypeOK, TypeOK, Codes
    <3>3. CASE apply_filter(a, taps) /\ Respond("ok")
      BY <2>0, <3>3, FilterType, ResponseType DEF TypeOK, Codes
    <3> QED BY <3>1, <3>2, <3>3 DEF process_apply_filter
  <2>4. CASE ApplyProgram
    <3>1. PICK a \in Addresses, p \in Programs, integral \in BOOLEAN :
            process_apply_program(a, p, integral)
      BY <2>4 DEF ApplyProgram
    <3>2. CASE Reject
      BY <2>0, <3>2 DEF Reject, busVars, BusTypeOK, TypeOK, Codes
    <3>3. CASE apply_program(a, p) /\ Respond("ok")
      BY <2>0, <3>3, LoadProgramType, ResponseType DEF apply_program, TypeOK, Codes
    <3> QED BY <3>1, <3>2, <3>3 DEF process_apply_program
  <2>5. CASE LoadBitstream
    <3>1. PICK argument \in {"base64", "not_base64", "not_text"}, reported \in BOOLEAN,
               fate \in {"kept", "programmed", "lost"} :
            process_load_bitstream(argument, reported, fate)
      BY <2>5 DEF LoadBitstream
    <3>2. CASE Reject
      BY <2>0, <3>2 DEF Reject, busVars, BusTypeOK, TypeOK, Codes
    <3>3. CASE Die("decode_error")
      BY <2>0, <3>3, AccessControlType DEF Die, TypeOK, Deaths
    <3>4. (IF reported THEN "ok" ELSE "bitstream_load_failed") \in Codes
      BY DEF Codes
    <3>5. CASE /\ load_bitstream(reported, fate)
               /\ Respond(IF reported THEN "ok" ELSE "bitstream_load_failed")
      BY <2>0, <3>4, <3>5, LoadBitstreamType, ResponseType DEF TypeOK
    <3> QED BY <3>1, <3>2, <3>3, <3>5 DEF process_load_bitstream
  <2>6. CASE SetScopeAddress
    <3>1. PICK form \in {"null", "not_object", "not_unsigned", "valid"},
               a \in Addresses, b \in Buffers : process_set_scope_address(form, a, b)
      BY <2>6 DEF SetScopeAddress
    <3>2. b % WordModulus \in Word
      BY BusAssumption DEF Word
    <3>3. CASE UNCHANGED busVars /\ Respond("ok")
      BY <2>0, <3>3 DEF busVars, BusTypeOK, Respond, TypeOK, Codes, Deaths
    <3>4. CASE Die("type_error")
      BY <2>0, <3>4, AccessControlType DEF Die, TypeOK, Deaths
    <3>5. CASE Reject
      BY <2>0, <3>5 DEF Reject, busVars, BusTypeOK, TypeOK, Codes
    <3>6. CASE set_scope_data(a, b) /\ Respond("ok")
      BY <2>0, <3>2, <3>6, DirectWriteType, ResponseType DEF set_scope_data, TypeOK, Codes
    <3> QED BY <3>1, <3>3, <3>4, <3>5, <3>6, Zenon DEF process_set_scope_address
  <2>7. CASE SimulatedAccess
    <3>1. CASE \E a \in Addresses, v \in Values : write_direct(a, v)
      BY <2>0, <2>7, <3>1, DirectWriteType DEF SimulatedAccess, TypeOK
    <3>2. CASE \E a \in Addresses, p \in Programs : apply_program(a, p)
      BY <2>0, <2>7, <3>2, LoadProgramType DEF SimulatedAccess, apply_program, TypeOK
    <3> QED BY <2>7, <3>1, <3>2 DEF SimulatedAccess
  <2>8. CASE BeginSimulation \/ EndSimulation \/ ClearOperations
    BY <2>0, <2>8, AccessControlType
    DEF BeginSimulation, EndSimulation, ClearOperations, TypeOK
  <2>9. CASE Terminate \/ Relaunch
    BY <2>0, <2>9, AccessControlType DEF Terminate, Relaunch, TypeOK, Codes
  <2>10. CASE UNCHANGED vars
    BY <2>0, <2>10 DEF vars, busVars, TypeOK, BusTypeOK
  <2> QED BY <2>1, <2>2, <2>3, <2>4, <2>5, <2>6, <2>7, <2>8, <2>9, <2>10 DEF Next
<1> QED BY <1>1, <1>2, PTL DEF Spec

\* Until the FPGA has been loaded no command but load_bitstream changes a
\* control register, whatever the windows and the requests.
THEOREM RegistersGated == Spec => UnloadedRegistersUntouched
<1>1. ASSUME [Next]_vars, ~fpga_loaded, ~LoadBitstream
      PROVE  UNCHANGED registers
  <2> USE <1>1
  <2>1. CASE RegisterWrite
    BY <2>1 DEF RegisterWrite, process_single_write_register, Reject, Die, process_exit,
                write_direct, write_direct_all, write_proxied, busVars, hardwareVars
  <2>2. CASE RegisterRead
    BY <2>2 DEF RegisterRead, process_single_read_register, read_direct,
                read_register, Reject, hardwareVars, busVars
  <2>3. CASE ApplyFilter
    BY <2>3 DEF ApplyFilter, process_apply_filter, apply_filter, Reject, write_direct_all, busVars
  <2>4. CASE ApplyProgram
    BY <2>4 DEF ApplyProgram, process_apply_program, apply_program, load_program, Reject, busVars
  <2>5. CASE SetScopeAddress
    BY <2>5 DEF SetScopeAddress, process_set_scope_address, set_scope_data, write_direct,
                write_direct_all, Reject, Die, process_exit, hardwareVars, busVars
  <2>6. CASE BeginSimulation \/ EndSimulation \/ ClearOperations \/ Terminate \/ Relaunch
    BY <2>6 DEF BeginSimulation, EndSimulation, ClearOperations, Terminate, Relaunch,
                disable_bus_access, enable_bus_access, clear_operations_vector,
                process_exit, launch, hardwareVars
  <2>7. CASE SimulatedAccess
    BY <2>7 DEF SimulatedAccess, write_direct, write_direct_all, apply_program, load_program, busVars
  <2>8. CASE UNCHANGED vars
    BY <2>8 DEF vars, busVars
  <2> QED BY <2>1, <2>2, <2>3, <2>4, <2>5, <2>6, <2>7, <2>8 DEF Next
<1> QED BY <1>1, PTL DEF Spec, UnloadedRegistersUntouched

\* Except by reprogramming the FPGA, the hardware changes only as the log says.
THEOREM HardwareChangesAsLogged == Spec => HardwareFollowsLog
<1> USE EndpointsAssumption
<1>1. ASSUME TypeOK, [Next]_vars, up, up', ~LoadBitstream
      PROVE  AsLogged
  <2> USE <1>1
  <2>0. BusTypeOK
    BY DEF TypeOK
  <2>1. CASE UNCHANGED busVars
    BY <2>0, <2>1, QuietFollows DEF busVars, hardwareVars
  <2>2. CASE RegisterWrite
    <3>1. PICK r \in WriteRequests : process_single_write_register(r)
      BY <2>2 DEF RegisterWrite
    <3>2. r.address \in Nat /\ r.value \in Word /\ (r.proxy # Absent => r.proxy \in Nat)
      BY DEF WriteRequests
    <3>3. r.address % WordModulus \in Word
      BY <3>2, BusAssumption DEF Word
    <3>4. \/ UNCHANGED busVars \/ process_exit
          \/ write_direct(r.address, r.value)
          \/ r.proxy # Absent /\ write_proxied(r.proxy, r.address % WordModulus, r.value)
      BY <3>1 DEF process_single_write_register, Reject, Die
    <3>5. ~process_exit
      BY DEF process_exit
    <3> QED BY <2>0, <2>1, <3>2, <3>3, <3>4, <3>5, DirectWriteFollows, ProxiedWriteFollows
  <2>3. CASE RegisterRead
    <3>1. PICK a \in Addresses : UNCHANGED busVars \/ read_direct(a)
      BY <2>3 DEF RegisterRead, process_single_read_register, Reject
    <3> QED BY <2>0, <2>1, <3>1, ReadFollows
  <2>4. CASE ApplyFilter
    <3>1. PICK a \in Addresses, taps \in Filters : UNCHANGED busVars \/ apply_filter(a, taps)
      BY <2>4 DEF ApplyFilter, process_apply_filter, Reject
    <3> QED BY <2>0, <2>1, <3>1, FilterFollows
  <2>5. CASE ApplyProgram
    <3>1. PICK a \in Addresses, p \in Programs : UNCHANGED busVars \/ load_program(a, p)
      BY <2>5 DEF ApplyProgram, process_apply_program, apply_program, Reject
    <3> QED BY <2>0, <2>1, <3>1, ProgramFollows
  <2>6. CASE SetScopeAddress
    <3>1. PICK a \in Addresses, b \in Buffers :
            UNCHANGED busVars \/ process_exit \/ write_direct(a, b % WordModulus)
      BY <2>6 DEF SetScopeAddress, process_set_scope_address, set_scope_data, Reject, Die
    <3>2. b % WordModulus \in Word
      BY BusAssumption DEF Word
    <3>3. ~process_exit
      BY DEF process_exit
    <3> QED BY <2>0, <2>1, <3>1, <3>2, <3>3, DirectWriteFollows
  <2>7. CASE SimulatedAccess
    <3>1. \/ \E a \in Addresses, v \in Values : write_direct(a, v)
          \/ \E a \in Addresses, p \in Programs : load_program(a, p)
      BY <2>7 DEF SimulatedAccess, apply_program
    <3> QED BY <2>0, <3>1, DirectWriteFollows, ProgramFollows
  <2>8. CASE BeginSimulation \/ EndSimulation \/ ClearOperations
    BY <2>0, <2>8, QuietFollows
    DEF BeginSimulation, EndSimulation, ClearOperations, disable_bus_access, enable_bus_access,
        clear_operations_vector
  <2>9. ~Terminate /\ ~Relaunch
    BY DEF Terminate, Relaunch, process_exit
  <2>10. CASE UNCHANGED vars
    BY <2>1, <2>10 DEF vars
  <2> QED BY <2>2, <2>3, <2>4, <2>5, <2>6, <2>7, <2>8, <2>9, <2>10 DEF Next
<1>2. TypeOK /\ [Next]_vars
        => [up /\ up' /\ ~LoadBitstream =>
              Hardware' = IF sink_mode THEN Hardware ELSE Replay(Hardware, NewOperations)]_vars
  BY <1>1 DEF AsLogged
<1> QED BY <1>2, TypeCorrect, PTL DEF Spec, HardwareFollowsLog

----------------------------------------------------------------------------
(* The text of a simulation *)

\* Mapping a concatenation.
Mapped(f, s) == [i \in 1 .. Len(s) |-> f[s[i]]]

LEMMA MapOfConcat ==
  ASSUME NEW S, NEW f, NEW a \in Seq(S), NEW b \in Seq(S)
  PROVE  Mapped(f, a \o b) = Mapped(f, a) \o Mapped(f, b)
<1> USE DEF Mapped
<1> DEFINE x == [i \in 1 .. Len(a) |-> f[a[i]]]
           y == [i \in 1 .. Len(b) |-> f[b[i]]]
           T == {f[s] : s \in S}
           z == [i \in 1 .. Len(a \o b) |-> f[(a \o b)[i]]]
<1>1. Len(a) \in Nat /\ Len(b) \in Nat /\ Len(a \o b) = Len(a) + Len(b)
  OBVIOUS
<1>2. x \in Seq(T) /\ Len(x) = Len(a) /\ \A i \in 1 .. Len(a) : x[i] = f[a[i]]
  BY <1>1
<1>3. y \in Seq(T) /\ Len(y) = Len(b) /\ \A i \in 1 .. Len(b) : y[i] = f[b[i]]
  BY <1>1
<1>4. \A i \in 1 .. Len(a) + Len(b) : (a \o b)[i] = IF i <= Len(a) THEN a[i] ELSE b[i - Len(a)]
  OBVIOUS
<1>5. /\ x \o y \in Seq(T) /\ Len(x \o y) = Len(a) + Len(b)
      /\ \A i \in 1 .. Len(a) + Len(b) : (x \o y)[i] = IF i <= Len(a) THEN x[i] ELSE y[i - Len(a)]
  <2> HIDE DEF x, y, T
  <2>1. PICK p \in Seq(T), q \in Seq(T) : p = x /\ q = y
    BY <1>2, <1>3
  <2>2. /\ p \o q \in Seq(T) /\ Len(p \o q) = Len(p) + Len(q)
        /\ \A i \in 1 .. Len(p) + Len(q) : (p \o q)[i] = IF i <= Len(p) THEN p[i] ELSE q[i - Len(p)]
    OBVIOUS
  <2> QED BY <1>2, <1>3, <2>1, <2>2
<1>6. x \o y = [i \in 1 .. Len(a) + Len(b) |-> (x \o y)[i]]
  <2> HIDE DEF x, y, T
  <2>1. PICK p \in Seq(T) : p = x \o y
    BY <1>5
  <2>2. p = [i \in 1 .. Len(p) |-> p[i]]
    OBVIOUS
  <2> QED BY <1>5, <2>1, <2>2
<1>7. z = [i \in 1 .. Len(a) + Len(b) |-> z[i]]
      /\ \A i \in 1 .. Len(a) + Len(b) : z[i] = f[(a \o b)[i]]
  BY <1>1
<1>8. \A i \in 1 .. Len(a) + Len(b) : z[i] = (x \o y)[i]
  <2>1. \A i \in 1 .. Len(a) + Len(b) :
          (i <= Len(a) /\ i \in 1 .. Len(a)) \/ (~(i <= Len(a)) /\ i - Len(a) \in 1 .. Len(b))
    <3>1. PICK n \in Nat, m \in Nat : n = Len(a) /\ m = Len(b)
      BY <1>1
    <3> HIDE DEF x, y, z, T
    <3>2. ASSUME NEW i \in 1 .. n + m
          PROVE  (i <= n /\ i \in 1 .. n) \/ (~(i <= n) /\ i - n \in 1 .. m)
      <4>1. CASE i <= n
        BY <3>1, <4>1
      <4>2. CASE ~(i <= n)
        BY <3>1, <4>2
      <4> QED BY <4>1, <4>2
    <3> QED BY <3>1, <3>2
  <2> HIDE DEF x, y, z, T
  <2> SUFFICES ASSUME NEW i \in 1 .. Len(a) + Len(b) PROVE z[i] = (x \o y)[i]
    OBVIOUS
  <2>2. /\ z[i] = f[(a \o b)[i]]
        /\ (a \o b)[i] = IF i <= Len(a) THEN a[i] ELSE b[i - Len(a)]
        /\ (x \o y)[i] = IF i <= Len(a) THEN x[i] ELSE y[i - Len(a)]
    BY <1>4, <1>5, <1>7
  <2>3. CASE i <= Len(a) /\ i \in 1 .. Len(a)
    <3>1. x[i] = f[a[i]]
      BY <1>2, <2>3
    <3> QED BY <2>2, <2>3, <3>1, Zenon
  <2>4. CASE ~(i <= Len(a)) /\ i - Len(a) \in 1 .. Len(b)
    <3>1. y[i - Len(a)] = f[b[i - Len(a)]]
      BY <1>3, <2>4, Zenon
    <3> QED BY <2>2, <2>4, <3>1, Zenon
  <2> QED BY <2>1, <2>3, <2>4
<1> HIDE DEF x, y, z, T
<1>9. z = x \o y
  BY <1>6, <1>7, <1>8
<1> QED BY <1>9 DEF x, y, z

\* ReplaySteps in terms of what a log is and what performing it is.
IsLog(ops, N) == DOMAIN ops = 1 .. N /\ \A i \in 1 .. N : ops[i] \in Performable
Performs(t, hw, ops, N) ==
  /\ t[0] = hw /\ t[N] = Replay(hw, ops)
  /\ \A i \in 1 .. N : t[i] = Perform(t[i - 1], ops[i])

LEMMA LogSteps ==
  ASSUME NEW hw \in Machines, NEW N \in Nat, NEW ops, IsLog(ops, N)
  PROVE  \E t \in [0 .. N -> Machines] : Performs(t, hw, ops, N)
<1>1. DOMAIN ops = 1 .. N /\ \A i \in 1 .. N : ops[i] \in Performable
  BY DEF IsLog
<1>2. \E t \in [0 .. N -> Machines] :
        /\ t[0] = hw /\ t[N] = Replay(hw, ops)
        /\ \A i \in 1 .. N : t[i] = Perform(t[i - 1], ops[i])
  BY <1>1, ReplaySteps
<1> QED BY <1>2 DEF Performs

\* Performing a log and then another.
LEMMA ReplayMore ==
  ASSUME NEW hw \in Machines, NEW s \in Seq(Performable), NEW more \in Seq(Performable)
  PROVE  /\ Replay(hw, s) \in Machines
         /\ Replay(hw, s \o more) = Replay(Replay(hw, s), more)
<1> DEFINE N == Len(s)
           M == Len(more)
           all == s \o more
<1>1. N \in Nat /\ M \in Nat /\ DOMAIN s = 1 .. N /\ DOMAIN more = 1 .. M /\ DOMAIN all = 1 .. N + M
  OBVIOUS
<1>2. /\ \A i \in 1 .. N : s[i] \in Performable /\ all[i] = s[i]
      /\ \A i \in 1 .. M : more[i] \in Performable /\ all[N + i] = more[i]
  OBVIOUS
<1>3. \A i \in 1 .. N + M : all[i] \in Performable
  OBVIOUS
<1> HIDE DEF N, M, all
<1>4. PICK t \in [0 .. N -> Machines] : Performs(t, hw, s, N)
  <2>1. IsLog(s, N)
    BY <1>1, <1>2 DEF IsLog
  <2> QED BY <1>1, <2>1, LogSteps
<1>5. t[N] \in Machines
  BY <1>1
<1>6. PICK v \in [0 .. M -> Machines] : Performs(v, t[N], more, M)
  <2>1. IsLog(more, M)
    BY <1>1, <1>2 DEF IsLog
  <2> QED BY <1>1, <1>5, <2>1, LogSteps
<1>7. PICK w \in [0 .. N + M -> Machines] : Performs(w, hw, all, N + M)
  <2>1. IsLog(all, N + M) /\ N + M \in Nat
    BY <1>1, <1>3 DEF IsLog
  <2> QED BY <2>1, LogSteps
<1> USE DEF Performs
<1> DEFINE G == {i \in Nat : i <= N => w[i] = t[i]}
           H == {i \in Nat : i <= M => w[N + i] = v[i]}
<1>8. \A i \in Nat : i \in G
  <2>1. 0 \in G
    BY <1>4, <1>7
  <2>2. ASSUME NEW i \in Nat, i \in G PROVE i + 1 \in G
    <3>1. SUFFICES ASSUME i + 1 <= N PROVE w[i + 1] = t[i + 1]
      OBVIOUS
    <3>2. w[i] = t[i] /\ i + 1 \in 1 .. N /\ i + 1 \in 1 .. N + M /\ (i + 1) - 1 = i
      BY <1>1, <2>2, <3>1
    <3>3. w[i + 1] = Perform(w[(i + 1) - 1], all[i + 1]) /\ t[i + 1] = Perform(t[(i + 1) - 1], s[i + 1])
      BY <1>4, <1>7, <3>2
    <3> QED BY <1>2, <3>2, <3>3
  <2> HIDE DEF G
  <2> QED BY <2>1, <2>2, AllNumbers
<1>9. w[N] = t[N]
  BY <1>1, <1>8
<1>10. \A i \in Nat : i \in H
  <2>1. 0 \in H
    <3>1. N + 0 = N
      BY <1>1
    <3> QED BY <1>6, <1>9, <3>1
  <2>2. ASSUME NEW i \in Nat, i \in H PROVE i + 1 \in H
    <3>1. SUFFICES ASSUME i + 1 <= M PROVE w[N + (i + 1)] = v[i + 1]
      OBVIOUS
    <3>2. w[N + i] = v[i]
      BY <1>1, <2>2, <3>1
    <3>3. /\ i + 1 \in 1 .. M /\ N + (i + 1) \in 1 .. N + M /\ (i + 1) - 1 = i
          /\ (N + (i + 1)) - 1 = N + i
      BY <1>1, <3>1
    <3>4. w[N + (i + 1)] = Perform(w[(N + (i + 1)) - 1], all[N + (i + 1)])
      BY <1>7, <3>3
    <3>5. v[i + 1] = Perform(v[(i + 1) - 1], more[i + 1])
      BY <1>6, <3>3
    <3>6. all[N + (i + 1)] = more[i + 1]
      BY <1>2, <3>3
    <3> QED BY <3>2, <3>3, <3>4, <3>5, <3>6
  <2> HIDE DEF H
  <2> QED BY <2>1, <2>2, AllNumbers
<1>11. w[N + M] = v[M]
  BY <1>1, <1>10
<1> QED BY <1>4, <1>5, <1>6, <1>7, <1>11 DEF all

\* What an access does to each window.
RomAfter(rom, o) ==
  IF o.type = "rom_plane_write"
    THEN [k \in DOMAIN rom |->
            IF k - fcore_address_to_index(o.address[1]) \in 0 .. Len(o.data) - 1
              THEN o.data[k - fcore_address_to_index(o.address[1]) + 1] ELSE rom[k]]
    ELSE rom
ControlAfter(control, o) ==
  IF o.type = "control_plane_write"
    THEN Latched(control, register_address_to_index(o.address[1]), o.data[1])
    ELSE control

Plain(o) == o \in Performable /\ Len(o.address) = 1

LEMMA PerformParts ==
  ASSUME NEW hw \in Machines, NEW o, Plain(o)
  PROVE  /\ Perform(hw, o) \in Machines
         /\ Perform(hw, o).control = ControlAfter(hw.control, o)
         /\ Perform(hw, o).rom = RomAfter(hw.rom, o)
<1>1. o.type \in OpTypes
  BY DEF Plain, Performable, BusOps
<1>2. CASE o.type = "control_plane_read"
  BY <1>2, PerformType DEF Plain, Perform, ControlAfter, RomAfter
<1>3. CASE o.type = "rom_plane_write"
  BY <1>3, PerformType DEF Plain, Perform, ControlAfter, RomAfter, Machines
<1>4. CASE o.type = "control_plane_write"
  BY <1>4, PerformType DEF Plain, Perform, ControlAfter, RomAfter, Machines
<1> QED BY <1>1, <1>2, <1>3, <1>4 DEF OpTypes

\* The rendered lines of a program, performed as writes of one word each, load the program.
ProgramLines(o) ==
  IF o.type = "rom_plane_write"
    THEN [i \in DOMAIN o.data |-> <<o.address[1] + 4 * (i - 1), o.data[i]>>]
    ELSE <<>>

LEMMA LinesLoadProgram ==
  ASSUME NEW hw \in Machines, NEW o, Plain(o)
  PROVE  /\ AsWrites(ProgramLines(o), "rom_plane_write") \in Seq(Performable)
         /\ Replay(hw, AsWrites(ProgramLines(o), "rom_plane_write")) \in Machines
         /\ Replay(hw, AsWrites(ProgramLines(o), "rom_plane_write")).control = hw.control
         /\ Replay(hw, AsWrites(ProgramLines(o), "rom_plane_write")).rom = RomAfter(hw.rom, o)
<1> DEFINE writes == AsWrites(ProgramLines(o), "rom_plane_write")
<1>1. CASE o.type # "rom_plane_write"
  <2>1. writes = <<>>
    BY <1>1 DEF ProgramLines, AsWrites
  <2> HIDE DEF writes
  <2>2. writes \in Seq(Performable) /\ Replay(hw, writes) = hw
    BY <2>1, ReplayNone
  <2> QED BY <1>1, <2>2 DEF RomAfter, writes
<1>2. CASE o.type = "rom_plane_write"
  <2>1. PICK N \in Nat : N = Len(o.data) /\ DOMAIN o.data = 1 .. N
    BY DEF Plain, Performable, BusOps
  <2>2. PICK address \in Nat : address = o.address[1]
    BY DEF Plain, Performable, BusOps
  <2> DEFINE at == fcore_address_to_index(address)
  <2>3. at \in Int /\ \A i \in Nat : fcore_address_to_index(address + 4 * i) = at + i
    BY <2>2, BusAssumption DEF fcore_address_to_index
  <2>4. \A i \in 1 .. N : o.data[i] \in Word
    BY <2>1 DEF Plain, Performable, BusOps
  <2>5. DOMAIN writes = 1 .. N
    BY <1>2, <2>1 DEF ProgramLines, AsWrites
  <2>6. ASSUME NEW i \in 1 .. N
        PROVE  /\ writes[i] \in Performable /\ writes[i].type = "rom_plane_write"
               /\ Len(writes[i].address) = 1 /\ writes[i].address[1] = address + 4 * (i - 1)
               /\ Len(writes[i].data) = 1 /\ writes[i].data[1] = o.data[i]
    <3>1. writes[i] = BusOp(<<address + 4 * (i - 1)>>, <<o.data[i]>>, "rom_plane_write")
      BY <1>2, <2>1, <2>2 DEF ProgramLines, AsWrites
    <3> HIDE DEF writes
    <3>2. <<address + 4 * (i - 1)>> \in Seq(Nat) /\ <<o.data[i]>> \in Seq(Word)
      <4>1. address + 4 * (i - 1) \in Nat /\ o.data[i] \in Word
        BY <2>4
      <4> QED BY <4>1
    <3>3. writes[i] \in BusOps
      BY <3>1, <3>2 DEF BusOp, BusOps, OpTypes
    <3>4. /\ writes[i].address = <<address + 4 * (i - 1)>> /\ writes[i].data = <<o.data[i]>>
          /\ writes[i].type = "rom_plane_write"
      BY <3>1 DEF BusOp
    <3>5. /\ Len(writes[i].address) = 1 /\ writes[i].address[1] = address + 4 * (i - 1)
          /\ Len(writes[i].data) = 1 /\ writes[i].data[1] = o.data[i]
      BY <3>4
    <3>6. writes[i] \in Performable
      BY <3>3, <3>4, <3>5 DEF Performable
    <3> QED BY <3>4, <3>5, <3>6
  <2>7. writes = [i \in 1 .. N |-> writes[i]]
    BY <2>5 DEF AsWrites
  <2> HIDE DEF writes
  <2>8. writes \in Seq(Performable) /\ IsLog(writes, N)
    BY <2>5, <2>6, <2>7 DEF IsLog
  <2>9. PICK t \in [0 .. N -> Machines] : Performs(t, hw, writes, N)
    BY <2>8, LogSteps
  <2> DEFINE Loaded(i) == /\ t[i].control = hw.control
                          /\ \A k \in 0 .. CoreWords - 1 : t[i].rom[k] =
                               IF k - at \in 0 .. i - 1 THEN o.data[k - at + 1] ELSE hw.rom[k]
             G == {i \in Nat : i <= N => Loaded(i)}
  <2>10. 0 \in G
    BY <2>9 DEF Performs
  <2>11. ASSUME NEW i \in Nat, i \in G PROVE i + 1 \in G
    <3> HIDE DEF Loaded
    <3>1. SUFFICES ASSUME i + 1 <= N PROVE Loaded(i + 1)
      OBVIOUS
    <3>2. i \in 0 .. N /\ i + 1 \in 1 .. N /\ (i + 1) - 1 = i
      BY <3>1
    <3>3. Loaded(i) /\ t[i] \in Machines
      BY <2>11, <3>1, <3>2
    <3>4. t[i + 1] = Perform(t[i], writes[i + 1])
      BY <2>9, <3>2 DEF Performs
    <3>5. Plain(writes[i + 1])
      BY <2>6, <3>2 DEF Plain
    <3>6. t[i + 1].control = t[i].control /\ t[i + 1].rom = RomAfter(t[i].rom, writes[i + 1])
      <4>1. t[i + 1].control = ControlAfter(t[i].control, writes[i + 1])
        BY <3>3, <3>4, <3>5, PerformParts
      <4>2. t[i + 1].rom = RomAfter(t[i].rom, writes[i + 1])
        BY <3>3, <3>4, <3>5, PerformParts
      <4>3. writes[i + 1].type = "rom_plane_write"
        BY <2>6, <3>2
      <4> QED BY <4>1, <4>2, <4>3 DEF ControlAfter
    <3>7. /\ writes[i + 1].type = "rom_plane_write" /\ writes[i + 1].address[1] = address + 4 * i
          /\ Len(writes[i + 1].data) = 1 /\ writes[i + 1].data[1] = o.data[i + 1]
      BY <2>6, <3>2
    <3>8. fcore_address_to_index(writes[i + 1].address[1]) = at + i
      BY <2>3, <3>7
    <3>9. DOMAIN t[i].rom = 0 .. CoreWords - 1
      BY <3>3 DEF Machines
    <3> HIDE DEF at
    <3>10. \A k \in 0 .. CoreWords - 1 : t[i + 1].rom[k] =
             IF k - (at + i) \in 0 .. 0 THEN writes[i + 1].data[k - (at + i) + 1] ELSE t[i].rom[k]
      BY <3>6, <3>7, <3>8, <3>9 DEF RomAfter
    <3>11. ASSUME NEW k \in 0 .. CoreWords - 1
           PROVE  t[i + 1].rom[k] =
                    IF k - at \in 0 .. (i + 1) - 1 THEN o.data[k - at + 1] ELSE hw.rom[k]
      <4>1. t[i].rom[k] = IF k - at \in 0 .. i - 1 THEN o.data[k - at + 1] ELSE hw.rom[k]
        BY <3>3 DEF Loaded
      <4>2. CASE k - (at + i) = 0
        <5>1. k - at = i /\ k - (at + i) \in 0 .. 0 /\ k - (at + i) + 1 = 1
          BY <2>3, <4>2
        <5>2. t[i + 1].rom[k] = o.data[i + 1]
          BY <3>7, <3>10, <5>1
        <5>3. k - at \in 0 .. (i + 1) - 1 /\ k - at + 1 = i + 1
          BY <5>1
        <5> QED BY <5>2, <5>3
      <4>3. CASE k - (at + i) # 0
        <5>1. k - (at + i) \notin 0 .. 0 /\ (k - at \in 0 .. (i + 1) - 1 <=> k - at \in 0 .. i - 1)
          BY <2>3, <4>3
        <5>2. t[i + 1].rom[k] = t[i].rom[k]
          BY <3>10, <5>1
        <5> QED BY <4>1, <5>1, <5>2
      <4> QED BY <4>2, <4>3
    <3> QED BY <3>3, <3>6, <3>11 DEF Loaded
  <2>12. Loaded(N)
    <3> HIDE DEF Loaded
    <3>1. \A i \in Nat : i \in G
      BY <2>10, <2>11, AllNumbers
    <3> QED BY <3>1
  <2>13. t[N] \in Machines /\ t[N] = Replay(hw, writes)
    BY <2>9 DEF Performs
  <2>14. t[N].rom = RomAfter(hw.rom, o)
    <3>1. RomAfter(hw.rom, o) = [k \in 0 .. CoreWords - 1 |->
             IF k - at \in 0 .. N - 1 THEN o.data[k - at + 1] ELSE hw.rom[k]]
      BY <1>2, <2>1, <2>2 DEF RomAfter, Machines
    <3>2. t[N].rom \in [0 .. CoreWords - 1 -> Nat]
      BY <2>13 DEF Machines
    <3> HIDE DEF at
    <3> QED BY <2>12, <3>1, <3>2
  <2> QED BY <2>8, <2>12, <2>13, <2>14 DEF writes
<1> QED BY <1>1, <1>2

\* The writes of two texts one after the other.
Appends(a, b) == \A type : AsWrites(a \o b, type) = AsWrites(a, type) \o AsWrites(b, type)

LEMMA WritesOfConcat ==
  \A P, a, b : a \in Seq(P) /\ b \in Seq(P) => Appends(a, b)
<1> SUFFICES ASSUME NEW P, NEW a \in Seq(P), NEW b \in Seq(P), NEW type
             PROVE  AsWrites(a \o b, type) = AsWrites(a, type) \o AsWrites(b, type)
  BY DEF Appends
<1> DEFINE write(l) == BusOp(<<l[1]>>, <<l[2]>>, type)
           f == [l \in P |-> write(l)]
<1>1. \A x \in Seq(P) : AsWrites(x, type) = [i \in 1 .. Len(x) |-> write(x[i])]
  BY DEF AsWrites
<1> HIDE DEF write
<1>2. \A x \in Seq(P) : \A i \in 1 .. Len(x) : f[x[i]] = write(x[i])
  OBVIOUS
<1>3. \A x \in Seq(P) : AsWrites(x, type) = [i \in 1 .. Len(x) |-> f[x[i]]]
  BY <1>1, <1>2
<1>4. a \o b \in Seq(P)
  OBVIOUS
<1> HIDE DEF f
<1>5. /\ AsWrites(a, type) = Mapped(f, a) /\ AsWrites(b, type) = Mapped(f, b)
      /\ AsWrites(a \o b, type) = Mapped(f, a \o b)
  BY <1>3, <1>4 DEF Mapped
<1>6. PICK g : g = f
  OBVIOUS
<1>7. Mapped(g, a \o b) = Mapped(g, a) \o Mapped(g, b)
  BY MapOfConcat
<1> QED BY <1>5, <1>6, <1>7, Zenon

\* Rendering a log of plain accesses: its programs first, performed one after the other.
LEMMA RomLinesLoad ==
  ASSUME NEW hw \in Machines, NEW N \in Nat, NEW ops, DOMAIN ops = 1 .. N,
         \A n \in 1 .. N : Plain(ops[n]),
         NEW t \in [0 .. N -> Machines], Performs(t, hw, ops, N)
  PROVE  /\ AsWrites(RomLines(ops), "rom_plane_write") \in Seq(Performable)
         /\ Replay(hw, AsWrites(RomLines(ops), "rom_plane_write"))
              = [control |-> hw.control, rom |-> t[N].rom]
<1> DEFINE lines == [n \in 1 .. N |-> ProgramLines(ops[n])]
           writes(u) == AsWrites(u, "rom_plane_write")
<1>0. PICK Pairs : Pairs = (Nat \X Word)
  OBVIOUS
<1>1. \A n \in 1 .. N : lines[n] \in Seq(Pairs)
  <2>1. ASSUME NEW o, Plain(o) PROVE ProgramLines(o) \in Seq(Pairs)
    <3>1. CASE o.type # "rom_plane_write"
      BY <3>1 DEF ProgramLines
    <3>2. CASE o.type = "rom_plane_write"
      <4>1. PICK M \in Nat : DOMAIN o.data = 1 .. M
        BY <2>1 DEF Plain, Performable, BusOps
      <4>2. o.address[1] \in Nat /\ \A i \in 1 .. M : o.data[i] \in Word
        BY <2>1, <4>1 DEF Plain, Performable, BusOps
      <4>3. \A i \in 1 .. M : <<o.address[1] + 4 * (i - 1), o.data[i]>> \in Pairs
        BY <1>0, <4>2
      <4>4. ProgramLines(o) = [i \in 1 .. M |-> <<o.address[1] + 4 * (i - 1), o.data[i]>>]
        BY <3>2, <4>1 DEF ProgramLines
      <4> QED BY <4>3, <4>4
    <3> QED BY <3>1, <3>2
  <2> QED BY <2>1
<1>2. RomLines(ops) = FlattenSeq(lines)
  BY DEF RomLines, ProgramLines
<1>3. PICK u \in [0 .. N -> Seq(Pairs)] :
        /\ u[0] = <<>> /\ u[N] = FlattenSeq(lines)
        /\ \A n \in 1 .. N : u[n] = u[n - 1] \o lines[n]
  <2>1. Sequences(lines, N, Pairs)
    BY <1>1 DEF Sequences
  <2>2. \E u \in [0 .. N -> Seq(Pairs)] : Flattens(u, lines, N)
    <3> HIDE DEF lines
    <3> QED BY <2>1, FlattenSteps
  <2> QED BY <2>2 DEF Flattens
<1>4. \A n \in 1 .. N : lines[n] = ProgramLines(ops[n])
  OBVIOUS
<1> HIDE DEF lines
<1> DEFINE Loaded(n) == /\ writes(u[n]) \in Seq(Performable)
                        /\ Replay(hw, writes(u[n])) = [control |-> hw.control, rom |-> t[n].rom]
           G == {n \in Nat : n <= N => Loaded(n)}
<1>5. 0 \in G
  <2>1. writes(u[0]) = <<>>
    BY <1>3 DEF AsWrites
  <2>2. <<>> \in Seq(Performable) /\ Replay(hw, <<>>) = hw
    BY ReplayNone
  <2>3. t[0] = hw /\ hw = [control |-> hw.control, rom |-> hw.rom]
    BY DEF Performs, Machines
  <2> QED BY <2>1, <2>2, <2>3
<1>6. ASSUME NEW n \in Nat, n \in G PROVE n + 1 \in G
  <2> HIDE DEF Loaded, writes
  <2>1. SUFFICES ASSUME n + 1 <= N PROVE Loaded(n + 1)
    OBVIOUS
  <2>2. n \in 0 .. N /\ n + 1 \in 1 .. N /\ (n + 1) - 1 = n
    BY <2>1
  <2>3. Loaded(n) /\ t[n] \in Machines
    BY <1>6, <2>1, <2>2
  <2>4. PICK o : o = ops[n + 1] /\ Plain(o)
    BY <2>2
  <2>5. t[n + 1] = Perform(t[n], o)
    BY <2>2, <2>4 DEF Performs
  <2>6. u[n + 1] = u[n] \o ProgramLines(o)
    BY <1>3, <1>4, <2>2, <2>4
  <2>7. u[n] \in Seq(Pairs) /\ ProgramLines(o) \in Seq(Pairs)
    BY <1>1, <1>4, <2>2, <2>4
  <2>8. writes(u[n + 1]) = writes(u[n]) \o writes(ProgramLines(o))
    <3>1. AsWrites(u[n] \o ProgramLines(o), "rom_plane_write")
            = AsWrites(u[n], "rom_plane_write") \o AsWrites(ProgramLines(o), "rom_plane_write")
      <4>1. Appends(u[n], ProgramLines(o))
        BY <2>7, WritesOfConcat, Zenon
      <4> QED BY <4>1 DEF Appends
    <3> QED BY <2>6, <3>1 DEF writes
  <2>9. PICK at \in Machines : at = Replay(hw, writes(u[n]))
    BY <2>3, ReplayMore DEF Loaded
  <2>10. at.control = hw.control /\ at.rom = t[n].rom
    BY <2>3, <2>9 DEF Loaded
  <2>11. /\ writes(ProgramLines(o)) \in Seq(Performable)
         /\ Replay(at, writes(ProgramLines(o))) \in Machines
         /\ Replay(at, writes(ProgramLines(o))).control = at.control
         /\ Replay(at, writes(ProgramLines(o))).rom = RomAfter(at.rom, o)
    BY <2>4, LinesLoadProgram DEF writes
  <2>12. t[n + 1].rom = RomAfter(t[n].rom, o)
    BY <2>3, <2>4, <2>5, PerformParts
  <2>13. Replay(hw, writes(u[n + 1])) = Replay(at, writes(ProgramLines(o)))
    BY <2>3, <2>8, <2>9, <2>11, ReplayMore DEF Loaded
  <2>14. Replay(hw, writes(u[n + 1])) = [control |-> hw.control, rom |-> t[n + 1].rom]
    BY <2>10, <2>11, <2>12, <2>13 DEF Machines
  <2>15. writes(u[n + 1]) \in Seq(Performable)
    BY <2>3, <2>8, <2>11 DEF Loaded
  <2> QED BY <2>14, <2>15 DEF Loaded
<1>7. Loaded(N)
  <2> HIDE DEF Loaded
  <2>1. \A n \in Nat : n \in G
    BY <1>5, <1>6, AllNumbers
  <2> QED BY <2>1
<1> QED BY <1>2, <1>3, <1>7

\* Then its register writes, in their order.
LEMMA ControlLinesStore ==
  ASSUME NEW hw \in Machines, NEW N \in Nat, NEW ops, DOMAIN ops = 1 .. N,
         \A n \in 1 .. N : Plain(ops[n]),
         NEW t \in [0 .. N -> Machines], Performs(t, hw, ops, N),
         NEW hw2 \in Machines, hw2.control = hw.control
  PROVE  /\ AsWrites(ControlLines(ops), "control_plane_write") \in Seq(Performable)
         /\ Replay(hw2, AsWrites(ControlLines(ops), "control_plane_write"))
              = [control |-> t[N].control, rom |-> hw2.rom]
<1> DEFINE own == {i \in 1 .. N : ops[i].type = "control_plane_write"}
           writes == AsWrites(ControlLines(ops), "control_plane_write")
           M == Cardinality(own)
<1>1. own \in SUBSET (1 .. N)
  OBVIOUS
<1>2. M \in Nat
  <2>1. IsFiniteSet(1 .. N)
    BY FS_Interval
  <2> HIDE DEF own
  <2>2. IsFiniteSet(own)
    BY <1>1, <2>1, FS_Subset
  <2> QED BY <2>2, FS_CardinalityType
<1>3. \A n \in 1 .. M : writes[n] = BusOp(<<ops[Nth(own, n)].address[1]>>, <<ops[Nth(own, n)].data[1]>>,
                                         "control_plane_write")
  BY DEF AsWrites, ControlLines
<1>4. DOMAIN writes = 1 .. M /\ writes = [n \in 1 .. M |-> writes[n]]
  BY DEF AsWrites, ControlLines
<1>5. \A i \in own : ops[i].address[1] \in Nat /\ ops[i].data[1] \in Word
  BY DEF Plain, Performable, BusOps
<1>6. \A i \in 1 .. N : i \in own <=> ops[i].type = "control_plane_write"
  OBVIOUS
<1> HIDE DEF own, writes
<1>7. ASSUME NEW n \in 1 .. M
      PROVE  /\ Plain(writes[n]) /\ writes[n].type = "control_plane_write"
             /\ writes[n].address[1] = ops[Nth(own, n)].address[1]
             /\ writes[n].data[1] = ops[Nth(own, n)].data[1]
  <2>1. Nth(own, n) \in own
    BY <1>1, NthIsPosition
  <2>2. PICK i \in own : i = Nth(own, n)
    BY <2>1
  <2>3. writes[n] = BusOp(<<ops[i].address[1]>>, <<ops[i].data[1]>>, "control_plane_write")
    BY <1>3, <2>2
  <2> QED BY <1>5, <2>2, <2>3, DirectIsPerformable DEF Plain
<1>8. writes \in Seq(Performable) /\ IsLog(writes, M)
  <2>1. \A n \in 1 .. M : writes[n] \in Performable
    BY <1>7 DEF Plain
  <2> QED BY <1>2, <1>4, <2>1 DEF IsLog
<1>9. PICK w \in [0 .. M -> Machines] : Performs(w, hw2, writes, M)
  BY <1>2, <1>8, LogSteps
<1>10. \A i \in own : Rank(own, i) \in 1 .. M /\ Nth(own, Rank(own, i)) = i
  <2>1. SUFFICES ASSUME NEW i \in own PROVE Rank(own, i) \in 1 .. M /\ Nth(own, Rank(own, i)) = i
    OBVIOUS
  <2>2. {m \in 1 .. i : m \in own} = own \cap (1 .. i)
    OBVIOUS
  <2> QED BY <1>1, <2>2, NthPosition DEF Rank
<1>11. Rank(own, N) = M
  <2>1. {m \in 1 .. N : m \in own} = own
    BY <1>1
  <2> QED BY <2>1 DEF Rank
<1> HIDE DEF M
<1> DEFINE Reached(n) == /\ Rank(own, n) \in 0 .. M
                         /\ w[Rank(own, n)].control = t[n].control
                         /\ w[Rank(own, n)].rom = hw2.rom
           G == {n \in Nat : n <= N => Reached(n)}
<1>12. 0 \in G
  <2>1. Rank(own, 0) = 0
    BY RankGrows
  <2> QED BY <1>2, <1>9, <2>1 DEF Performs
<1>13. ASSUME NEW n \in Nat, n \in G PROVE n + 1 \in G
  <2> HIDE DEF Reached
  <2>1. SUFFICES ASSUME n + 1 <= N PROVE Reached(n + 1)
    OBVIOUS
  <2>2. n \in 0 .. N /\ n + 1 \in 1 .. N /\ (n + 1) - 1 = n
    BY <2>1
  <2>3. Reached(n) /\ t[n] \in Machines
    BY <1>13, <2>1, <2>2
  <2>4. PICK r \in 0 .. M : r = Rank(own, n)
    BY <2>3 DEF Reached
  <2>5. w[r] \in Machines /\ w[r].control = t[n].control /\ w[r].rom = hw2.rom
    BY <2>3, <2>4 DEF Reached
  <2>6. PICK o : o = ops[n + 1] /\ Plain(o)
    BY <2>2
  <2>7. t[n + 1] = Perform(t[n], o)
    BY <2>2, <2>6 DEF Performs
  <2>8. t[n + 1].control = ControlAfter(t[n].control, o)
    BY <2>3, <2>6, <2>7, PerformParts
  <2>9. Rank(own, n + 1) = IF n + 1 \in own THEN r + 1 ELSE r
    BY <2>4, RankGrows
  <2>10. CASE n + 1 \notin own
    <3>1. t[n + 1].control = t[n].control
      BY <1>6, <2>2, <2>6, <2>8, <2>10 DEF ControlAfter
    <3> QED BY <2>5, <2>9, <2>10, <3>1 DEF Reached
  <2>11. CASE n + 1 \in own
    <3>1. Rank(own, n + 1) = r + 1
      BY <2>9, <2>11
    <3>2. r + 1 \in 1 .. M /\ Nth(own, r + 1) = n + 1
      BY <1>10, <2>11, <3>1
    <3>3. r + 1 \in 0 .. M /\ (r + 1) - 1 = r
      BY <2>4, <3>2
    <3>4. w[r + 1] = Perform(w[r], writes[r + 1])
      BY <1>9, <3>2, <3>3 DEF Performs
    <3>5. /\ Plain(writes[r + 1]) /\ writes[r + 1].type = "control_plane_write"
          /\ writes[r + 1].address[1] = o.address[1] /\ writes[r + 1].data[1] = o.data[1]
      BY <1>7, <2>6, <3>2
    <3>6. /\ w[r + 1].control = ControlAfter(w[r].control, writes[r + 1])
          /\ w[r + 1].rom = RomAfter(w[r].rom, writes[r + 1])
      BY <2>5, <3>4, <3>5, PerformParts
    <3>7. o.type = "control_plane_write"
      BY <1>6, <2>2, <2>6, <2>11
    <3>8. w[r + 1].control = t[n + 1].control /\ w[r + 1].rom = hw2.rom
      BY <2>5, <2>8, <3>5, <3>6, <3>7 DEF ControlAfter, RomAfter
    <3> QED BY <3>1, <3>3, <3>8 DEF Reached
  <2> QED BY <2>10, <2>11
<1>14. Reached(N)
  <2> HIDE DEF Reached
  <2>1. \A n \in Nat : n \in G
    BY <1>12, <1>13, AllNumbers
  <2> QED BY <2>1
<1>15. w[M] \in Machines /\ w[M] = Replay(hw2, writes)
  BY <1>2, <1>9 DEF Performs
<1>16. w[M] = [control |-> t[N].control, rom |-> hw2.rom]
  BY <1>11, <1>14, <1>15 DEF Machines
<1> QED BY <1>8, <1>15, <1>16 DEF writes

\* Rendering keeps the effect of any log of plain accesses.
LEMMA RenderingOfLog ==
  ASSUME NEW hw \in Machines, NEW ops \in Seq(Performable),
         \A n \in DOMAIN ops : Len(ops[n].address) = 1
  PROVE  Replay(hw, AsWrites(RomLines(ops), "rom_plane_write")
                      \o AsWrites(ControlLines(ops), "control_plane_write")) = Replay(hw, ops)
<1>1. PICK N \in Nat : DOMAIN ops = 1 .. N
  OBVIOUS
<1>2. \A n \in 1 .. N : Plain(ops[n])
  BY <1>1 DEF Plain
<1>3. IsLog(ops, N)
  BY <1>1, <1>2 DEF IsLog, Plain
<1>4. PICK t \in [0 .. N -> Machines] : Performs(t, hw, ops, N)
  BY <1>3, LogSteps
<1>5. t[N] \in Machines /\ t[N] = Replay(hw, ops)
  BY <1>4 DEF Performs
<1>6. PICK rom, control : /\ rom = AsWrites(RomLines(ops), "rom_plane_write")
                          /\ control = AsWrites(ControlLines(ops), "control_plane_write")
  OBVIOUS
<1>7. rom \in Seq(Performable) /\ Replay(hw, rom) = [control |-> hw.control, rom |-> t[N].rom]
  BY <1>1, <1>2, <1>4, <1>6, RomLinesLoad
<1>8. PICK hw2 \in Machines : hw2 = Replay(hw, rom)
  BY <1>5, <1>7 DEF Machines
<1>9. hw2.control = hw.control /\ hw2.rom = t[N].rom
  BY <1>7, <1>8
<1>10. control \in Seq(Performable) /\ Replay(hw2, control) = [control |-> t[N].control, rom |-> hw2.rom]
  BY <1>1, <1>2, <1>4, <1>6, <1>9, ControlLinesStore
<1>11. Replay(hw, rom \o control) = Replay(hw2, control)
  BY <1>7, <1>8, <1>10, ReplayMore
<1>12. Replay(hw, rom \o control) = t[N]
  BY <1>5, <1>9, <1>10, <1>11 DEF Machines
<1> QED BY <1>5, <1>6, <1>12

\* What is logged can be performed.
LogKept == operations' \in Seq(Performable)

\* By what a step of a live driver logs.
LEMMA NothingLoggedKeeps ==
  ASSUME operations \in Seq(Performable), operations' = operations \/ operations' = <<>>
  PROVE  LogKept
<1>1. <<>> \in Seq(Performable)
  OBVIOUS
<1>2. operations' \in Seq(Performable)
  BY <1>1
<1> QED BY <1>2 DEF LogKept

LEMMA DirectWritesKeep ==
  ASSUME operations \in Seq(Performable), NEW stores \in Stores, write_direct_all(stores)
  PROVE  LogKept
<1>1. DirectLog(stores) \in Seq(Performable)
  <2>1. PICK N \in Nat : DOMAIN stores = 1 .. N
    BY DEF Stores
  <2>2. ASSUME NEW i \in 1 .. N PROVE DirectLog(stores)[i] \in Performable
    <3>1. stores[i][1] \in Nat /\ stores[i][2] \in Word
      BY <2>1 DEF Stores
    <3>2. DirectLog(stores)[i] = BusOp(<<stores[i][1]>>, <<stores[i][2]>>, "control_plane_write")
      BY <2>1 DEF DirectLog
    <3> QED BY <3>1, <3>2, DirectIsPerformable
  <2>3. DirectLog(stores) = [i \in 1 .. N |-> DirectLog(stores)[i]]
    BY <2>1 DEF DirectLog
  <2> QED BY <2>2, <2>3
<1>2. operations' = operations \/ operations' = operations \o DirectLog(stores)
  BY DEF write_direct_all, write_registers, DirectLog, busVars
<1>3. \A p, q \in Seq(Performable) : p \o q \in Seq(Performable)
  OBVIOUS
<1>4. operations' \in Seq(Performable)
  BY <1>1, <1>2, <1>3
<1> QED BY <1>4 DEF LogKept

LEMMA DirectWriteKeeps ==
  ASSUME operations \in Seq(Performable), NEW address \in Nat, NEW value \in Word,
         write_direct(address, value)
  PROVE  LogKept
<1>1. <<<<address, value>>>> \in Stores
  BY DEF Stores
<1> QED BY <1>1, DirectWritesKeep DEF write_direct

LEMMA OneAccessKeeps ==
  ASSUME operations \in Seq(Performable), NEW address, NEW data, NEW type,
         NEW n \in {1, 2}, address \in Seq(Nat), Len(address) = n,
         data \in Seq(Word), type \in OpTypes, type = "control_plane_write" => Len(data) = 1,
         operations' = Append(operations, BusOp(address, data, type))
  PROVE  LogKept
<1>1. BusOp(address, data, type) \in Performable
  BY DEF BusOp, BusOps, Performable
<1> QED BY <1>1 DEF LogKept

LEMMA ProxiedWriteKeeps ==
  ASSUME operations \in Seq(Performable), NEW proxy \in Nat, NEW target \in Word, NEW value \in Word,
         write_proxied(proxy, target, value)
  PROVE  LogKept
<1> DEFINE o == BusOp(<<target, proxy>>, <<value>>, "control_plane_write")
<1>1. target \in Nat
  BY BusAssumption DEF Word
<1>2. /\ <<target, proxy>> \in Seq(Nat) /\ Len(<<target, proxy>>) = 2
      /\ <<value>> \in Seq(Word) /\ Len(<<value>>) = 1
  BY <1>1
<1>3. o \in Performable
  BY <1>2 DEF BusOp, BusOps, OpTypes, Performable
<1>4. operations' = operations \/ operations' = operations \o <<o>>
  BY DEF write_proxied, write_registers, busVars
<1> QED BY <1>3, <1>4 DEF LogKept

LEMMA ProgramKeeps ==
  ASSUME operations \in Seq(Performable), NEW address \in Nat, NEW program \in Seq(Word),
         load_program(address, program)
  PROVE  LogKept
<1>1. <<address>> \in Seq(Nat) /\ Len(<<address>>) = 1
  OBVIOUS
<1>2. \/ operations' = operations
      \/ operations' = Append(operations, BusOp(<<address>>, program, "rom_plane_write"))
  BY DEF load_program
<1>3. BusOp(<<address>>, program, "rom_plane_write") \in Performable
  BY <1>1 DEF BusOp, BusOps, OpTypes, Performable
<1> QED BY <1>2, <1>3 DEF LogKept

LEMMA ReadKeeps ==
  ASSUME operations \in Seq(Performable), NEW address \in Nat, read_direct(address)
  PROVE  LogKept
<1>1. <<address>> \in Seq(Nat) /\ Len(<<address>>) = 1 /\ <<0>> \in Seq(Word)
  BY BusAssumption DEF Word
<1>2. \/ operations' = operations
      \/ operations' = Append(operations, BusOp(<<address>>, <<0>>, "control_plane_read"))
  BY DEF read_direct, read_register, busVars
<1>3. BusOp(<<address>>, <<0>>, "control_plane_read") \in Performable
  BY <1>1 DEF BusOp, BusOps, OpTypes, Performable
<1> QED BY <1>2, <1>3 DEF LogKept

LEMMA LogKeptNext ==
  ASSUME operations \in Seq(Performable), [Next]_vars
  PROVE  LogKept
<1> USE EndpointsAssumption
<1>1. CASE operations' = operations \/ operations' = <<>>
  BY <1>1, NothingLoggedKeeps
<1>2. CASE RegisterWrite
  <2>1. PICK r \in WriteRequests : process_single_write_register(r)
    BY <1>2 DEF RegisterWrite
  <2>2. r.address \in Nat /\ r.value \in Word /\ (r.proxy # Absent => r.proxy \in Nat)
    BY DEF WriteRequests
  <2>3. r.address % WordModulus \in Word
    BY <2>2, BusAssumption DEF Word
  <2>4. \/ operations' = operations
        \/ write_direct(r.address, r.value)
        \/ r.proxy # Absent /\ write_proxied(r.proxy, r.address % WordModulus, r.value)
    BY <2>1 DEF process_single_write_register, Reject, Die, process_exit, busVars
  <2> QED BY <1>1, <2>2, <2>3, <2>4, DirectWriteKeeps, ProxiedWriteKeeps
<1>3. CASE RegisterRead
  <2>1. PICK a \in Addresses : operations' = operations \/ read_direct(a)
    BY <1>3 DEF RegisterRead, process_single_read_register, Reject, busVars
  <2> QED BY <1>1, <2>1, ReadKeeps
<1>4. CASE ApplyFilter
  <2>1. PICK a \in Addresses, taps \in Filters : operations' = operations \/ apply_filter(a, taps)
    BY <1>4 DEF ApplyFilter, process_apply_filter, Reject, busVars
  <2> DEFINE store(n) == IF n % 2 = 1 THEN <<a, taps[(n + 1) \div 2]>>
                                      ELSE <<a + 4, (n \div 2 - 1) % WordModulus>>
  <2>2. [n \in 1 .. 2 * Len(taps) |-> store(n)] \in Stores
    BY FilterStores
  <2>3. apply_filter(a, taps) => LogKept
    BY <2>2, DirectWritesKeep DEF apply_filter
  <2> QED BY <1>1, <2>1, <2>3
<1>5. CASE ApplyProgram
  <2>1. PICK a \in Addresses, p \in Programs : operations' = operations \/ load_program(a, p)
    BY <1>5 DEF ApplyProgram, process_apply_program, apply_program, Reject, busVars
  <2> QED BY <1>1, <2>1, ProgramKeeps
<1>6. CASE SetScopeAddress
  <2>1. PICK a \in Addresses, b \in Buffers :
          operations' = operations \/ write_direct(a, b % WordModulus)
    BY <1>6 DEF SetScopeAddress, process_set_scope_address, set_scope_data, Reject, Die,
       process_exit, busVars
  <2>2. b % WordModulus \in Word
    BY BusAssumption DEF Word
  <2> QED BY <1>1, <2>1, <2>2, DirectWriteKeeps
<1>7. CASE SimulatedAccess
  <2>1. \/ \E a \in Addresses, v \in Values : write_direct(a, v)
        \/ \E a \in Addresses, p \in Programs : load_program(a, p)
    BY <1>7 DEF SimulatedAccess, apply_program
  <2> QED BY <2>1, DirectWriteKeeps, ProgramKeeps
<1>8. CASE LoadBitstream
  <2>1. operations' = operations
    BY <1>8 DEF LoadBitstream, process_load_bitstream, Reject, Die, process_exit, load_bitstream, busVars
  <2> QED BY <1>1, <2>1
<1>9. CASE BeginSimulation \/ EndSimulation \/ ClearOperations \/ Terminate \/ Relaunch
  <2>1. operations' = operations \/ operations' = <<>>
    BY <1>9 DEF BeginSimulation, EndSimulation, ClearOperations, Terminate, Relaunch,
         disable_bus_access, enable_bus_access, clear_operations_vector, process_exit, launch
  <2> QED BY <1>1, <2>1
<1>10. CASE UNCHANGED vars
  BY <1>1, <1>10 DEF vars, busVars
<1> QED BY <1>2, <1>3, <1>4, <1>5, <1>6, <1>7, <1>8, <1>9, <1>10 DEF Next

\* Nothing of a log is lost in the text that a simulation is given of it.
THEOREM RenderingFollowsLog == Spec => []RenderingKeepsEffect
<1>1. Init => operations \in Seq(Performable)
  BY DEF Init, BusInit
<1>2. operations \in Seq(Performable) /\ [Next]_vars => (operations \in Seq(Performable))'
  BY LogKeptNext DEF LogKept
<1>3. TypeOK /\ operations \in Seq(Performable) => RenderingKeepsEffect
  <2>1. TypeOK => Hardware \in Machines
    BY HardwareIsMachine DEF TypeOK
  <2> QED BY <2>1, RenderingOfLog DEF RenderingKeepsEffect, get_hardware_simulation_data
<1> QED BY <1>1, <1>2, <1>3, TypeCorrect, PTL DEF Spec
=============================================================================
