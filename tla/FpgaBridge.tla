----------------------------- MODULE FpgaBridge -----------------------------
(***************************************************************************)
(* The bus layer of the driver: the bus_accessor, which owns the two       *)
(* memory-mapped windows of the FPGA (control registers and fCore program  *)
(* memory) and records every access in a log, and the fpga_bridge on top   *)
(* of it, which gates register accesses on the FPGA being programmed.      *)
(*                                                                         *)
(* Three things live here that everything above depends on:                *)
(*   - the log `operations` is what a hardware simulation is built from;   *)
(*   - while `sink_mode` is set nothing may reach the windows;             *)
(*   - an address outside a window ends the process (exit(-1), or SIGSEGV  *)
(*     and its handler).                                                   *)
(* Addresses are byte addresses, as in the code.  The process is single    *)
(* threaded, so a handler is one action; SIGTERM may come between two.     *)
(***************************************************************************)
EXTENDS Integers, Sequences, SequencesExt, FiniteSets

CONSTANTS
  ControlAddr,     \* first byte of the control window (control_addr)
  ControlWords,    \* 32-bit words mapped from it (n_pages_ctrl * 1024)
  CoreAddr,        \* first byte of the fCore window (core_addr)
  CoreWords,       \* 32-bit words mapped from it (n_pages_fcore * 1024)
  WordModulus      \* 2^32: a register keeps a value modulo this

ASSUME BusAssumption ==
  /\ ControlAddr \in Nat /\ CoreAddr \in Nat
  /\ ControlWords \in Nat \ {0} /\ CoreWords \in Nat \ {0}
  /\ WordModulus \in Nat \ {0}

VARIABLES
  up,                  \* the driver process runs
  fpga_loaded,         \* static fpga_bridge::fpga_loaded
  sink_mode,           \* static bus_accessor::sink_mode
  previous_sink_mode,  \* what disable_access saved
  operations,          \* the log of bus accesses since the last clear
  operating,           \* what the FPGA manager's state file says
  registers,           \* hardware: the control window
  fCore                \* hardware: the program memories

hardwareVars == <<operating, registers, fCore>>
busVars      == <<up, fpga_loaded, sink_mode, previous_sink_mode, operations,
                  operating, registers, fCore>>

Word == 0 .. WordModulus - 1

BusOp(address, data, type) == [address |-> address, data |-> data, type |-> type]
OpTypes == {"control_plane_write", "rom_plane_write", "control_plane_read"}
BusOps == [address : Seq(Nat), data : Seq(Word), type : OpTypes]

----------------------------------------------------------------------------
(* The windows *)

register_address_to_index(address) == (address - ControlAddr) \div 4
fcore_address_to_index(address)    == (address - CoreAddr) \div 4

\* Neither below the window, where the index functions exit(-1), nor past its
\* end, where the access raises SIGSEGV and sigsegv_handler exits.
ControlMapped(address) ==
  address >= ControlAddr /\ register_address_to_index(address) < ControlWords
CoreMapped(address, i) ==
  address >= CoreAddr /\ fcore_address_to_index(address) + i < CoreWords

\* `stores` is a sequence of <<address, value>> pairs, performed in order up to
\* the first one that faults.
Performed(stores) ==
  {i \in DOMAIN stores : \A j \in 1 .. i : ControlMapped(stores[j][1])}

LastHit(stores, performed, k) ==
  {i \in performed :
     /\ register_address_to_index(stores[i][1]) = k
     /\ \A j \in performed : register_address_to_index(stores[j][1]) = k => j <= i}

Stored(stores) ==
  LET performed == Performed(stores)
  IN [k \in 0 .. ControlWords - 1 |->
        IF LastHit(stores, performed, k) = {}
          THEN registers[k]
          ELSE stores[CHOOSE i \in LastHit(stores, performed, k) : TRUE][2]]

----------------------------------------------------------------------------
(* bus_accessor *)

\* The log entry precedes the access, and is made in sink mode too.
write_registers(logged, stores) ==
  /\ operations' = operations \o logged
  /\ IF sink_mode
       THEN UNCHANGED <<up, registers>>
       ELSE /\ registers' = Stored(stores)
            /\ up' = (Performed(stores) = DOMAIN stores)
  /\ UNCHANGED <<fpga_loaded, sink_mode, previous_sink_mode, operating, fCore>>

\* A proxied write is addresses = <<target, proxy>>: the target goes to the
\* second register of the proxy, and the data, which triggers it, to the first.
ProxyStoresSwapped(target, proxy, data) == <<<<proxy, target>>, <<proxy + 4, data>>>>
ProxyStores(target, proxy, data) == <<<<proxy + 4, target>>, <<proxy, data>>>>

read_register(address) ==
  /\ operations' = Append(operations, BusOp(<<address>>, <<0>>, "control_plane_read"))
  /\ up' = (sink_mode \/ ControlMapped(address))
  /\ UNCHANGED <<fpga_loaded, sink_mode, previous_sink_mode, hardwareVars>>

\* The log entry follows the access: a fault half way leaves none.
load_program(address, program) ==
  LET written == {i \in DOMAIN program : \A j \in 1 .. i : CoreMapped(address, j - 1)}
      faults  == ~sink_mode /\ written # DOMAIN program
  IN /\ fCore' = IF sink_mode THEN fCore
                 ELSE [k \in 0 .. CoreWords - 1 |->
                         IF \E i \in written : fcore_address_to_index(address) + i - 1 = k
                           THEN program[k - fcore_address_to_index(address) + 1]
                           ELSE fCore[k]]
     /\ up' = ~faults
     /\ operations' = IF faults THEN operations
                      ELSE Append(operations, BusOp(<<address>>, program, "rom_plane_write"))
     /\ UNCHANGED <<fpga_loaded, sink_mode, previous_sink_mode, operating, registers>>

\* The text a hardware simulation is given, one <<address, value>> per line.
RomLinesByWord(ops) ==
  FlattenSeq([n \in DOMAIN ops |->
    IF ops[n].type = "rom_plane_write"
      THEN [i \in DOMAIN ops[n].data |-> <<ops[n].address[1] + i - 1, ops[n].data[i]>>]
      ELSE <<>>])
RomLines(ops) ==
  LET lines(o) == IF o.type = "rom_plane_write"
                    THEN [i \in DOMAIN o.data |-> <<o.address[1] + 4 * (i - 1), o.data[i]>>]
                    ELSE <<>>
  IN FlattenSeq([n \in DOMAIN ops |-> lines(ops[n])])

\* The n-th of a set of positions.
Nth(positions, n) == CHOOSE i \in positions : Cardinality(positions \cap (1 .. i)) = n

ControlLines(ops) ==
  LET writes == {i \in DOMAIN ops : ops[i].type = "control_plane_write"}
      write(n) == ops[Nth(writes, n)]
  IN [n \in 1 .. Cardinality(writes) |-> <<write(n).address[1], write(n).data[1]>>]

get_hardware_simulation_data == [rom |-> RomLines(operations), control |-> ControlLines(operations)]

----------------------------------------------------------------------------
(* fpga_bridge: operations the endpoints and the deployers call *)

\* Consecutive direct writes made by one caller, as <<address, value>> pairs.
write_direct_ungated(stores) ==
  write_registers([i \in DOMAIN stores |->
    BusOp(<<stores[i][1]>>, <<stores[i][2]>>, "control_plane_write")], stores)
write_direct_all(stores) ==
  IF fpga_loaded
    THEN write_registers([i \in DOMAIN stores |->
           BusOp(<<stores[i][1]>>, <<stores[i][2]>>, "control_plane_write")], stores)
    ELSE UNCHANGED busVars

write_direct(address, value) == write_direct_all(<<<<address, value>>>>)

write_proxied(proxy, target, value) ==
  IF fpga_loaded
    THEN write_registers(<<BusOp(<<target, proxy>>, <<value>>, "control_plane_write")>>,
                         ProxyStores(target, proxy, value))
    ELSE UNCHANGED busVars

read_direct(address) == IF fpga_loaded THEN read_register(address) ELSE UNCHANGED busVars

\* Not gated on fpga_loaded.
apply_program(address, program) == load_program(address, program)

apply_filter(address, taps) ==
  write_direct_all([n \in 1 .. 2 * Len(taps) |->
    IF n % 2 = 1 THEN <<address, taps[(n + 1) \div 2]>> ELSE <<address + 4, (n \div 2 - 1) % WordModulus>>])

\* The DMA buffer address is 64 bits wide, the register 32.
set_scope_data_wide(address, buffer) == write_direct(address, buffer)
set_scope_data(address, buffer) == write_direct(address, buffer % WordModulus)

\* `reported`: neither the ioctl failed nor the status byte, uninitialised when
\* the read of it fails, was '0'.  `fate` is what became of the FPGA: nothing
\* checks the write of the bitstream, so the two are independent.
load_bitstream(reported, fate) ==
  /\ fpga_loaded' = (fpga_loaded \/ reported)
  /\ operating' = CASE fate = "kept" -> operating
                    [] fate = "programmed" -> TRUE
                    [] fate = "lost" -> FALSE
  /\ IF fate = "kept" THEN UNCHANGED <<registers, fCore>>
     ELSE /\ registers' = [k \in 0 .. ControlWords - 1 |-> 0]
          /\ fCore' = [k \in 0 .. CoreWords - 1 |-> 0]
  /\ UNCHANGED <<up, sink_mode, previous_sink_mode, operations>>

clear_operations_vector ==
  /\ operations' = <<>>
  /\ UNCHANGED <<up, fpga_loaded, sink_mode, previous_sink_mode, hardwareVars>>

disable_bus_access ==
  /\ previous_sink_mode' = sink_mode
  /\ sink_mode' = TRUE
  /\ operations' = <<>>
  /\ UNCHANGED <<up, fpga_loaded, hardwareVars>>

enable_bus_access ==
  /\ sink_mode' = previous_sink_mode
  /\ UNCHANGED <<up, fpga_loaded, previous_sink_mode, operations, hardwareVars>>

----------------------------------------------------------------------------
(* The process: launch, and the signal handler that exits *)

launch ==
  /\ up' = TRUE
  /\ fpga_loaded' = operating
  /\ sink_mode' = FALSE
  /\ previous_sink_mode' = FALSE
  /\ operations' = <<>>
  /\ UNCHANGED hardwareVars

\* An uncaught exception, exit() in the signal handler: memory is gone, the
\* hardware stays as it is.
process_exit ==
  /\ up' = FALSE
  /\ UNCHANGED <<fpga_loaded, sink_mode, previous_sink_mode, operations, hardwareVars>>

BusInit ==
  /\ up = TRUE
  /\ operating \in BOOLEAN
  /\ fpga_loaded = operating
  /\ sink_mode = FALSE
  /\ previous_sink_mode = FALSE
  /\ operations = <<>>
  /\ registers = [k \in 0 .. ControlWords - 1 |-> 0]
  /\ fCore = [k \in 0 .. CoreWords - 1 |-> 0]

BusTypeOK ==
  /\ up \in BOOLEAN /\ fpga_loaded \in BOOLEAN /\ operating \in BOOLEAN
  /\ sink_mode \in BOOLEAN /\ previous_sink_mode \in BOOLEAN
  /\ operations \in Seq(BusOps)
  /\ registers \in [0 .. ControlWords - 1 -> Word]
  /\ fCore \in [0 .. CoreWords - 1 -> Word]

----------------------------------------------------------------------------
(* Reference semantics of the log, and the properties about it *)

Latched(control, at, word) == [k \in DOMAIN control |-> IF k = at THEN word ELSE control[k]]

\* What one logged access does to the hardware when it is performed for real.
Perform(hw, o) ==
  CASE o.type = "control_plane_read" -> hw
    [] o.type = "rom_plane_write" ->
         [hw EXCEPT !.rom = [k \in DOMAIN hw.rom |->
            IF k - fcore_address_to_index(o.address[1]) \in 0 .. Len(o.data) - 1
              THEN o.data[k - fcore_address_to_index(o.address[1]) + 1] ELSE hw.rom[k]]]
    [] o.type = "control_plane_write" /\ Len(o.address) = 1 ->
         [hw EXCEPT !.control = Latched(@, register_address_to_index(o.address[1]), o.data[1])]
    [] OTHER ->
         [hw EXCEPT !.control =
            Latched(Latched(@, register_address_to_index(o.address[2]) + 1, o.address[1]),
                    register_address_to_index(o.address[2]), o.data[1])]

Replay(hw, ops) == FoldLeft(Perform, hw, ops)

Hardware == [control |-> registers, rom |-> fCore]

NewOperations ==
  IF IsPrefix(operations, operations')
    THEN SubSeq(operations', Len(operations) + 1, Len(operations')) ELSE <<>>
=============================================================================
