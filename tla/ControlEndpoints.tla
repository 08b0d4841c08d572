-------------------------- MODULE ControlEndpoints --------------------------
(***************************************************************************)
(* The commands that act on the bus directly: register_write,              *)
(* register_read, apply_filter and load_bitstream of control_endpoints and *)
(* apply_program of cores_endpoints.  Each command is one action: the      *)
(* server is single threaded, so no two overlap.                           *)
(*                                                                         *)
(* No endpoint catches the exceptions raised here, so a request that       *)
(* passes validation can still end the process; `response` then says of    *)
(* what.                                                                   *)
(***************************************************************************)
EXTENDS FpgaBridge

CONSTANTS
  Addresses,      \* byte addresses clients send
  Values,         \* register values clients send
  Programs,       \* programs clients load, sequences of words
  Filters,        \* filter taps clients load, sequences of words
  Buffers,        \* DMA buffer addresses the kernel module may report
  MaxOperations   \* bound on the log, which the code lets grow until a deploy

ASSUME EndpointsAssumption ==
  /\ Addresses \subseteq Nat
  /\ Values \subseteq Word
  /\ Programs \subseteq Seq(Word) /\ Filters \subseteq Seq(Word)
  /\ Buffers \subseteq Nat
  /\ MaxOperations \in Nat

VARIABLE response   \* the response code of the last command, or what the
                    \* process died of while serving it

vars == <<busVars, response>>

Codes == {"none", "ok", "invalid_arg", "bitstream_load_failed"}
Deaths == {"fault", "type_error", "runtime_error", "decode_error"}

\* A register_write request as far as its handling tells requests apart:
\* `proxy` is the proxy address, or Absent; `fraction` says which of the numbers
\* is not an integer, if one is; `known` that the proxy type is axis_constant.
Absent == -1
WriteRequests ==
  [type : {"direct", "proxied"}, known : BOOLEAN, fraction : {"none", "address", "value"},
   proxy : Addresses \union {Absent}, address : Addresses, value : Values]

\* commands::write_register, the schema: a proxied write must name its proxy.
ValidSchema(r) == r.type = "proxied" => r.proxy # Absent

Reject == response' = "invalid_arg" /\ UNCHANGED busVars
Die(of) == process_exit /\ response' = of

\* A response exists only if the process survives the call.
Respond(code) == response' = IF up' THEN code ELSE "fault"

\* The address, the proxy address and the value are tested in this order, and
\* the null in place of an absent proxy address is not a number.
process_single_write_register(r) ==
  \/ (~ValidSchema(r) \/ r.fraction = "address") /\ Reject
  \/ /\ ValidSchema(r) /\ r.fraction # "address"
     /\ \/ r.proxy = Absent /\ Die("type_error")
        \/ r.proxy # Absent /\ r.fraction = "value" /\ Reject
        \/ /\ r.proxy # Absent /\ r.fraction = "none"
           /\ \/ r.type = "direct" /\ write_direct(r.address, r.value) /\ Respond("ok")
              \/ /\ r.type = "proxied" /\ r.known
                 /\ write_proxied(r.proxy, r.address % WordModulus, r.value) /\ Respond("ok")
              \/ r.type = "proxied" /\ ~r.known /\ Die("runtime_error")

process_single_read_register(address, numeric) ==
  \/ ~numeric /\ Reject
  \/ numeric /\ read_direct(address) /\ Respond("ok")

process_apply_filter(address, taps, integral) ==
  \/ ~integral /\ Reject
  \/ integral /\ apply_filter(address, taps) /\ Respond("ok")

process_apply_program(address, program, integral) ==
  \/ ~integral /\ Reject
  \/ integral /\ apply_program(address, program) /\ Respond("ok")

\* A bitstream comes as base64 text; the decoder throws on any other text.
process_load_bitstream(argument, reported, fate) ==
  \/ argument = "not_text" /\ Reject
  \/ argument = "not_base64" /\ Die("decode_error")
  \/ /\ argument = "base64"
     /\ load_bitstream(reported, fate)
     /\ Respond(IF reported THEN "ok" ELSE "bitstream_load_failed")

\* set_scope_address ends in fpga_bridge::set_scope_data, at the scope's address
\* plus the offset of the register.  A null or missing address is answered ok;
\* arguments that are no object throw.
process_set_scope_address(form, address, buffer) ==
  \/ form = "null" /\ UNCHANGED busVars /\ Respond("ok")
  \/ form = "not_object" /\ Die("type_error")
  \/ form = "not_unsigned" /\ Reject
  \/ form = "valid" /\ set_scope_data(address, buffer) /\ Respond("ok")

----------------------------------------------------------------------------
(* Next state: the commands, SIGTERM, a relaunch, and the bus accesses of  *)
(* a hardware simulation, which get_hardware_sim_data brackets in a        *)
(* disable and an enable and during which nothing else is served           *)

Serving(n) == up /\ ~sink_mode /\ Len(operations) + n <= MaxOperations

RegisterWrite == Serving(1) /\ \E r \in WriteRequests : process_single_write_register(r)
RegisterRead ==
  Serving(1) /\ \E a \in Addresses, numeric \in BOOLEAN :
                  process_single_read_register(a, numeric)
ApplyFilter ==
  \E a \in Addresses, taps \in Filters, integral \in BOOLEAN :
    Serving(2 * Len(taps)) /\ process_apply_filter(a, taps, integral)
ApplyProgram ==
  Serving(1) /\ \E a \in Addresses, p \in Programs, integral \in BOOLEAN :
                  process_apply_program(a, p, integral)
LoadBitstream ==
  Serving(0) /\ \E argument \in {"base64", "not_base64", "not_text"}, reported \in BOOLEAN,
                    fate \in {"kept", "programmed", "lost"} :
                  process_load_bitstream(argument, reported, fate)
SetScopeAddress ==
  Serving(1) /\ \E form \in {"null", "not_object", "not_unsigned", "valid"},
                    a \in Addresses, b \in Buffers : process_set_scope_address(form, a, b)

BeginSimulation == Serving(0) /\ disable_bus_access /\ UNCHANGED response
SimulatedAccess ==
  /\ up /\ sink_mode /\ Len(operations) < MaxOperations
  /\ \/ \E a \in Addresses, v \in Values : write_direct(a, v)
     \/ \E a \in Addresses, p \in Programs : apply_program(a, p)
  /\ UNCHANGED response
EndSimulation   == up /\ sink_mode /\ enable_bus_access /\ UNCHANGED response
ClearOperations == up /\ clear_operations_vector /\ UNCHANGED response

Terminate == up /\ process_exit /\ response' = "none"
Relaunch  == ~up /\ launch /\ response' = "none"

Init == BusInit /\ response = "none"

Next ==
  \/ RegisterWrite \/ RegisterRead \/ ApplyFilter \/ ApplyProgram
  \/ LoadBitstream \/ SetScopeAddress
  \/ BeginSimulation \/ SimulatedAccess \/ EndSimulation \/ ClearOperations
  \/ Terminate \/ Relaunch

Spec == Init /\ [][Next]_vars

TypeOK == BusTypeOK /\ response \in Codes \union Deaths

----------------------------------------------------------------------------
(* Properties *)

\* Except by reprogramming the FPGA, the hardware changes only as the log says:
\* a step that the process survives leaves it as performing the newly logged
\* accesses would, in their order, and not at all while access is disabled.
\* Covers write_register, load_program and the sink_mode test each has.
HardwareFollowsLog ==
  [][up /\ up' /\ ~LoadBitstream =>
       Hardware' = IF sink_mode THEN Hardware ELSE Replay(Hardware, NewOperations)]_vars

\* Until a load has been reported good, or the FPGA was operating at launch, no
\* command changes a control register: the fpga_loaded test of write_direct and
\* write_proxied, which apply_filter and set_scope_data rely on.
UnloadedRegistersUntouched ==
  [][~fpga_loaded /\ ~LoadBitstream => UNCHANGED registers]_vars

\* Rendered lines, as plain writes.
AsWrites(lines, type) == [i \in DOMAIN lines |-> BusOp(<<lines[i][1]>>, <<lines[i][2]>>, type)]

\* The log a simulation is rendered from loses nothing of the program memory
\* and, as long as no proxied write is in it, of the registers: performing the
\* rendered lines as plain writes has the effect of performing the log.
\* Covers get_hardware_simulation_data.
RenderingKeepsEffect ==
  up /\ (\A n \in DOMAIN operations : Len(operations[n].address) = 1) =>
    LET lines == get_hardware_simulation_data
    IN Replay(Hardware, AsWrites(lines.rom, "rom_plane_write")
                          \o AsWrites(lines.control, "control_plane_write"))
         = Replay(Hardware, operations)
=============================================================================
