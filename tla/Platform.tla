------------------------------ MODULE Platform ------------------------------
(***************************************************************************)
(* The platform commands (clocks, versions, debug level) and the two other *)
(* commands that go through files of the kernel module (load_bitstream and *)
(* set_scope_address), composed with that module and with the connections  *)
(* that carry the commands.                                                *)
(*                                                                         *)
(* What makes this hard to test is slow: set_pl_clock and load_bitstream    *)
(* never close the file they open, so a driver that runs long enough has    *)
(* no descriptor left, and the files are then refused for good, or read as  *)
(* uninitialised memory.  The driver also forgets what its kernel module    *)
(* remembers each time it is relaunched, and the module what the driver     *)
(* remembers each time it is removed and inserted again under it.           *)
(***************************************************************************)
EXTENDS KernelModule

CONSTANTS
  Ids,              \* the clock numbers clients send
  Values,           \* the rates clients send
  RateModulus,      \* 2^32: set_pl_clock takes 32 bits
  Names,            \* the generated clocks clients name
  Levels,           \* the names of the debug levels
  DescriptorLimit,  \* descriptors left to the process once it has started
  DmaAddress,       \* what the attribute of the board's module says
  Garbage           \* what uninitialised memory holds, told apart from what is meant

ASSUME PlatformAssumption ==
  /\ Ids \subseteq Nat /\ Values \subseteq Nat
  /\ RateModulus \in Nat \ {0}
  /\ DescriptorLimit \in Nat \ {0}
  /\ None \notin Nat /\ Garbage \notin Nat
  /\ None # Garbage /\ DmaAddress # Garbage
  /\ Levels \subseteq STRING /\ "minimal" \in Levels

VARIABLES
  up,                \* the driver process runs
  connected,         \* a client is connected; the server has one at a time
  leaked,            \* descriptors opened and never closed by this process
  fpga_loaded,       \* fpga_bridge::fpga_loaded
  ps_pl_clk_f,       \* timing_manager's copy of the rates
  generated_clocks,  \* the names timing_manager has an entry for
  level,             \* the level of the log
  scope_address,     \* hardware: the register that holds the DMA address
  starved,           \* something failed for want of a descriptor
  settings,          \* clock settings and loads asked of this process, capped
  reloaded,          \* the module was removed or inserted under this process
  answer             \* the last answer and the value it carries

driverVars == <<connected, leaked, fpga_loaded, ps_pl_clk_f, generated_clocks, level>>
historyVars == <<starved, settings, reloaded>>
vars == <<kernel, up, driverVars, scope_address, historyVars, answer>>

\* A defect: the rate is kept in a signed integer.
RateSigned(value) ==
  LET rate == value % RateModulus IN IF 2 * rate < RateModulus THEN rate ELSE rate - RateModulus

Rate(value) == value % RateModulus
Clock(id)   == id % 256

----------------------------------------------------------------------------
(* The process and its descriptors *)

\* What a board's FPGA manager says in its state file, whatever the module; the
\* mock has none.
StateFile == ~kernel.mock /\ kernel.fpga_loaded

\* timing_manager's constructor that reads the rates is never called.
Init ==
  /\ kernel \in [mock : BOOLEAN, inserted : {TRUE}, devices : {Devices}, attributes : {4},
                 fpga_loaded : BOOLEAN, rate : {[c \in Clocks |-> None]}]
  /\ kernel.mock => ~kernel.fpga_loaded
  /\ up = TRUE /\ connected = FALSE /\ leaked = 0
  /\ fpga_loaded = StateFile
  /\ ps_pl_clk_f = [c \in Clocks |-> Garbage]
  /\ generated_clocks = {}
  /\ level \in Levels
  /\ scope_address = None
  /\ starved = FALSE /\ settings = 0 /\ reloaded = FALSE
  /\ answer = <<"none", None>>

\* A defect: the socket is closed before its command is performed.
DescriptorFreeOfSocket == leaked < DescriptorLimit

\* open() or an ifstream: the connection holds one descriptor itself.
DescriptorFree == leaked + 1 < DescriptorLimit

Answer(code, data) == answer' = <<code, data>>

\* An uncaught exception or a signal that ends the process.
Dies == /\ up' = FALSE /\ connected' = FALSE
        /\ Answer("none", None)
        /\ UNCHANGED <<kernel, leaked, fpga_loaded, ps_pl_clk_f, generated_clocks, level,
                       scope_address, historyVars>>

\* accept() takes a descriptor, or throws and nothing catches it.
Connect ==
  /\ up /\ ~connected
  /\ IF leaked < DescriptorLimit
       THEN /\ connected' = TRUE
            /\ UNCHANGED <<kernel, up, leaked, fpga_loaded, ps_pl_clk_f, generated_clocks,
                           level, scope_address, historyVars, answer>>
       ELSE /\ starved' = TRUE
            /\ up' = FALSE
            /\ UNCHANGED <<kernel, driverVars, scope_address, settings, reloaded, answer>>

\* A defect: the socket stays open when its connection ends.
SocketsLeakedOne == 1

\* The socket is closed when its connection ends.
SocketsLeaked == 0
Disconnect ==
  /\ connected /\ connected' = FALSE
  /\ leaked' = leaked + SocketsLeaked
  /\ Answer("none", None)
  /\ UNCHANGED <<kernel, up, fpga_loaded, ps_pl_clk_f, generated_clocks, level,
                 scope_address, historyVars>>

Signal == up /\ Dies

\* Without the devices of the buses the process exits at once.
Launch ==
  /\ ~up /\ "buses" \in kernel.devices
  /\ up' = TRUE /\ connected' = FALSE /\ leaked' = 0
  /\ fpga_loaded' = StateFile
  /\ ps_pl_clk_f' = [c \in Clocks |-> Garbage]
  /\ generated_clocks' = {}
  /\ level' \in Levels
  /\ starved' = FALSE /\ settings' = 0 /\ reloaded' = FALSE
  /\ UNCHANGED <<kernel, scope_address, answer>>

\* The module is removed or inserted, under a driver that runs too.
ReloadModule ==
  /\ ucube_lkm_init \/ ucube_lkm_exit
  /\ reloaded' = up
  /\ UNCHANGED <<up, driverVars, scope_address, starved, settings, answer>>

----------------------------------------------------------------------------
(* Clocks *)

\* A file opened and not closed, or one that is missing or finds no descriptor.
Asked == settings' = IF settings < DescriptorLimit THEN settings + 1 ELSE settings
Opened == Asked /\ leaked' = leaked + 1 /\ UNCHANGED <<starved, reloaded>>
NotOpened == /\ Asked /\ starved' = (starved \/ ~DescriptorFree)
             /\ UNCHANGED <<leaked, reloaded>>

\* A defect: the copy is made before the outcome is known.
StoredAtOnce(clock, rate, accepted) == ps_pl_clk_f' = [ps_pl_clk_f EXCEPT ![clock] = rate]

\* set_base_clock: the copy follows the rate only when it was accepted.
Stored(clock, rate, accepted) ==
  ps_pl_clk_f' = IF accepted THEN [ps_pl_clk_f EXCEPT ![clock] = rate] ELSE ps_pl_clk_f

set_pl_clock(clock, rate) ==
  \/ /\ ~DescriptorFree \/ clock >= kernel.attributes
     /\ NotOpened
     /\ Stored(clock, rate, FALSE) /\ UNCHANGED kernel
     /\ Answer("driver_file_not_found", None)
  \/ /\ DescriptorFree /\ clock < kernel.attributes /\ Opened
     /\ fclk_refuse /\ Stored(clock, rate, FALSE)
     /\ Answer("driver_write_failed", None)
  \/ /\ DescriptorFree /\ clock < kernel.attributes /\ Opened
     /\ fclk_store(clock, rate) /\ Stored(clock, rate, TRUE)
     /\ Answer("ok", None)

\* get_clock_if throws for a clock that does not exist.
SetBaseClock(id, value) ==
  /\ connected
  /\ IF Clock(id) \in Clocks
       THEN /\ set_pl_clock(Clock(id), Rate(value))
            /\ UNCHANGED <<up, connected, fpga_loaded, generated_clocks, level, scope_address>>
       ELSE Dies

\* A clock past the last reads past the array.
GetBaseClock(id) ==
  /\ connected
  /\ Answer("ok", IF Clock(id) \in Clocks THEN ps_pl_clk_f[Clock(id)] ELSE Garbage)
  /\ UNCHANGED <<kernel, up, driverVars, scope_address, historyVars>>

\* Asking for a name inserts it, all zero, and divides by its divider: a signal
\* or, where the division does not trap, zero.
GetGeneratedClock(name) ==
  /\ connected
  /\ \/ Dies
     \/ /\ generated_clocks' = generated_clocks \union {name}
        /\ Answer("ok", 0)
        /\ UNCHANGED <<kernel, up, connected, leaked, fpga_loaded, ps_pl_clk_f, level,
                       scope_address, historyVars>>

\* The fpga_bridge of a default-constructed timing_manager is null; an unknown
\* name is answered ok.
SetGeneratedClock(name) ==
  /\ connected
  /\ IF name \in generated_clocks /\ fpga_loaded
       THEN Dies
       ELSE Answer("ok", None) /\ UNCHANGED <<kernel, up, driverVars, scope_address, historyVars>>

----------------------------------------------------------------------------
(* The files of the FPGA *)

\* A defect: the result of the ioctl is not tested.
LoadedByStatus(ioctl, status) == status # "0"

\* load_bitstream: an unchecked write, an ioctl that fails on a file that was
\* not opened, and a status byte that is uninitialised if nothing was read.
\* A board that is programmed forgets its registers; the mock's are memory.
Loaded(ioctl, status) == ioctl /\ status # "0"

BitstreamOpens == DescriptorFree /\ "bitstream" \in kernel.devices

LoadBitstream ==
  /\ connected
  /\ IF BitstreamOpens THEN Opened /\ ucube_lkm_write ELSE NotOpened /\ UNCHANGED kernel
  /\ \E ioctl \in IF BitstreamOpens THEN ucube_lkm_ioctl ELSE {FALSE},
        status \in IF BitstreamOpens THEN {ucube_lkm_read} ELSE {"0", "uninitialised"} :
       IF Loaded(ioctl, status)
         THEN fpga_loaded' = TRUE /\ Answer("ok", None)
         ELSE UNCHANGED fpga_loaded /\ Answer("bitstream_load_failed", None)
  /\ scope_address' \in IF BitstreamOpens /\ ~kernel.mock THEN {scope_address, None}
                                                          ELSE {scope_address}
  /\ UNCHANGED <<up, connected, ps_pl_clk_f, generated_clocks, level>>

\* set_scope_data: nothing tells whether the address was read.  The stream is
\* closed again.  A register mapped through a module that is gone may fault.
SetScopeAddress ==
  /\ connected
  /\ \/ reloaded /\ fpga_loaded /\ Dies
     \/ /\ scope_address' = CASE ~fpga_loaded -> scope_address
                              [] fpga_loaded /\ DescriptorFree /\ HasDmaAttribute -> DmaAddress
                              [] OTHER -> Garbage
        /\ starved' = (starved \/ ~DescriptorFree)
        /\ Answer("ok", None)
        /\ UNCHANGED <<kernel, up, driverVars, settings, reloaded>>

----------------------------------------------------------------------------
(* The rest of the platform commands *)

\* get_version: four constant strings, ok whatever the component.
GetVersion ==
  /\ connected /\ Answer("ok", "version")
  /\ UNCHANGED <<kernel, up, driverVars, scope_address, historyVars>>

\* An unknown level changes nothing and is answered ok.
SetDebugLevel ==
  /\ connected
  /\ \E name \in Levels \union {"unknown"} :
       level' = IF name \in Levels THEN name ELSE level
  /\ Answer("ok", None)
  /\ UNCHANGED <<kernel, up, connected, leaked, fpga_loaded, ps_pl_clk_f, generated_clocks,
                 scope_address, historyVars>>

GetDebugLevel ==
  /\ connected /\ Answer("ok", level)
  /\ UNCHANGED <<kernel, up, driverVars, scope_address, historyVars>>

\* A missing key, an is_primary that is no boolean, a component or a level that
\* is no string is refused; any other wrong type is an uncaught type_error.
WrongArguments ==
  /\ connected
  /\ \/ Dies
     \/ /\ Answer("invalid_arg", None)
        /\ UNCHANGED <<kernel, up, driverVars, scope_address, historyVars>>

process_command ==
  \/ \E id \in Ids : GetBaseClock(id) \/ \E value \in Values : SetBaseClock(id, value)
  \/ \E name \in Names : GetGeneratedClock(name) \/ SetGeneratedClock(name)
  \/ GetVersion \/ SetDebugLevel \/ GetDebugLevel \/ WrongArguments
  \/ LoadBitstream \/ SetScopeAddress

Next == Connect \/ Disconnect \/ Signal \/ Launch \/ ReloadModule \/ process_command

Spec == Init /\ [][Next]_vars

----------------------------------------------------------------------------
(* Properties *)

TypeOK ==
  /\ kernel \in [mock : BOOLEAN, inserted : BOOLEAN, devices : SUBSET Devices,
                 attributes : 0 .. 4, fpga_loaded : BOOLEAN,
                 rate : [Clocks -> Nat \union {None}]]
  /\ up \in BOOLEAN /\ connected \in BOOLEAN /\ leaked \in Nat
  /\ fpga_loaded \in BOOLEAN
  /\ ps_pl_clk_f \in [Clocks -> Nat \union {Garbage}]
  /\ generated_clocks \subseteq Names
  /\ scope_address \in {None, DmaAddress, Garbage}
  /\ level \in Levels
  /\ starved \in BOOLEAN /\ settings \in Nat /\ reloaded \in BOOLEAN

\* The rate the driver reports for a clock is the one its kernel module took
\* last, or, before this process has set it, uninitialised memory, through refused
\* and failed settings, missing files, relaunches and removals of the module.
\* Only a module inserted again under the driver makes them differ, and only for
\* the clocks it has not been given a rate since: the driver goes on reporting
\* what the module before it took (timing_manager::set_base_clock, mock_module.c
\* fclk_store).
ReportedRateIsAccepted ==
  up => \A c \in Clocks : \/ ps_pl_clk_f[c] \in {Garbage, kernel.rate[c]}
                          \/ reloaded /\ kernel.rate[c] = None

\* On the mock, a driver that lets register accesses through has had a
\* bitstream taken by a module, although load_bitstream checks neither the open
\* nor the write nor the read; that module is the one inserted unless it was
\* removed under the driver, which never takes its permission back.
LoadedIsReceived == (up /\ kernel.mock /\ fpga_loaded) => (kernel.fpga_loaded \/ reloaded)

\* The descriptors the driver leaks never include the last one, which the next
\* client needs: a request leaks only while its own connection holds one.  So
\* accept, whose failure would end the process, is never what fails.
NextClientIsAccepted == (up /\ ~connected) => leaked < DescriptorLimit

\* No open is refused for want of a descriptor, and no board whose module is
\* there is given a DMA address that is not its own, before this process has been
\* asked for enough clock settings and loads to use its descriptors up: no other
\* command costs one.  A file that is missing is refused at any time.
StarvedBySettingsOnly ==
  [][ \/ starved' /\ ~starved
      \/ scope_address' # scope_address /\ scope_address' = Garbage /\ HasDmaAttribute
      => settings' >= DescriptorLimit - 1]_vars
=============================================================================
