---------------------------- MODULE KernelModule ----------------------------
(***************************************************************************)
(* The kernel module behind the driver's device files, as mock_module.c    *)
(* writes it: the bitstream device (minor 3), which remembers that          *)
(* something was written to it, and the four clock attributes, which take   *)
(* any rate.  Nothing keeps the module from being removed while the driver  *)
(* has its files open (file_ops has no owner), and much of what can fail    *)
(* when it is inserted is only logged.                                      *)
(* The module of a board is not in this repository: what it may do instead  *)
(* of the mock is stated next to each operation.  The content of mapped     *)
(* memory and the sample device (minor 0) are left out.                     *)
(***************************************************************************)
EXTENDS Naturals

CONSTANTS None   \* no rate was stored through the attribute of the clock

VARIABLE kernel    \* what the machine's module is and what it holds

Clocks == 0 .. 3

Devices == {"buses", "bitstream"}   \* minors 1 and 2, and minor 3

\* attributes: the clocks below it have their attribute.  A removed or newly
\* inserted module has taken no bitstream and no rate; what a board's FPGA
\* manager knows of the bitstream outlives the module.
Module(inserted, devices, attributes) ==
  [kernel EXCEPT !.inserted = inserted, !.devices = devices, !.attributes = attributes,
                 !.fpga_loaded = ~kernel.mock /\ kernel.fpga_loaded,
                 !.rate = [c \in Clocks |-> None]]

NoModule == Module(FALSE, {}, 0)

\* It fails for want of device numbers or of a platform device.  A device that
\* cannot be added is only logged; an attribute that cannot be created ends the
\* function with dev_rc, which is 0: the module stays without it and those after.
ucube_lkm_init ==
  /\ ~kernel.inserted
  /\ \/ kernel' = NoModule
     \/ \E devices \in SUBSET Devices, attributes \in 0 .. 4 :
          kernel' = Module(TRUE, devices, attributes)

\* Where the attribute of clock 2 or of one before was not created, the platform
\* device of the next is a null pointer: what follows in the function is not
\* done, and the module can be neither removed nor inserted again.
ucube_lkm_exit ==
  /\ kernel.inserted
  /\ \/ kernel' = NoModule
     \/ kernel.attributes < 3 /\ kernel' = [kernel EXCEPT !.attributes = 0]

\* A write of minor 3.  A board may lose the bitstream on its way.
ucube_lkm_write ==
  \E received \in IF kernel.mock THEN {TRUE} ELSE BOOLEAN :
    kernel' = [kernel EXCEPT !.fpga_loaded = received]

\* The byte a read of minor 3 gives, once ucube_lkm_write has been called.
ucube_lkm_read == IF kernel'.fpga_loaded THEN "1" ELSE "0"

\* ioctl on minor 3 succeeds; that of a board may not.
ucube_lkm_ioctl == IF kernel.mock THEN {TRUE} ELSE BOOLEAN

\* The mock takes any rate; a board may refuse one it cannot generate.
fclk_store(clock, rate) == kernel' = [kernel EXCEPT !.rate[clock] = rate]
fclk_refuse == ~kernel.mock /\ UNCHANGED kernel

\* Only the board's module has the attribute with the address of its buffer.
HasDmaAttribute == ~kernel.mock /\ kernel.inserted
=============================================================================
