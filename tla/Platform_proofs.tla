-------------------------- MODULE Platform_proofs ---------------------------
(***************************************************************************)
(* What holds of the clocks, the bitstream and the descriptors for any      *)
(* number of clocks numbers, rates and descriptors, on the mock module and  *)
(* on a board, with the module removed and inserted at any time.            *)
(***************************************************************************)
EXTENDS Platform, TLAPS

\* The part of the state each property needs, in one invariant: what is open
\* while a client is connected is what makes it inductive.
Descriptors == up => leaked < DescriptorLimit
ConnectedIsUp == connected => up

Inv == TypeOK /\ ConnectedIsUp /\ Descriptors /\ ReportedRateIsAccepted /\ LoadedIsReceived

LEMMA Arithmetic ==
  /\ \A value \in Values : Rate(value) \in Nat
  /\ \A id \in Ids : Clock(id) \in Nat
  BY PlatformAssumption DEF Rate, Clock

LEMMA InitInv == Init => Inv
<1> SUFFICES ASSUME Init PROVE Inv
  OBVIOUS
<1> USE PlatformAssumption DEF Init
<1>1. kernel \in [mock : BOOLEAN, inserted : BOOLEAN, devices : SUBSET Devices,
                  attributes : 0 .. 4, fpga_loaded : BOOLEAN,
                  rate : [Clocks -> Nat \union {None}]]
  <2>1. [c \in Clocks |-> None] \in [Clocks -> Nat \union {None}]
    OBVIOUS
  <2>2. PICK rate \in {[c \in Clocks |-> None]} :
          kernel \in [mock : BOOLEAN, inserted : {TRUE}, devices : {Devices}, attributes : {4},
                     fpga_loaded : BOOLEAN, rate : {rate}]
    OBVIOUS
  <2>3. rate \in [Clocks -> Nat \union {None}] /\ Devices \in SUBSET Devices /\ 4 \in 0 .. 4
    BY <2>1
  <2> QED BY <2>2, <2>3
<1>2. TypeOK
  BY <1>1 DEF TypeOK, StateFile
<1>3. ReportedRateIsAccepted
  BY DEF ReportedRateIsAccepted
<1>4. LoadedIsReceived
  BY <1>1 DEF LoadedIsReceived, StateFile
<1>5. QED
  BY <1>2, <1>3, <1>4 DEF Inv, ConnectedIsUp, Descriptors

\* A command that dies, or that only answers, keeps the invariant.
LEMMA DiesInv == ASSUME Inv, Dies PROVE Inv'
  BY DEF Inv, TypeOK, ConnectedIsUp, Descriptors, ReportedRateIsAccepted, LoadedIsReceived,
         Dies, historyVars

LEMMA AnswerInv ==
  ASSUME Inv, UNCHANGED <<kernel, up, connected, leaked, fpga_loaded, ps_pl_clk_f>>,
         generated_clocks' \subseteq Names, level' \in Levels,
         scope_address' \in {None, DmaAddress, Garbage}, starved' \in BOOLEAN, settings' \in Nat,
         reloaded' = reloaded
  PROVE  Inv'
  BY DEF Inv, TypeOK, ConnectedIsUp, Descriptors, ReportedRateIsAccepted, LoadedIsReceived

\* What a request that opens a file of the module does to the descriptors.
LEMMA OpenInv ==
  ASSUME Inv, connected, (DescriptorFree /\ Opened) \/ NotOpened
  PROVE  /\ leaked' \in Nat /\ leaked' < DescriptorLimit
         /\ starved' \in BOOLEAN /\ settings' \in Nat /\ reloaded' = reloaded
<1>1. /\ leaked \in Nat /\ leaked < DescriptorLimit /\ starved \in BOOLEAN /\ settings \in Nat
      /\ DescriptorLimit \in Nat
  BY PlatformAssumption DEF Inv, TypeOK, ConnectedIsUp, Descriptors
<1>2. settings' \in Nat
  BY <1>1 DEF Opened, NotOpened, Asked
<1>3. leaked' \in Nat /\ leaked' < DescriptorLimit
  BY <1>1 DEF DescriptorFree, Opened, NotOpened
<1>4. starved' \in BOOLEAN /\ reloaded' = reloaded
  BY <1>1 DEF Opened, NotOpened, DescriptorFree
<1>5. QED
  BY <1>2, <1>3, <1>4

LEMMA SetBaseClockInv ==
  ASSUME Inv, NEW id \in Ids, NEW value \in Values, SetBaseClock(id, value)
  PROVE  Inv'
<1>1. CASE Clock(id) \notin Clocks
  BY <1>1, DiesInv DEF SetBaseClock
<1>2. CASE Clock(id) \in Clocks
  <2> DEFINE clock == Clock(id)  rate == Rate(value)
  <2>0. /\ connected /\ up /\ set_pl_clock(clock, rate) /\ clock \in Clocks /\ rate \in Nat
        /\ UNCHANGED <<up, connected, fpga_loaded, generated_clocks, level, scope_address>>
    BY <1>2, Arithmetic DEF SetBaseClock, Inv, ConnectedIsUp
  <2> HIDE DEF clock, rate
  <2>1. (DescriptorFree /\ Opened) \/ NotOpened
    BY <2>0 DEF set_pl_clock
  <2>2. /\ leaked' \in Nat /\ leaked' < DescriptorLimit
        /\ starved' \in BOOLEAN /\ settings' \in Nat /\ reloaded' = reloaded
    BY <2>0, <2>1, OpenInv
  <2>3. \/ UNCHANGED <<kernel, ps_pl_clk_f>>
        \/ /\ kernel' = [kernel EXCEPT !.rate[clock] = rate]
           /\ ps_pl_clk_f' = [ps_pl_clk_f EXCEPT ![clock] = rate]
    BY <2>0 DEF set_pl_clock, Stored, fclk_store, fclk_refuse
  <2>4. TypeOK'
    BY <2>0, <2>2, <2>3 DEF Inv, TypeOK
  <2>5. ReportedRateIsAccepted'
    BY <2>0, <2>2, <2>3 DEF Inv, TypeOK, ReportedRateIsAccepted
  <2>6. LoadedIsReceived'
    BY <2>0, <2>2, <2>3 DEF Inv, TypeOK, LoadedIsReceived
  <2>7. QED
    BY <2>0, <2>2, <2>4, <2>5, <2>6 DEF Inv, ConnectedIsUp, Descriptors
<1>3. QED
  BY <1>1, <1>2

LEMMA LoadBitstreamInv == ASSUME Inv, LoadBitstream PROVE Inv'
<1>0. /\ connected /\ up
      /\ UNCHANGED <<up, connected, ps_pl_clk_f, generated_clocks, level>>
  BY DEF LoadBitstream, Inv, ConnectedIsUp
<1>1. (DescriptorFree /\ Opened) \/ NotOpened
  BY DEF LoadBitstream, BitstreamOpens
<1>2. /\ leaked' \in Nat /\ leaked' < DescriptorLimit
      /\ starved' \in BOOLEAN /\ settings' \in Nat /\ reloaded' = reloaded
  BY <1>0, <1>1, OpenInv
<1>3. \/ UNCHANGED kernel
      \/ \E received \in BOOLEAN :
           kernel' = [kernel EXCEPT !.fpga_loaded = received]
  BY DEF LoadBitstream, ucube_lkm_write
<1>4. fpga_loaded' \in {TRUE, fpga_loaded} /\ scope_address' \in {scope_address, None}
  BY DEF LoadBitstream
<1>5. TypeOK'
  BY <1>0, <1>2, <1>3, <1>4 DEF Inv, TypeOK
<1>6. ReportedRateIsAccepted'
  BY <1>0, <1>2, <1>3 DEF Inv, TypeOK, ReportedRateIsAccepted
<1>7. LoadedIsReceived'
  <2>1. SUFFICES ASSUME kernel.mock PROVE fpga_loaded' => (kernel'.fpga_loaded \/ reloaded)
    BY <1>2, <1>3 DEF LoadedIsReceived, Inv, TypeOK
  <2>2. CASE BitstreamOpens
    BY <2>1, <2>2 DEF LoadBitstream, ucube_lkm_write, Inv, TypeOK
  <2>3. CASE ~BitstreamOpens
    <3>1. UNCHANGED <<kernel, fpga_loaded>>
      BY <2>3 DEF LoadBitstream, Loaded
    <3>2. QED
      BY <1>0, <2>1, <3>1 DEF Inv, LoadedIsReceived
  <2>4. QED
    BY <2>2, <2>3
<1>8. QED
  BY <1>0, <1>2, <1>5, <1>6, <1>7 DEF Inv, ConnectedIsUp, Descriptors

LEMMA CommandInv == ASSUME Inv, process_command PROVE Inv'
<1>1. ASSUME NEW id \in Ids, GetBaseClock(id) PROVE Inv'
  BY <1>1, AnswerInv DEF GetBaseClock, driverVars, historyVars, Inv, TypeOK
<1>2. ASSUME NEW id \in Ids, NEW value \in Values, SetBaseClock(id, value) PROVE Inv'
  BY <1>2, SetBaseClockInv
<1>3. ASSUME NEW name \in Names, GetGeneratedClock(name) PROVE Inv'
  BY <1>3, DiesInv, AnswerInv DEF GetGeneratedClock, historyVars, Inv, TypeOK
<1>4. ASSUME NEW name \in Names, SetGeneratedClock(name) PROVE Inv'
  BY <1>4, DiesInv, AnswerInv DEF SetGeneratedClock, driverVars, historyVars, Inv, TypeOK
<1>5. ASSUME GetVersion \/ GetDebugLevel PROVE Inv'
  BY <1>5, AnswerInv DEF GetVersion, GetDebugLevel, driverVars, historyVars, Inv, TypeOK
<1>6. ASSUME SetDebugLevel PROVE Inv'
  BY <1>6, AnswerInv DEF SetDebugLevel, historyVars, Inv, TypeOK
<1>7. ASSUME WrongArguments PROVE Inv'
  BY <1>7, DiesInv, AnswerInv DEF WrongArguments, driverVars, historyVars, Inv, TypeOK
<1>8. ASSUME SetScopeAddress PROVE Inv'
  <2>1. CASE Dies
    BY <2>1, DiesInv
  <2>2. CASE /\ scope_address' \in {scope_address, DmaAddress, Garbage}
             /\ starved' = (starved \/ ~DescriptorFree)
             /\ UNCHANGED <<kernel, up, driverVars, settings, reloaded>>
    BY <2>2, AnswerInv DEF driverVars, Inv, TypeOK, DescriptorFree
  <2>3. QED
    BY <1>8, <2>1, <2>2 DEF SetScopeAddress
<1>9. QED
  BY <1>1, <1>2, <1>3, <1>4, <1>5, <1>6, <1>7, <1>8, LoadBitstreamInv DEF process_command

LEMMA NextInv == ASSUME Inv, [Next]_vars PROVE Inv'
<1>1. CASE Connect
  BY <1>1 DEF Connect, Inv, TypeOK, ConnectedIsUp, Descriptors, ReportedRateIsAccepted,
              LoadedIsReceived, driverVars, historyVars
<1>2. CASE Disconnect
  <2>1. leaked' = leaked
    BY <1>2 DEF Disconnect, SocketsLeaked, Inv, TypeOK
  <2>2. QED
    BY <1>2, <2>1 DEF Disconnect, Inv, TypeOK, ConnectedIsUp, Descriptors,
                      ReportedRateIsAccepted, LoadedIsReceived, historyVars
<1>3. CASE Signal
  BY <1>3, DiesInv DEF Signal
<1>4. CASE Launch
  <2>1. TypeOK'
    BY <1>4, PlatformAssumption DEF Launch, StateFile, Inv, TypeOK
  <2>2. ReportedRateIsAccepted' /\ LoadedIsReceived'
    BY <1>4 DEF Launch, StateFile, ReportedRateIsAccepted, LoadedIsReceived
  <2>3. QED
    BY <1>4, <2>1, <2>2, PlatformAssumption DEF Launch, Inv, ConnectedIsUp, Descriptors
<1>5. CASE ReloadModule
  <2> DEFINE Goal == /\ kernel' \in [mock : BOOLEAN, inserted : BOOLEAN, devices : SUBSET Devices,
                                     attributes : 0 .. 4, fpga_loaded : BOOLEAN,
                                     rate : [Clocks -> Nat \union {None}]]
                     /\ \A c \in Clocks : kernel'.rate[c] \in {kernel.rate[c], None}
  <2>1. Goal
    <3>1. /\ kernel \in [mock : BOOLEAN, inserted : BOOLEAN, devices : SUBSET Devices,
                         attributes : 0 .. 4, fpga_loaded : BOOLEAN,
                         rate : [Clocks -> Nat \union {None}]]
      BY DEF Inv, TypeOK
    <3>2. CASE kernel' = [kernel EXCEPT !.attributes = 0]
      BY <3>1, <3>2
    <3>3. ASSUME NEW inserted \in BOOLEAN, NEW devices \in SUBSET Devices,
                 NEW attributes \in 0 .. 4, kernel' = Module(inserted, devices, attributes)
          PROVE  Goal
      <4> DEFINE none == [c \in Clocks |-> None]
      <4>1. none \in [Clocks -> Nat \union {None}] /\ \A c \in Clocks : none[c] = None
        OBVIOUS
      <4>2. kernel' = [kernel EXCEPT !.inserted = inserted, !.devices = devices,
                         !.attributes = attributes,
                         !.fpga_loaded = ~kernel.mock /\ kernel.fpga_loaded, !.rate = none]
        BY <3>3 DEF Module
      <4> HIDE DEF none
      <4> QED BY <3>1, <4>1, <4>2
    <3>4. QED
      <4>1. {} \in SUBSET Devices /\ 0 \in 0 .. 4
        OBVIOUS
      <4>2. \/ kernel' = [kernel EXCEPT !.attributes = 0]
            \/ kernel' = Module(FALSE, {}, 0)
            \/ \E devices \in SUBSET Devices, attributes \in 0 .. 4 :
                 kernel' = Module(TRUE, devices, attributes)
        BY <1>5 DEF ReloadModule, ucube_lkm_init, ucube_lkm_exit, NoModule
      <4>3. CASE kernel' = Module(FALSE, {}, 0)
        BY <3>3, <4>1, <4>3
      <4>4. CASE \E devices \in SUBSET Devices, attributes \in 0 .. 4 :
                   kernel' = Module(TRUE, devices, attributes)
        <5>1. PICK devices \in SUBSET Devices, attributes \in 0 .. 4 :
                kernel' = Module(TRUE, devices, attributes)
          BY <4>4
        <5> HIDE DEF Goal
        <5> QED BY <3>3, <5>1
      <4> HIDE DEF Goal
      <4> QED BY <3>2, <4>2, <4>3, <4>4
  <2>2. reloaded' = up /\ UNCHANGED <<up, driverVars, scope_address, starved, settings>>
    BY <1>5 DEF ReloadModule
  <2>3. TypeOK'
    BY <2>1, <2>2 DEF Inv, TypeOK, driverVars
  <2>4. ReportedRateIsAccepted'
    <3>1. CASE ~up
      BY <2>2, <3>1 DEF ReportedRateIsAccepted
    <3>2. CASE up
      BY <2>1, <2>2, <3>2 DEF Inv, ReportedRateIsAccepted, driverVars
    <3>3. QED
      BY <3>1, <3>2
  <2>5. LoadedIsReceived'
    BY <2>2 DEF LoadedIsReceived
  <2>6. QED
    BY <2>2, <2>3, <2>4, <2>5 DEF Inv, ConnectedIsUp, Descriptors, driverVars
<1>6. CASE process_command
  BY <1>6, CommandInv
<1>7. CASE UNCHANGED vars
  BY <1>7, AnswerInv DEF vars, driverVars, historyVars, Inv, TypeOK
<1>8. QED
  BY <1>1, <1>2, <1>3, <1>4, <1>5, <1>6, <1>7 DEF Next

LEMMA Invariance == Spec => []Inv
<1>1. Init => Inv
  BY InitInv
<1>2. Inv /\ [Next]_vars => Inv'
  BY NextInv
<1>3. QED
  BY <1>1, <1>2, PTL DEF Spec

\* Every variable keeps its type, for any clock numbers, rates and descriptors.
THEOREM PlatformTypeCorrect == Spec => []TypeOK
<1>1. Inv => TypeOK
  BY DEF Inv
<1>2. QED
  BY <1>1, Invariance, PTL

\* The rate the driver reports is the one the module took, or uninitialised, or,
\* of a module inserted again under the driver, one it has not been given.
THEOREM ReportedRateSound == Spec => []ReportedRateIsAccepted
<1>1. Inv => ReportedRateIsAccepted
  BY DEF Inv
<1>2. QED
  BY <1>1, Invariance, PTL

\* On the mock, register accesses are let through only after a bitstream, taken
\* by the module inserted unless that was removed under the driver.
THEOREM LoadedSound == Spec => []LoadedIsReceived
<1>1. Inv => LoadedIsReceived
  BY DEF Inv
<1>2. QED
  BY <1>1, Invariance, PTL

\* However many descriptors leak, the next client's is left.
THEOREM NextClientSound == Spec => []NextClientIsAccepted
<1>1. Inv => NextClientIsAccepted
  BY DEF Inv, Descriptors, NextClientIsAccepted
<1>2. QED
  BY <1>1, Invariance, PTL

----------------------------------------------------------------------------
(* What uses the descriptors up *)

\* A process has been asked at least as often as it leaks.
Asking == up => leaked <= settings
AskingInv == Inv /\ Asking

\* A file of the module is opened, or cannot be when that has been asked for often.
LEMMA OpenAsked ==
  ASSUME AskingInv, up, (DescriptorFree /\ Opened) \/ NotOpened
  PROVE  leaked' <= settings' /\ (starved' /\ ~starved => settings' >= DescriptorLimit - 1)
<1>1. /\ leaked \in Nat /\ settings \in Nat /\ DescriptorLimit \in Nat
      /\ leaked <= settings /\ leaked < DescriptorLimit
  BY PlatformAssumption DEF AskingInv, Asking, Inv, TypeOK, Descriptors
<1>2. settings' = IF settings < DescriptorLimit THEN settings + 1 ELSE settings
  BY DEF Opened, NotOpened, Asked
<1>3. CASE DescriptorFree /\ Opened
  <2>1. leaked' = leaked + 1 /\ starved' = starved
    BY <1>3 DEF Opened
  <2> QED BY <1>1, <1>2, <2>1
<1>4. CASE NotOpened
  <2>1. leaked' = leaked /\ (starved' /\ ~starved => ~DescriptorFree)
    BY <1>4 DEF NotOpened
  <2>2. ~DescriptorFree => leaked + 1 >= DescriptorLimit
    BY <1>1 DEF DescriptorFree
  <2>3. settings' \in Nat /\ settings' >= settings
    BY <1>1, <1>2
  <2> QED BY <1>1, <2>1, <2>2, <2>3
<1> QED BY <1>3, <1>4

\* What starves the process, or gives a board another DMA address.
Starves == \/ starved' /\ ~starved
           \/ scope_address' # scope_address /\ scope_address' = Garbage /\ HasDmaAttribute

Kept == UNCHANGED <<up, leaked, starved, settings, scope_address>>

LEMMA KeptAsks == ASSUME Asking, Kept PROVE Asking' /\ ~Starves
BY DEF Asking, Kept, Starves

LEMMA DiesAsks == ASSUME Dies PROVE Asking' /\ ~Starves
BY DEF Dies, Asking, Starves, historyVars

LEMMA AskingStep ==
  ASSUME AskingInv, Next PROVE Asking' /\ (Starves => settings' >= DescriptorLimit - 1)
<1> DEFINE Goal == Asking' /\ (Starves => settings' >= DescriptorLimit - 1)
<1>1. Asking /\ ConnectedIsUp /\ leaked \in Nat /\ settings \in Nat /\ DescriptorLimit \in Nat
      /\ (up => leaked < DescriptorLimit) /\ None # Garbage /\ DmaAddress # Garbage
  BY PlatformAssumption DEF AskingInv, Inv, TypeOK, Descriptors
<1>2. CASE Connect
  <2>1. up /\ leaked < DescriptorLimit
    BY <1>1, <1>2 DEF Connect
  <2> QED BY <1>1, <1>2, <2>1, KeptAsks DEF Connect, Kept, historyVars
<1>3. CASE Disconnect
  <2>1. leaked' = leaked
    BY <1>1, <1>3 DEF Disconnect, SocketsLeaked
  <2> QED BY <1>1, <1>3, <2>1, KeptAsks DEF Disconnect, Kept, historyVars
<1>4. CASE Signal
  BY <1>4, DiesAsks DEF Signal
<1>5. CASE Launch
  <2>1. leaked' = 0 /\ settings' = 0 /\ starved' = FALSE /\ scope_address' = scope_address
    BY <1>5 DEF Launch
  <2>2. Asking' /\ ~Starves
    BY <2>1 DEF Asking, Starves
  <2> QED BY <2>2
<1>6. CASE ReloadModule
  BY <1>1, <1>6, KeptAsks DEF ReloadModule, Kept, historyVars, driverVars
<1>7. CASE process_command
  <2>1. ASSUME NEW id \in Ids, GetBaseClock(id) PROVE Goal
    BY <1>1, <2>1, KeptAsks DEF GetBaseClock, Kept, historyVars, driverVars
  <2>2. ASSUME NEW id \in Ids, NEW value \in Values, SetBaseClock(id, value) PROVE Goal
    <3>1. CASE Dies
      BY <3>1, DiesAsks
    <3>2. CASE /\ set_pl_clock(Clock(id), Rate(value))
               /\ UNCHANGED <<up, connected, fpga_loaded, generated_clocks, level, scope_address>>
      <4>1. (DescriptorFree /\ Opened) \/ NotOpened
        BY <3>2 DEF set_pl_clock
      <4>2. up
        BY <1>1, <2>2 DEF SetBaseClock, ConnectedIsUp
      <4>3. leaked' <= settings' /\ (starved' /\ ~starved => settings' >= DescriptorLimit - 1)
        BY <4>1, <4>2, OpenAsked
      <4> QED BY <3>2, <4>3 DEF Asking, Starves
    <3> QED BY <2>2, <3>1, <3>2 DEF SetBaseClock
  <2>3. ASSUME NEW name \in Names, GetGeneratedClock(name) PROVE Goal
    <3>1. CASE Dies
      BY <3>1, DiesAsks
    <3>2. CASE Kept
      BY <1>1, <3>2, KeptAsks
    <3> QED BY <2>3, <3>1, <3>2 DEF GetGeneratedClock, Kept, historyVars
  <2>4. ASSUME NEW name \in Names, SetGeneratedClock(name) PROVE Goal
    <3>1. CASE Dies
      BY <3>1, DiesAsks
    <3>2. CASE Kept
      BY <1>1, <3>2, KeptAsks
    <3> QED BY <2>4, <3>1, <3>2 DEF SetGeneratedClock, Kept, historyVars, driverVars
  <2>5. ASSUME GetVersion \/ SetDebugLevel \/ GetDebugLevel PROVE Goal
    <3>1. Kept
      BY <2>5 DEF GetVersion, SetDebugLevel, GetDebugLevel, Kept, historyVars, driverVars
    <3> QED BY <1>1, <3>1, KeptAsks
  <2>6. ASSUME WrongArguments PROVE Goal
    <3>1. CASE Dies
      BY <3>1, DiesAsks
    <3>2. CASE Kept
      BY <1>1, <3>2, KeptAsks
    <3> QED BY <2>6, <3>1, <3>2 DEF WrongArguments, Kept, historyVars, driverVars
  <2>7. ASSUME LoadBitstream PROVE Goal
    <3>1. (DescriptorFree /\ Opened) \/ NotOpened
      BY <2>7 DEF LoadBitstream, BitstreamOpens
    <3>2. up /\ UNCHANGED up /\ scope_address' \in {scope_address, None}
      BY <1>1, <2>7 DEF LoadBitstream, ConnectedIsUp
    <3>3. leaked' <= settings' /\ (starved' /\ ~starved => settings' >= DescriptorLimit - 1)
      BY <3>1, <3>2, OpenAsked
    <3> QED BY <1>1, <3>2, <3>3 DEF Asking, Starves
  <2>8. ASSUME SetScopeAddress PROVE Goal
    <3>1. CASE Dies
      BY <3>1, DiesAsks
    <3>2. CASE ~Dies
      <4>1. /\ up /\ UNCHANGED <<kernel, up, leaked, settings>>
            /\ starved' = (starved \/ ~DescriptorFree)
        BY <1>1, <2>8, <3>2 DEF SetScopeAddress, ConnectedIsUp, driverVars
      <4>2. CASE DescriptorFree
        <5>1. starved' = starved
          BY <4>1, <4>2 DEF AskingInv, Inv, TypeOK
        <5>2. HasDmaAttribute => scope_address' \in {scope_address, DmaAddress}
          BY <2>8, <3>2, <4>2 DEF SetScopeAddress
        <5> QED BY <1>1, <4>1, <5>1, <5>2 DEF Asking, Starves
      <4>3. CASE ~DescriptorFree
        <5>1. settings' >= DescriptorLimit - 1
          BY <1>1, <4>1, <4>3 DEF DescriptorFree, Asking
        <5> QED BY <1>1, <4>1, <5>1 DEF Asking
      <4> QED BY <4>2, <4>3
    <3> QED BY <3>1, <3>2
  <2> QED BY <1>7, <2>1, <2>2, <2>3, <2>4, <2>5, <2>6, <2>7, <2>8 DEF process_command
<1> QED BY <1>2, <1>3, <1>4, <1>5, <1>6, <1>7 DEF Next

\* Only clock settings and loads use the descriptors of a process up: before it
\* has been asked for enough of them, no open fails.
THEOREM StarvedSound == Spec => StarvedBySettingsOnly
<1>1. Init => AskingInv
  <2>1. Init => Asking
    BY DEF Init, Asking
  <2> QED BY <2>1, InitInv DEF AskingInv
<1>2. AskingInv /\ [Next]_vars => AskingInv'
  <2>1. CASE Next
    BY <2>1, AskingStep, NextInv DEF AskingInv
  <2>2. CASE UNCHANGED vars
    BY <2>2, NextInv DEF AskingInv, Asking, vars, driverVars, historyVars
  <2> QED BY <2>1, <2>2
<1>3. AskingInv /\ [Next]_vars =>
        [\/ starved' /\ ~starved
         \/ scope_address' # scope_address /\ scope_address' = Garbage /\ HasDmaAttribute
         => settings' >= DescriptorLimit - 1]_vars
  BY AskingStep DEF Starves
<1> QED BY <1>1, <1>2, <1>3, PTL DEF Spec, StarvedBySettingsOnly
=============================================================================
