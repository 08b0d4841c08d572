---------------------------- MODULE ScopeManager ----------------------------
(***************************************************************************)
(* The scope: scope_endpoints, scope_manager and scope_accessor.  It sets  *)
(* the acquisition up in the scope's registers, and turns the samples the  *)
(* kernel module has captured into one list of values per channel.         *)
(*                                                                         *)
(* Outside the repository are the hardware, which sends every sample with  *)
(* its channel and the metadata of its slot, and the kernel module, which  *)
(* hands over one buffer of samples per capture.                           *)
(***************************************************************************)
EXTENDS FpgaBridge, FiniteSetsExt
INSTANCE ChannelMetadata

CONSTANTS
  MuxBase, TbBase, InternalBase,   \* scope_address_map
  NChannels,       \* n_channels
  ScopeAddresses,  \* where the FPGA has scopes
  Bases,           \* scope addresses clients send, those of no scope included
  BufferOffsets,   \* offsets of the register of the buffer address clients send
  Acquisitions,    \* acquisitions clients ask for
  Scalings,        \* lists of scaling factors clients send
  Statuses,        \* sets of channels clients turn on
  TriggerStatuses, \* what the trigger status register may come to hold
  Buffers,         \* buffer addresses the kernel module may report
  BufferSize,      \* buffer_size: samples of a channel that fit in the buffer
  Captures,        \* what a read may hand over, sequences of samples
  Garbage,         \* factors found past the end of scaling_factors
  MaxOperations    \* bound on the log before a command

ASSUME ScopeAssumption ==
  /\ MuxBase \in Nat /\ TbBase \in Nat /\ InternalBase \in Nat
  /\ NChannels \in Nat /\ BufferSize \in Nat
  /\ ScopeAddresses \subseteq Nat \ {0}
  /\ Bases \subseteq Nat /\ BufferOffsets \subseteq Nat
  /\ Statuses \subseteq SUBSET (0 .. NChannels - 1)
  /\ TriggerStatuses \subseteq Word
  /\ Buffers \subseteq Nat
  /\ MaxOperations \in Nat

VARIABLES
  scope_base_address, first_load, scaling_factors,
  channel_status,   \* the channels whose status is true
  response,         \* the code of the last answer, the status for a status
                    \* request, or what the process died of
  data,             \* what the last read_data answered
  kernel,           \* what the kernel module has captured and not handed over
  acquired          \* auxiliary: the acquisition each scope was last set to

scopeVars == <<scope_base_address, first_load, scaling_factors, channel_status>>
vars == <<busVars, scopeVars, response, data, kernel, acquired>>

Channels == 0 .. NChannels - 1
Nothing == <<>>

\* Registers of the scope at an address: scope_mux_am, scope_tb_am, scope_internal_am.
MuxCtrl(b)     == b + MuxBase
TbCtrl(b)      == b + TbBase
TbPeriod(b)    == b + TbBase + 4
TbThreshold(b) == b + TbBase + 8
TrgMode(b)     == b + InternalBase
TrgLvl(b)      == b + InternalBase + 4
BufLow(b)      == b + InternalBase + 8
TrgSrc(b)      == b + InternalBase + 16
TrgPoint(b)    == b + InternalBase + 20
AcqMode(b)     == b + InternalBase + 24
TrgStatus(b)   == b + InternalBase + 28

Register(address) == registers[register_address_to_index(address)]

\* All of them, from MuxCtrl to TrgStatus.
ScopeOffsets == <<MuxBase, TbBase, TbBase + 4, TbBase + 8, InternalBase, InternalBase + 4,
                  InternalBase + 8, InternalBase + 16, InternalBase + 20, InternalBase + 24,
                  InternalBase + 28>>

\* The scopes are in the window and apart, and no offset is an address of it.
ASSUME ScopesApart ==
  /\ MuxBase < ControlAddr
  /\ \A b \in ScopeAddresses, i \in DOMAIN ScopeOffsets : ControlMapped(b + ScopeOffsets[i])
  /\ \A b, c \in ScopeAddresses, i, j \in DOMAIN ScopeOffsets :
       register_address_to_index(b + ScopeOffsets[i]) = register_address_to_index(c + ScopeOffsets[j])
         => b = c /\ i = j

\* The places in ScopeOffsets of the registers an acquisition is compared with.
Compared == {3, 5, 6, 8, 9, 10}

\* A client may send an address of no scope, and any offset, but not one that
\* makes another peripheral, or the buffer address, of a scope's settings.
ASSUME RequestsApart ==
  \A a \in Bases, b \in ScopeAddresses, i \in Compared :
    LET setting == register_address_to_index(b + ScopeOffsets[i])
    IN /\ \A offset \in BufferOffsets : register_address_to_index(a + offset) # setting
       /\ a \notin ScopeAddresses =>
            \A j \in DOMAIN ScopeOffsets :
              register_address_to_index(a + ScopeOffsets[j]) # setting

ASSUME AcquisitionsAreWords ==
  /\ Acquisitions \subseteq [mode : {"continuous", "single", "free_running"},
                             trigger : {"rising_edge", "falling_edge", "both"},
                             source : Word, level : Word, point : Word, prescaler : Word]
  /\ {0, 1, 2} \subseteq Word   \* the codes of triggers and modes

\* There is something in a capture: samples with their channel and slot.
ASSUME ScopeDataAssumption ==
  /\ Scalings \subseteq Seq(Int) /\ Garbage \subseteq Int
  /\ Captures \subseteq Seq([channel : Nat, value : Int,
                            slot : [width : Nat, is_signed : BOOLEAN, is_float : BOOLEAN]])
  /\ \A c \in Captures : Len(c) \in 1 .. NChannels * BufferSize

----------------------------------------------------------------------------
(* Answers *)

Answer(code) == /\ response' = IF up' THEN code ELSE "fault"
                /\ UNCHANGED <<data, kernel>>
Reject == response' = "invalid_arg" /\ UNCHANGED <<busVars, scopeVars, data, kernel, acquired>>
Die(of) == /\ process_exit
           /\ response' = of
           /\ UNCHANGED <<scopeVars, data, kernel, acquired>>

----------------------------------------------------------------------------
(* Acquisition *)

TriggerCode(trigger) ==
  CASE trigger = "falling_edge" -> 1 [] trigger = "both" -> 2 [] OTHER -> 0
ModeCode(mode) ==
  CASE mode = "single" -> 1 [] mode = "free_running" -> 2 [] OTHER -> 0

\* A defect: the timebase is addressed from the internal registers.
AcquisitionStoresMisplaced(b, a) ==
  <<<<TrgMode(b), TriggerCode(a.trigger)>>,
    <<TrgSrc(b), (a.source - 1) % WordModulus>>,
    <<TrgLvl(b), a.level>>,
    <<AcqMode(b), ModeCode(a.mode)>>,
    <<TrgPoint(b), a.point>>>>
  \o IF a.prescaler > 2
       THEN <<<<TrgMode(b), 1>>, <<TrgLvl(b), a.prescaler>>, <<BufLow(b), 1>>>>
       ELSE <<>>

\* A defect: the trigger source is not a word.
AcquisitionStoresUnwrapped(b, a) ==
  <<<<TrgMode(b), TriggerCode(a.trigger)>>, <<TrgSrc(b), a.source - 1>>>>

\* A prescaler of 2 or less leaves the timebase as it is.
AcquisitionStores(b, a) ==
  <<<<TrgMode(b), TriggerCode(a.trigger)>>,
    <<TrgSrc(b), (a.source - 1) % WordModulus>>,
    <<TrgLvl(b), a.level>>,
    <<AcqMode(b), ModeCode(a.mode)>>,
    <<TrgPoint(b), a.point>>>>
  \o IF a.prescaler > 2
       THEN <<<<TbCtrl(b), 1>>, <<TbPeriod(b), a.prescaler>>, <<TbThreshold(b), 1>>>>
       ELSE <<>>

set_acquisition(a) ==
  IF scope_base_address = 0 THEN UNCHANGED <<busVars, acquired>>
  ELSE /\ write_direct_all(AcquisitionStores(scope_base_address, a))
       /\ acquired' = IF fpga_loaded /\ up' /\ scope_base_address \in ScopeAddresses
                      THEN [acquired EXCEPT ![scope_base_address] = {a}] ELSE acquired

\* The answer to missing arguments is prepared and not returned: the first of
\* them that is used is null.
process_set_acquisition(a, complete) ==
  \/ ~complete /\ Die("type_error")
  \/ /\ complete
     /\ set_acquisition(a)
     /\ Answer("ok")
     /\ UNCHANGED scopeVars

\* A missing address is a null one, for which nothing is done.  The address is
\* kept whatever is there; a buffer address that is not mapped ends the process.
process_set_scope_address(form, address, offset, buffer) ==
  \/ form = "null" /\ UNCHANGED <<busVars, scopeVars, acquired>> /\ Answer("ok")
  \/ form = "not_object" /\ Die("type_error")
  \/ form = "not_unsigned" /\ Reject
  \/ /\ form = "valid"
     /\ set_scope_data(address + offset, buffer)
     /\ scope_base_address' = address
     /\ Answer("ok")
     /\ UNCHANGED <<first_load, scaling_factors, channel_status, acquired>>

process_disable_dma(form, status) ==
  \/ form = "missing" /\ Die("type_error")
  \/ /\ form = "valid" /\ first_load
     /\ first_load' = FALSE
     /\ UNCHANGED <<busVars, scope_base_address, scaling_factors, channel_status, acquired>>
     /\ Answer("ok")
  \/ /\ form = "valid" /\ ~first_load
     /\ IF MuxCtrl(scope_base_address) = 0 THEN UNCHANGED busVars
        ELSE write_direct(MuxCtrl(scope_base_address), status)
     /\ Answer("ok")
     /\ UNCHANGED <<scopeVars, acquired>>

StatusName(value) ==
  CASE value = 0 -> "wait" [] value = 1 -> "run" [] value = 2 -> "stop"
    [] value = 3 -> "free run" [] OTHER -> "unknown"

process_get_acquisition_status ==
  /\ IF scope_base_address = 0 THEN UNCHANGED busVars
     ELSE read_direct(TrgStatus(scope_base_address))
  /\ Answer(CASE scope_base_address = 0 -> "not present"
              [] scope_base_address # 0 /\ ~fpga_loaded -> StatusName(0)
              [] OTHER -> StatusName(Register(TrgStatus(scope_base_address))))
  /\ UNCHANGED <<scopeVars, acquired>>

----------------------------------------------------------------------------
(* Data.  A capture is a sequence of samples [channel, slot, value], where   *)
(* the slot [width, is_signed, is_float] says what the value is.             *)

StampedMetadata(slot) ==
  IF slot.is_float THEN get_metadata_value(32, TRUE, TRUE)
                   ELSE get_metadata_value(slot.width, slot.is_signed, FALSE)

\* The word the hardware sends for a sample: GET_DATA, GET_CHANNEL, GET_METADATA.
RawSample(sample) == [data |-> sample.value % WordModulus,
                      channel |-> sample.channel,
                      metadata |-> StampedMetadata(sample.slot) % 65536]

\* get_scope_data reads into an array of zeros: what a read does not fill of it,
\* all of it when the read fails, counts as samples of channel 0, of a slot whose
\* metadata is 0.
ZeroSample == [channel |-> 0, value |-> 0,
               slot |-> [width |-> 8, is_signed |-> FALSE, is_float |-> FALSE]]
Filled(samples) ==
  samples \o [i \in 1 .. NChannels * BufferSize - Len(samples) |-> ZeroSample]
Words(samples) == [i \in DOMAIN samples |-> RawSample(samples[i])]

\* A channel number one past the last gets as far as its scaling factor.
shunt_data(buffer, garbage) ==
  LET factor(ch) == IF ch < Len(scaling_factors) THEN scaling_factors[ch + 1] ELSE garbage
      value(raw) == scale_data(raw.data, get_size(raw.metadata), factor(raw.channel),
                               is_signed_bit(raw.metadata), is_float_bit(raw.metadata))
      Push(lists, raw) == IF raw.channel \in Channels
                          THEN [lists EXCEPT ![raw.channel] = Append(@, value(raw))]
                          ELSE lists
  IN FoldLeft(Push, [ch \in Channels |-> <<>>], buffer)

\* The channels that are on, in the order of their numbers.
Answered(lists) ==
  LET Push(answer, ch) == IF ch \in channel_status
                          THEN Append(answer, [channel |-> ch, data |-> lists[ch]])
                          ELSE answer
  IN FoldLeft(Push, <<>>, [i \in 1 .. NChannels |-> i - 1])

\* Nothing captured is answered with an empty list.
process_read_data(failed) ==
  /\ response' = "ok"
  /\ IF ~failed /\ kernel = Nothing
       THEN data' = <<>>
       ELSE \E garbage \in Garbage :
              data' = Answered(shunt_data(Words(Filled(IF failed THEN <<>> ELSE kernel)), garbage))
  /\ kernel' = IF failed THEN kernel ELSE Nothing
  /\ UNCHANGED <<busVars, scopeVars, acquired>>

\* Fewer than NChannels factors are read past their end for a message, which
\* may or may not end the process.
process_set_scaling_factors(sf, numeric) ==
  \/ (sf = <<>> \/ ~numeric) /\ Reject
  \/ /\ sf # <<>> /\ numeric /\ Len(sf) < NChannels /\ Die("fault")
  \/ /\ sf # <<>> /\ numeric
     /\ scaling_factors' = sf
     /\ UNCHANGED <<busVars, scope_base_address, first_load, channel_status, acquired>>
     /\ Answer("ok")

\* A channel that is not mentioned is off.  A key that is not a number and a
\* value that is not a Boolean throw.
process_set_channel_status(form, on) ==
  \/ form = "not_object" /\ Reject
  \/ form = "not_number" /\ Die("invalid_argument")
  \/ form = "not_boolean" /\ Die("type_error")
  \/ /\ form = "valid"
     /\ channel_status' = on
     /\ UNCHANGED <<busVars, scope_base_address, first_load, scaling_factors, acquired>>
     /\ Answer("ok")

----------------------------------------------------------------------------
(* Next state *)

Serving == up /\ Len(operations) <= MaxOperations

SetAcquisition == Serving /\ \E a \in Acquisitions, complete \in BOOLEAN :
                               process_set_acquisition(a, complete)
SetScopeAddress ==
  Serving /\ \E form \in {"null", "not_object", "not_unsigned", "valid"},
                a \in Bases, offset \in BufferOffsets, buffer \in Buffers :
               process_set_scope_address(form, a, offset, buffer)
DisableDma == Serving /\ \E form \in {"missing", "valid"}, status \in {0, 1} :
                           process_disable_dma(form, status)
GetAcquisitionStatus == Serving /\ process_get_acquisition_status
ReadData == Serving /\ \E failed \in BOOLEAN : process_read_data(failed)
SetScalingFactors == Serving /\ \E sf \in Scalings, numeric \in BOOLEAN :
                                  process_set_scaling_factors(sf, numeric)
SetChannelStatus ==
  Serving /\ \E form \in {"not_object", "not_number", "not_boolean", "valid"},
                on \in Statuses : process_set_channel_status(form, on)

\* The rest of the driver: deploys clear the log, bitstreams reset the hardware.
ClearOperations == /\ up /\ operations # <<>> /\ clear_operations_vector
                   /\ UNCHANGED <<scopeVars, response, data, kernel, acquired>>
LoadBitstream ==
  /\ Serving
  /\ \E reported \in BOOLEAN, fate \in {"kept", "programmed", "lost"} :
       /\ load_bitstream(reported, fate)
       /\ acquired' = IF fate = "kept" THEN acquired ELSE [b \in ScopeAddresses |-> {}]
       /\ Answer(IF reported THEN "ok" ELSE "bitstream_load_failed")
  /\ UNCHANGED scopeVars

\* The hardware captures, and its trigger goes from one status to another.
Capture == /\ \E c \in Captures : kernel' = c
           /\ UNCHANGED <<busVars, scopeVars, response, data, acquired>>
Trigger == /\ operating
           /\ \E b \in ScopeAddresses, status \in TriggerStatuses :
                registers' = [registers EXCEPT ![register_address_to_index(TrgStatus(b))] = status]
           /\ UNCHANGED <<up, fpga_loaded, sink_mode, previous_sink_mode, operations, operating,
                          fCore, scopeVars, response, data, kernel, acquired>>

ScopeInit == /\ scope_base_address = 0
             /\ first_load = TRUE
             /\ scaling_factors = [i \in 1 .. NChannels |-> 1]
             /\ channel_status = Channels
             /\ response = "none"
             /\ data = <<>>

Terminate == up /\ Die("none")
Relaunch == /\ ~up /\ launch
            /\ scope_base_address' = 0
            /\ first_load' = TRUE
            /\ scaling_factors' = [i \in 1 .. NChannels |-> 1]
            /\ channel_status' = Channels
            /\ response' = "none"
            /\ data' = <<>>
            /\ UNCHANGED <<kernel, acquired>>

Init == /\ BusInit
        /\ ScopeInit
        /\ kernel = Nothing
        /\ acquired = [b \in ScopeAddresses |-> {}]

Next ==
  \/ SetAcquisition \/ SetScopeAddress \/ DisableDma \/ GetAcquisitionStatus
  \/ ReadData \/ SetScalingFactors \/ SetChannelStatus
  \/ ClearOperations \/ LoadBitstream \/ Capture \/ Trigger
  \/ Terminate \/ Relaunch

Spec == Init /\ [][Next]_vars

----------------------------------------------------------------------------
(* Properties *)

\* The types of the variables: what is written to a register is a word
\* whatever source, address and factors clients send.
TypeOK ==
  /\ BusTypeOK
  /\ scope_base_address \in Bases \union {0}
  /\ first_load \in BOOLEAN
  /\ scaling_factors \in Seq(Int)
  /\ channel_status \subseteq Channels
  /\ \A i \in DOMAIN data : data[i].channel \in Channels /\ data[i].data \in Seq(Int)
  /\ \A b \in ScopeAddresses : Cardinality(acquired[b]) <= 1

TriggerOf(code) == <<"rising_edge", "falling_edge", "both">>[code + 1]
ModeOf(code) == <<"continuous", "single", "free_running">>[code + 1]

SetTo(b, a) ==
  /\ TriggerOf(Register(TrgMode(b))) = a.trigger
  /\ ModeOf(Register(AcqMode(b))) = a.mode
  /\ (Register(TrgSrc(b)) + 1) % WordModulus = a.source
  /\ Register(TrgLvl(b)) = a.level
  /\ Register(TrgPoint(b)) = a.point
  /\ a.prescaler > 2 => Register(TbPeriod(b)) = a.prescaler

\* A scope is set to the whole of the last acquisition that reached it, through
\* changes of the scope's address, enabling and disabling of the DMA, a change
\* of process and acquisitions of other scopes: no other command, and no other
\* part of set_acquisition, writes a register of it.
AcquisitionInHardware == \A b \in ScopeAddresses : \A a \in acquired[b] : SetTo(b, a)

\* What a sample means: a float is as it is, the others are the values they stand
\* for times the factor of their channel.
Meaning(sample) ==
  IF sample.slot.is_float THEN sample.value % WordModulus
  ELSE scaling_factors[sample.channel + 1] * sample.value

\* The samples of a channel among the first n of a capture.
OfChannel(capture, ch, n) == {m \in 1 .. n : capture[m].channel = ch}

\* The values of a channel are all of its samples, each at its place among them.
AreOfChannel(values, capture, ch) ==
  /\ Len(values) = Cardinality(OfChannel(capture, ch, Len(capture)))
  /\ \A n \in OfChannel(capture, ch, Len(capture)) :
       values[Cardinality(OfChannel(capture, ch, n))] = Meaning(capture[n])

AnswersMeaning(answer, capture) ==
  /\ {answer[i].channel : i \in DOMAIN answer} = channel_status
  /\ \A i, j \in DOMAIN answer : i < j => answer[i].channel < answer[j].channel
  /\ \A i \in DOMAIN answer : AreOfChannel(answer[i].data, capture, answer[i].channel)

HandedOver == kernel # Nothing /\ kernel' = Nothing /\ up
ScalingsGiven == Len(scaling_factors) >= NChannels

\* Widths from 8 to 23 are the ones the four bits of the metadata tell apart.
Representable(slot) == slot.is_float \/ slot.width \in 8 .. 23

\* The words are wide enough, and integers fit the width of their slot.
SampleFits(sample) ==
  LET w == sample.slot.width
  IN /\ WordModulus % 2^23 = 0
     /\ Representable(sample.slot) /\ ~sample.slot.is_float =>
          IF sample.slot.is_signed THEN sample.value \in -(2^(w - 1)) .. 2^(w - 1) - 1
                                   ELSE sample.value \in 0 .. 2^w - 1
CapturesFit == \A c \in Captures : \A i \in DOMAIN c : SampleFits(c[i])

\* A capture of float samples and of integers of 8 to 23 bits is answered with
\* the values that were sampled, each in its channel, in order and scaled, for
\* the channels that are on: from setup_output_entry's metadata through
\* shunt_data, scale_data and sign_extend to read_data.  After the samples of a
\* read that does not fill the buffer, channel 0 alone is answered a zero for
\* each that is missing.
ReadDataAnswersCapture ==
  [][HandedOver /\ ScalingsGiven /\ (\A i \in DOMAIN kernel : Representable(kernel[i].slot))
       => AnswersMeaning(data', Filled(kernel))]_vars

\* The same of every slot, with the 32 bit integer outputs the tests deploy.
EverySlotAnswered ==
  [][HandedOver /\ ScalingsGiven => AnswersMeaning(data', Filled(kernel))]_vars
=============================================================================
