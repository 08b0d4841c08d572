--------------------------- MODULE MCHilDeployer ---------------------------
(***************************************************************************)
(* HilProperties on two cores, a register layout of 58 words in which the  *)
(* blocks do not overlap, and deployment specifications small enough to    *)
(* enumerate and chosen so that each differs from the others where it      *)
(* matters: in the order of their inputs, in whether a slot of the same    *)
(* name has an initial value, in how their deploy ends.                    *)
(***************************************************************************)
EXTENDS HilProperties

MCBases == [cores_rom |-> 1000, cores_control |-> 64, cores_inputs |-> 16, controller |-> 192,
            noise_generator |-> 224, waveform_generator |-> 240, hil_control |-> 280,
            scope_mux |-> 284]
MCOffsets == [cores_rom |-> 8, cores_control |-> 64, dma |-> 32, controller |-> 0, hil_tb |-> 12]

MCLayout == [bases |-> MCBases, offsets |-> MCOffsets]
MCInitialLayouts == {MCLayout}

\* What a driver has that was sent no map yet.
NoLayout ==
  [bases |-> [b \in DOMAIN MCBases |-> 0], offsets |-> [o \in DOMAIN MCOffsets |-> 0]]
MCNoLayouts == {NoLayout}

Program(name, index, order, n_channels, binary, frequency, ins) ==
  [name |-> name, index |-> index, order |-> order, n_channels |-> n_channels,
   binary |-> binary, sampling_frequency |-> frequency, fixed_portion |-> 3 + index,
   per_channel_portion |-> 1, inputs |-> ins]

Slot(source, name, channel, io, to, toName, bus, toChannel) ==
  [source_id |-> source, source_name |-> name, source_io |-> io, source_channel |-> channel,
   destination_id |-> to, destination_name |-> toName, destination_bus |-> bus,
   destination_channel |-> toChannel, is_float |-> io % 2 = 0, width |-> 16 + io,
   is_signed |-> channel = 0]

Wave == <<[v_on |-> 21, v_off |-> 22, t_delay |-> 23, t_on |-> 24, period |-> 25]>>
Input(name, type, address, data) ==
  [name |-> name, source_type |-> type, address |-> address, data |-> data,
   shape |-> "square", wave |-> Wave]

Accepted(programs, slots, ins, memories) ==
  [set_specs |-> "ok", programs |-> programs, slots |-> slots, inputs |-> ins,
   memories |-> memories]
Refused(exception) ==
  [set_specs |-> exception, programs |-> <<>>, slots |-> <<>>, inputs |-> <<>>, memories |-> <<>>]

\* Two cores that feed each other, A with as many slots as its DMA has channels;
\* B's u has a default, so A.x an initial value.
pair == Accepted(
  <<Program("A", 0, 2, 2, <<31, 32>>, 10, <<>>),
    Program("B", 1, 1, 1, <<33>>, 15, <<[name |-> "u", data |-> <<7>>]>>)>>,
  <<Slot("A", "x", 0, 1, "B", "u", 3, 0), Slot("B", "y", 0, 2, "A", "v", 5, 0),
    Slot("A", "z", 1, 4, "B", "w", 4, 1)>>,
  [A |-> <<Input("k", "constant", 9, <<5, 6>>), Input("n", "random", 10, <<0>>)>>,
   B |-> <<Input("m", "random", 11, <<0>>), Input("c", "time_series", 12, <<8>>)>>],
  [A |-> <<[address |-> 1, value |-> <<41, 42>>]>>,
   B |-> <<[address |-> 1, value |-> <<43>>]>>])

\* One core, A.x without a default; k is now its second constant.
solo == Accepted(
  <<Program("A", 0, 1, 1, <<34>>, 20, <<>>)>>,
  <<Slot("A", "x", 0, 3, "out", "x", 2, 0)>>,
  [A |-> <<Input("j", "constant", 13, <<1>>), Input("w", "waveform", 14, <<0>>),
           Input("k", "constant", 9, <<2>>), Input("e", "external", 15, <<0>>)>>],
  [A |-> <<>>])

\* One slot more than the DMA of its core has channels.  The default of A.g is
\* one value although A has two channels.  The two cores have one order, and
\* frequencies without a common multiple in the ints of the run: the timebase is
\* negative.
crowded == Accepted(
  <<Program("A", 0, 1, 2, <<36>>, 45, <<[name |-> "g", data |-> <<7>>]>>),
    Program("B", 1, 1, 1, <<39>>, 46, <<>>)>>,
  <<Slot("A", "x", 0, 1, "A", "g", 3, 0), Slot("A", "x", 1, 1, "A", "h", 3, 1),
    Slot("A", "y", 0, 2, "A", "i", 4, 0)>>,
  [A |-> <<>>, B |-> <<>>], [A |-> <<>>, B |-> <<>>])
\* The default is that of a core of one channel, the output has two; core A runs
\* freely, so the timebase is 0 and the divider of B wraps.
gather == Accepted(
  <<Program("A", 0, 1, 2, <<37>>, 0, <<>>),
    Program("B", 1, 2, 1, <<38>>, 10, <<[name |-> "u", data |-> <<7>>]>>)>>,
  <<Slot("A", "x", 0, 1, "B", "u", 3, 0), Slot("A", "x", 1, 1, "B", "v", 4, 0)>>,
  [A |-> <<>>, B |-> <<>>], [A |-> <<>>, B |-> <<>>])

\* Specifications whose deploy throws: in setup_waveform, in setup_output_entry,
\* in set_specs (two kinds of exception), for their number of cores; and one
\* without programs.
sine == [solo EXCEPT !.inputs.A[2].shape = "sine"]
wide == [pair EXCEPT !.slots[2].source_io = 8]
refused == Refused("runtime_error")
malformed == Refused("type_error")
many == [pair EXCEPT !.programs = Append(@, Program("C", 2, 3, 1, <<39>>, 10, <<>>)),
                     !.inputs = @ @@ [C |-> <<>>], !.memories = @ @@ [C |-> <<>>]]
empty == Accepted(<<>>, <<>>, <<>>, <<>>)

\* A core that keeps up with a third of its timebase only, and one that does not
\* even with the least part of it there is.
brisk   == [sine EXCEPT !.programs[1].sampling_frequency = 110]
frantic == [sine EXCEPT !.programs[1].sampling_frequency = 300]

MCSpecData == [pair |-> pair, solo |-> solo, crowded |-> crowded, gather |-> gather,
               brisk |-> brisk, frantic |-> frantic, sine |-> sine, wide |-> wide,
               refused |-> refused, malformed |-> malformed, many |-> many, empty |-> empty]

\* What the theorems about the log ask of addresses.
ASSUME SpecDataFits == AddressesFit

\* What the theorem about hil_set_in asks of names.
ASSUME ConstantsNamedApart == NamesApart
=============================================================================
