-------------------------- MODULE MCCustomDeployer --------------------------
(***************************************************************************)
(* CustomDeployer on the register window of MCHilDeployer, in which the    *)
(* address map of a custom design gives the one constant engine its        *)
(* absolute address, and the driver starts before it has any map.          *)
(***************************************************************************)
EXTENDS CustomDeployer, MCHilDeployer

CustomLayout == [MCLayout EXCEPT !.bases.cores_inputs = 240]

MCLayouts == {CustomLayout}

Custom(name, index, n_channels, binary, rom, control, reciprocal) ==
  Program(name, index, index, n_channels, binary, 10, <<>>)
    @@ [options |-> [rom_address |-> rom, control_address |-> control,
                     has_reciprocal |-> reciprocal]]

V == Custom("V", 0, 3, <<51, 52>>, 1000, 192, TRUE)
M == Custom("M", 1, 1, <<53>>, 1008, 216, FALSE)

\* Two cores that feed each other; only V has constants, k one for each of its
\* three channels and b one for all.
bench == Accepted(
  <<V, M>>,
  <<Slot("V", "x", 0, 1, "M", "u", 3, 0), Slot("M", "y", 0, 2, "V", "v", 5, 0),
    Slot("V", "x", 1, 1, "M", "w", 4, 1)>>,
  [V |-> <<Input("k", "constant", 9, <<5, 6, 7>>), Input("r", "random", 10, <<0>>),
           Input("b", "constant", 11, <<8>>)>>,
   M |-> <<Input("w", "waveform", 14, <<0>>), Input("e", "external", 15, <<0>>)>>],
  [V |-> <<[address |-> 1, value |-> <<61, 62, 63>>]>>, M |-> <<>>])

\* A waveform the hardware does not have, after a random input.
triangle == Accepted(
  <<M>>, <<>>,
  [M |-> <<Input("r", "random", 12, <<0>>),
           [Input("t", "waveform", 13, <<0>>) EXCEPT !.shape = "triangle"]>>],
  [M |-> <<>>])

\* A core deploy_hil runs, with no inputs.
lone == [solo EXCEPT !.inputs.A = <<>>]

MCCustomSpecData == [lone |-> lone, bench |-> bench, triangle |-> triangle]

\* The assumption of the proof that a custom deployment arrives.
ASSUME CustomSpecDataFits == CustomAddressesFit
=============================================================================
