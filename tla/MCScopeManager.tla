--------------------------- MODULE MCScopeManager ---------------------------
(***************************************************************************)
(* ScopeManager on two scopes of twelve registers each, and on captures of  *)
(* four samples whose channels reach past the last one, and one that fills  *)
(* half of the buffer only.  Clients name the scopes, no scope, and one     *)
(* address that has no more than its first register in the window.          *)
(***************************************************************************)
EXTENDS ScopeManager

Acquire(mode, trigger, source, level, point, prescaler) ==
  [mode |-> mode, trigger |-> trigger, source |-> source,
   level |-> level, point |-> point, prescaler |-> prescaler]

MCAcquisitions == {Acquire("single", "both", 0, 7, 6, 2),
                   Acquire("free_running", "falling_edge", 3, 8, 4, 3)}
NoAcquisitions == {}

MCScalings == {<<>>, <<3>>, <<2, 5>>}
BothChannels == {{0, 1}}
SomeChannels == SUBSET {0, 1}
NoScalings == {<<>>}

Slot(width, is_signed, is_float) ==
  [width |-> width, is_signed |-> is_signed, is_float |-> is_float]
Sample(channel, slot, value) == [channel |-> channel, slot |-> slot, value |-> value]

\* Between them: values at both ends of the widths 8, 12 and 23, a float, and
\* samples of a channel at and past the number of channels.
MCCaptures ==
  {<<Sample(0, Slot(12, TRUE, FALSE), -2048), Sample(1, Slot(23, FALSE, FALSE), 8388607),
     Sample(0, Slot(12, TRUE, FALSE), 2047), Sample(1, Slot(23, FALSE, FALSE), 0)>>,
   <<Sample(1, Slot(8, TRUE, FALSE), 127), Sample(2, Slot(16, TRUE, FALSE), 4),
     Sample(1, Slot(8, TRUE, FALSE), -128), Sample(0, Slot(32, FALSE, TRUE), 70000)>>,
   <<Sample(3, Slot(16, TRUE, FALSE), 5), Sample(0, Slot(23, TRUE, FALSE), -4194304),
     Sample(1, Slot(8, FALSE, FALSE), 255), Sample(0, Slot(23, TRUE, FALSE), -1)>>,
   <<Sample(1, Slot(12, TRUE, FALSE), -7), Sample(0, Slot(8, FALSE, FALSE), 200)>>}
NoCaptures == {}

\* An integer output of 32 bits.
WideCaptures == {<<Sample(0, Slot(32, TRUE, FALSE), 70000)>>}

\* What the theorem about captured data asks of them.
ASSUME SamplesFit == CapturesFit
=============================================================================
