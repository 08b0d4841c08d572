--------------------------- MODULE ChannelMetadata --------------------------
(***************************************************************************)
(* The metadata word of a channel: the deployer writes it for each slot of *)
(* a core's DMA, the hardware sends it along with every sample, and the    *)
(* scope decodes it.  Also the arithmetic the scope does with it.          *)
(***************************************************************************)
EXTENDS Integers

CONSTANT WordModulus

\* v | b for a power of two b
SetBit(v, b) == IF (v \div b) % 2 = 1 THEN v ELSE v + b

\* The deployer's side.  The float bit of a defect is the sign bit.
get_metadata_value_one_bit(size, is_signed, is_float) ==
  IF is_signed \/ is_float THEN SetBit((size - 8) % WordModulus, 16)
                           ELSE (size - 8) % WordModulus

get_metadata_value(size, is_signed, is_float) ==
  LET signed(v) == IF is_signed THEN SetBit(v, 16) ELSE v
      float(v)  == IF is_float THEN SetBit(v, 32) ELSE v
  IN float(signed((size - 8) % WordModulus))

\* The scope's side: channel_metadata.
get_size(raw)      == (raw % 16) + 8
is_signed_bit(raw) == (raw \div 16) % 2 = 1
is_float_bit(raw)  == (raw \div 32) % 2 = 1

\* Two's complement of a value below 2 * mask: (value ^ mask) - mask.
sign_extend(value, mask) ==
  (IF value < mask THEN value + mask ELSE value - mask) - mask

scale_data(raw, size, factor, is_signed, is_float) ==
  LET masked == raw % 2^size
  IN IF is_float THEN raw
     ELSE factor * (IF is_signed THEN sign_extend(masked, 2^(size - 1)) ELSE masked)
=============================================================================
