---------------------------- MODULE SampleFormat ----------------------------
(***************************************************************************)
(* The formats of samples: which ones each reader accepts, and what the    *)
(* converters make of a sample on its way to the encoder (lpcm.h,          *)
(* wav_reader.c 100-154, caf_reader.c 62-101, main.c 665-700,              *)
(* pcm_native_converter.c, pcm_sint16_converter.c).                        *)
(*                                                                         *)
(* A format is [sign, big, bits, bytes]: sign is "S", "U" or "F", bytes    *)
(* those of one channel.  A byte has ByteBits bits in place of 8, so that  *)
(* every sample of every format can be tried; bits counts the real ones.   *)
(***************************************************************************)
EXTENDS Integers, Sequences, SequencesExt

CONSTANT ByteBits

ASSUME ByteBitsAssumption == ByteBits \in Nat \ {0}

Refused == [sign |-> "none"]
Format(sign, big, bits, bytes) == [sign |-> sign, big |-> big, bits |-> bits, bytes |-> bytes]

BytesFor(bits) == (bits + 7) \div 8

\* wav_fmt(), of a chunk with as many bits as its frames have room for: tag is
\* 1, 3 or 65534 (0xfffe), guid what the latter goes by.
WavFormat(h) ==
  LET float == h.tag = 3 \/ (h.tag = 65534 /\ h.guid = "float")
      valid == IF h.tag = 65534 THEN h.valid ELSE h.bits
  IN  IF /\ h.bits > 0 /\ h.bits < 256 /\ h.bits % 8 = 0
         /\ h.tag \in {1, 3, 65534}
         /\ h.tag = 65534 => h.guid \in {"float", "pcm"} /\ valid \in 1 .. h.bits
        THEN Format(IF float THEN "F" ELSE IF h.bits = 8 THEN "U" ELSE "S", FALSE,
                    valid, h.bits \div 8)
        ELSE Refused

\* caf_desc(): bit 0 of the flags is for floats, bit 1 for little endian.
CafFormat(h) ==
  IF h.bits \in 1 .. 255 /\ h.bytes >= BytesFor(h.bits) /\ h.flags \in 0 .. 3
    THEN Format(IF h.flags % 2 = 1 THEN "F" ELSE "S", h.flags < 2, h.bits, h.bytes)
    ELSE Refused

\* parse_raw_spec() and open_input().
RawFormat(spec) ==
  IF IF spec.sign = "F" THEN spec.bits \in {32, 64} ELSE spec.bits \in 8 .. 32
    THEN Format(spec.sign, spec.big, spec.bits, BytesFor(spec.bits))
    ELSE Refused

\* The default, S16L.
DefaultRaw == [sign |-> "S", big |-> FALSE, bits |-> 16]

-----------------------------------------------------------------------------
\* 2^n, the values of n bits, and those of n bytes.
Values(n) == LET twice[i \in 0 .. n] == IF i = 0 THEN 1 ELSE 2 * twice[i - 1] IN twice[n]
Power(n) == Values(ByteBits * n)

\* The cases of pcm_convert_to_native(); it fails on any other format.
Convertible(f) ==
  IF f.sign = "F" THEN f.bytes \in {4, 8}
  ELSE f.bytes \in 2 .. 4 \/ (f.bytes = 1 /\ ~f.big)

\* The bytes of a sample, the highest first.
HighFirst(bytes, big) == IF big THEN bytes ELSE Reverse(bytes)

Unsigned(bytes) ==
  LET upto[i \in 0 .. Len(bytes)] == IF i = 0 THEN 0 ELSE upto[i - 1] * Power(1) + bytes[i]
  IN  upto[Len(bytes)]

Signed(n, range) == IF n >= range \div 2 THEN n - range ELSE n

\* pcm_s8_to_s32() .. pcm_u32be_to_s32(): the bytes at the top of 32 bits, the
\* highest bit turned over (^ 0x80000000) if there is no sign.
Native(f, bytes) ==
  LET n == Unsigned(HighFirst(bytes, f.big)) * Power(4 - f.bytes)
  IN  Signed(IF f.sign = "U" THEN (n + Power(4) \div 2) % Power(4) ELSE n, Power(4))

Sint16_Wraps(f, native) ==
  IF f.bits <= 16 THEN native \div Power(2)
  ELSE Signed((native \div (Power(2) \div 2) + 1) \div 2 % Power(2), Power(2))

\* read_frames() of pcm_sint16_converter.c for integers: down to 16 bits,
\* rounded if there are more, and not past the highest value.
Sint16(f, native) ==
  IF f.bits <= 16 THEN native \div Power(2)
  ELSE LET n == (native \div (Power(2) \div 2) + 1) \div 2
       IN  IF n = Power(2) \div 2 THEN n - 1 ELSE n

\* The same for floats, given in parts of one step of 16 bits: clipped, and then
\* cut off towards 0.
Sint16OfFloat(parts, steps) ==
  LET low == -(Power(2) \div 2) * parts
      high == (Power(2) \div 2 - 1) * parts
      n == IF steps < low THEN low ELSE IF steps > high THEN high ELSE steps
  IN  IF n < 0 THEN -((-n) \div parts) ELSE n \div parts
=============================================================================
