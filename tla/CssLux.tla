------------------------------- MODULE CssLux -------------------------------
(***************************************************************************)
(* tsl2561_get_lux in src/drivers/tsl2561.c: the brightness a coarse sun   *)
(* sensor reports for the counts of its two channels, for the T package,   *)
(* 13 ms of integration and a gain of one.                                 *)
(*                                                                         *)
(* The code calculates in unsigned long, which has 32 bits on the flight   *)
(* computer.  Fits says that no result needs more, so that the integers    *)
(* here are the code's.                                                    *)
(***************************************************************************)
EXTENDS Integers, Sequences, FiniteSetsExt

Count == 0 .. 65535          \* a channel: two bytes

Saturated == 65536           \* what a saturated sensor reports

TSL2561_CLIPPING_13MS == 4900

\* TSL2561_LUX_KnT, BnT and MnT: up to a ratio of k / 2^9 of infrared to broadband,
\* the channels weigh b / 2^14 and m / 2^14.
Segments == <<[k |->  64, b |-> 498, m |->  446], [k |-> 128, b |-> 532, m |->  721],
              [k |-> 192, b |-> 575, m |->  891], [k |-> 256, b |-> 624, m |-> 1022],
              [k |-> 312, b |-> 367, m |->  508], [k |-> 410, b |-> 210, m |->  251],
              [k |-> 666, b |->  24, m |->   18]>>

Steepest == [b |-> 0, m |-> 0]      \* beyond the last segment, K8T = K7T

\* Mutant: the threshold of the long integration time.
ClippedLate(broadband, ir) == broadband > 65000 \/ ir > 65000

Clipped(broadband, ir) ==
    broadband > TSL2561_CLIPPING_13MS \/ ir > TSL2561_CLIPPING_13MS

\* TSL2561_LUX_CHSCALE_TINT0 << 4 and >> TSL2561_LUX_CHSCALE: 29975 * 2^4 / 2^10.
Scaled(count) == (count * 29975) \div 64

\* channel1 << (TSL2561_LUX_RATIOSCALE + 1) over channel0, five bits at a time because
\* the product is beyond TLC's integers; then rounded to TSL2561_LUX_RATIOSCALE bits.
Ratio(channel0, channel1) ==
    IF channel0 = 0 THEN 0
    ELSE LET rest  == 32 * (channel1 % channel0)
             rest2 == 32 * (rest % channel0)
             ratio1 == 1024 * (channel1 \div channel0) + 32 * (rest \div channel0)
                          + rest2 \div channel0
         IN  (ratio1 + 1) \div 2

Weights(ratio) ==
    LET reached == {n \in 1 .. Len(Segments) : ratio <= Segments[n].k}
    IN  IF reached = {} THEN Steepest ELSE Segments[Min(reached)]

Lux(broadband, ir) ==
    IF Clipped(broadband, ir) THEN Saturated
    ELSE LET channel0 == Scaled(broadband)
             channel1 == Scaled(ir)
             w == Weights(Ratio(channel0, channel1))
             visible  == w.b * channel0
             infrared == w.m * channel1
         IN  ((IF visible > infrared THEN visible - infrared ELSE 0) + 8192) \div 16384

\* What the largest counts that are not clipped give without infrared.
Brightest == 69756

\* The products of the calculation stay below 2^32, written so that both sides do.
Fits(broadband, ir) ==
    Clipped(broadband, ir) \/
        LET channel0 == Scaled(broadband)
            channel1 == Scaled(ir)
            w == Weights(Ratio(channel0, channel1))
            Below2To32(factor, x) == x < (2^30 \div factor) * 4
        IN  /\ Below2To32(29975 * 16, broadband) /\ Below2To32(29975 * 16, ir)
            /\ Below2To32(1024, channel1)
            /\ w.b > 0 => Below2To32(w.b, channel0)
            /\ w.m > 0 => Below2To32(w.m, channel1)
=============================================================================
