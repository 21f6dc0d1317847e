-------------------------------- MODULE Edid --------------------------------
(***************************************************************************)
(* The EDID block the backend makes up for a connector: what each function  *)
(* of the namespace Edid puts where, and how a reader of the block takes    *)
(* the mode out of it.                                                      *)
(*                                                                          *)
(* A block is a sequence of bytes.  Sizes are such that the code's 32 bits  *)
(* do not wrap (NoWrap): all sizes of 12 bits are.                          *)
(***************************************************************************)
EXTENDS Integers, Sequences

BlockSize == 128
RefreshRateHz == 60

Lo(x) == x % 256
\* A field of x: what is left of x in units, of which the field holds size.
Bits(x, unit, size) == (x \div unit) % size

Put(block, at, bytes) ==
  SubSeq(block, 1, at) \o bytes \o SubSeq(block, at + Len(bytes) + 1, Len(block))

Sum(bytes) == LET upTo[i \in 0..Len(bytes)] == IF i = 0 THEN 0 ELSE upTo[i - 1] + bytes[i]
              IN  upTo[Len(bytes)]

\* memset() of the block.
Cleared(page) == Put(page, 0, [i \in 1..BlockSize |-> 0])

\* header, vendor XEN, product, serial, week, year, version 1.4, digital 8 bits
\* display port, no size, gamma 2.2, features: struct edid.
putEssentials(block) ==
  Put(block, 0, <<0, 255, 255, 255, 255, 255, 255, 0, 96, 174, 77, 86,
                  5, 5, 32, 32, 1, 30, 1, 4, 165, 0, 0, 120, 6>>)

\* In ten thousandths: rx, ry, gx, gy, bx, by, wx, wy.
Colors == <<6400, 3300, 3000, 6000, 1500, 600, 3127, 3290>>
To10Bit(value) == (value * 2048 + 10000) \div 20000

\* The low two bits of four colors, and the high eight bits of all.
LowBits(a, b, c, d) == 64 * (a % 4) + 16 * (b % 4) + 4 * (c % 4) + (d % 4)
putColorSpace(block) ==
  LET c == [i \in 1..8 |-> To10Bit(Colors[i])]
  IN  Put(block, 25, <<LowBits(c[1], c[2], c[3], c[4]), LowBits(c[5], c[6], c[7], c[8])>>
                       \o [i \in 1..8 |-> c[i] \div 4])

putTimings(block) == Put(block, 35, [i \in 1..19 |-> IF i <= 3 THEN 0 ELSE 1])

\* The timings pulled "out of thin air", for one direction.
Horizontal(res) == [front |-> (res * 25) \div 100, sync |-> (res * 3) \div 100, blank |-> (res * 35) \div 100]
Vertical(res) == [front |-> (res * 5) \div 1000, sync |-> (res * 5) \div 1000, blank |-> (res * 35) \div 1000]
Millimetres(res) == (res * 100) \div 254

\* Mutant: the blanking is not in the clock.
PixelClock_Active(xres, yres) == (RefreshRateHz * xres * yres) \div 10000
PixelClock(xres, yres) ==
  (RefreshRateHz * (xres + Horizontal(xres).blank) * (yres + Vertical(yres).blank)) \div 10000

\* The clock in Hz is below 2^31, and so is a hundred times a size.
NoWrap(xres, yres) == xres < 2^24 /\ yres < 2^24 /\ PixelClock(xres, yres) < 214748

\* The upper four bits of two values of 12 bits.
Nibbles(a, b) == 16 * Bits(a, 256, 16) + Bits(b, 256, 16)

\* The 16 bits of the clock hold what is left of it.
DetailedTiming(xres, yres) ==
  LET clock == PixelClock(xres, yres)
      h == Horizontal(xres)  v == Vertical(yres)
  IN  <<Lo(clock), Lo(clock \div 256),
        Lo(xres), Lo(h.blank), Nibbles(xres, h.blank), Lo(yres), Lo(v.blank), Nibbles(yres, v.blank),
        Lo(h.front), Lo(h.sync), 16 * (v.front % 16) + (v.sync % 16),
        LowBits(h.front \div 256, h.sync \div 256, v.front \div 16, v.sync \div 16),
        Lo(Millimetres(xres)), Lo(Millimetres(yres)),
        Nibbles(Millimetres(xres), Millimetres(yres)), 0, 0, 24>>

putDetailedTiming(block, index, xres, yres) ==
  Put(block, 54 + 18 * index, DetailedTiming(xres, yres))

\* The type of a name, "pv-display", a line feed and spaces.
DisplayName == <<112, 118, 45, 100, 105, 115, 112, 108, 97, 121>>
putDisplayDescritor(block, index) ==
  Put(Put(block, 54 + 18 * index + 3, <<252>>), 54 + 18 * index + 5,
      [i \in 1..13 |-> IF i <= 10 THEN DisplayName[i] ELSE IF i = 11 THEN 10 ELSE 32])

putBlockCheckSum(block) ==
  Put(block, BlockSize - 1, <<Lo(256 - Lo(Sum(SubSeq(block, 1, BlockSize - 1))))>>)

-----------------------------------------------------------------------------
(***************************************************************************)
(* A reader of a block, after the EDID 1.4 layout: b is the 18 bytes of a   *)
(* detailed timing.                                                         *)
(***************************************************************************)
Decoded(b) ==
  [clock   |-> b[1] + 256 * b[2],
   hactive |-> b[3] + 256 * Bits(b[5], 16, 16),  hblank |-> b[4] + 256 * Bits(b[5], 1, 16),
   vactive |-> b[6] + 256 * Bits(b[8], 16, 16),  vblank |-> b[7] + 256 * Bits(b[8], 1, 16),
   hfront  |-> b[9] + 256 * Bits(b[12], 64, 4),  hsync  |-> b[10] + 256 * Bits(b[12], 16, 4),
   vfront  |-> Bits(b[11], 16, 16) + 16 * Bits(b[12], 4, 4),
   vsync   |-> Bits(b[11], 1, 16) + 16 * Bits(b[12], 1, 4)]

\* A mode: its lines are shown Rate times a second, to the step of the clock,
\* and each sync pulse lies within its blanking.
IsMode(t, xres, yres, rate) ==
  LET total == (t.hactive + t.hblank) * (t.vactive + t.vblank)
  IN  /\ t.hactive = xres /\ t.vactive = yres
      /\ t.hfront + t.hsync <= t.hblank /\ t.vfront + t.vsync <= t.vblank
      /\ t.clock = (rate * total) \div 10000

\* The block is one: its first byte counts from 0.
IsBlock(block) ==
  /\ \A i \in 1..BlockSize : block[i] \in 0..255
  /\ SubSeq(block, 1, 8) = <<0, 255, 255, 255, 255, 255, 255, 0>>
  /\ Lo(Sum(SubSeq(block, 1, BlockSize))) = 0

\* A descriptor without a clock and of type 0 says nothing.
Descriptor(block, index) == SubSeq(block, 54 + 18 * index + 1, 54 + 18 * index + 18)
Empty(descriptor) == \A i \in 1..18 : descriptor[i] = 0

=============================================================================
