----------------------------- MODULE JpegWriter -----------------------------
(***************************************************************************)
(* _build_minimal_jpeg of web_viewer.py, which makes the test pattern: the *)
(* colour conversion, the Huffman tables, the bit writer with its byte     *)
(* stuffing, the prediction of the DC coefficients, and the lengths of the *)
(* segments.  One step encodes one block of 8 by 8 pixels; a block that    *)
(* the text touches is bright (_render_text_pixels).                       *)
(*                                                                         *)
(* The AC coefficients are zero: of the AC tables the code of EOB is used, *)
(* and they are given as far as that symbol.                               *)
(***************************************************************************)
EXTENDS Integers, SequencesExt

CONSTANTS
  Levels,        \* values of r, g and b
  Width, Height, \* the size asked for, in pixels
  Texts          \* sequences of glyphs; a glyph has seven rows of five pixels,
                 \* or none if _FONT lacks the character

ASSUME JpegAssumption ==
  /\ Levels \subseteq 0 .. 255
  /\ Width \in 1 .. 65528 /\ Height \in 1 .. 65528
  /\ Texts \subseteq Seq({<<>>} \union [1 .. 7 -> 0 .. 31])

VARIABLES
  dc,      \* the DC values of the background: Y, Cb and Cr
  text,    \* the text to show
  blocks,  \* the DC values of the blocks encoded so far
  prev,    \* prev_dc_y, prev_dc_cb and prev_dc_cr
  w,       \* the bit writer: data, and the lowest bits of buf
  out      \* the segments written before the scan, once there are any

vars == <<dc, text, blocks, prev, w, out>>

-----------------------------------------------------------------------------
(* Colours and blocks.                                                     *)

Clamp(v) == Max({0, Min({255, v})})

\* int() of a number of thousandths: the fraction is cut off, and the floating
\* sum may fall just short of a whole number.
Truncated(n) == {n \div 1000} \union (IF n % 1000 = 0 THEN {n \div 1000 - 1} ELSE {})

YCbCr(r, g, b) ==
  {<<Clamp(y), Clamp(cb), Clamp(cr)>> :
     y  \in Truncated(299 * r + 587 * g + 114 * b),
     cb \in Truncated(500 * b - 169 * r - 331 * g + 128000),
     cr \in Truncated(500 * r - 419 * g - 81 * b + 128000)}

DcOf(ycc) == [i \in 1 .. 3 |-> (ycc[i] - 128) * 8]

BlocksWide == (Width + 7) \div 8
BlocksHigh == (Height + 7) \div 8

\* real_w and real_h: the picture that is written has whole blocks, and is larger
\* than the size asked for where that is no multiple of 8.
RealWidth == BlocksWide * 8
RealHeight == BlocksHigh * 8

\* _render_text_pixels with scale = 2 and margin = 12: the pixels of the text,
\* as far as they are in the picture that is written.
Scale == 2
Margin == 12

\* cx, which a character without a glyph advances as well
LeftOf(i) == Margin + 6 * Scale * (i - 1)

\* <<character, row, column>> of the pixels of the glyphs
GlyphPixels ==
  {k \in (DOMAIN text) \X (1 .. 7) \X (0 .. 4) :
     text[k[1]] # <<>> /\ (text[k[1]][k[2]] \div 2 ^ (4 - k[3])) % 2 = 1}

TextPixels ==
  {<<LeftOf(k[1]) + Scale * k[3] + sx, Margin + Scale * (k[2] - 1) + sy>> :
     k \in GlyphPixels, sx \in 0 .. Scale - 1, sy \in 0 .. Scale - 1}
  \intersect ((0 .. RealWidth - 1) \X (0 .. RealHeight - 1))

BlockPixels(n) ==
  LET bx == n % BlocksWide
      by == n \div BlocksWide
  IN  (bx * 8 .. bx * 8 + 7) \X (by * 8 .. by * 8 + 7)

HasText(n) == BlockPixels(n) \intersect TextPixels # {}

TextDc == (220 - 128) * 8

-----------------------------------------------------------------------------
(* Huffman tables: bits[l] symbols have a code of l bits.                  *)

DcVals == [i \in 1 .. 12 |-> i - 1]

CodeLength(bits, i) ==
  CHOOSE l \in 1 .. Len(bits) :
    /\ FoldLeft(+, 0, SubSeq(bits, 1, l)) >= i
    /\ FoldLeft(+, 0, SubSeq(bits, 1, l - 1)) < i

\* build_huff_enc: the code is counted up, and shifted for every longer length.
Codes(bits, vals) ==
  LET code[i \in DOMAIN vals] ==
        IF i = 1 THEN 0
        ELSE (code[i - 1] + 1) * 2 ^ (CodeLength(bits, i) - CodeLength(bits, i - 1))
  IN  [i \in DOMAIN vals |->
         [sym |-> vals[i], code |-> code[i], len |-> CodeLength(bits, i)]]

Lum == [dcBits |-> <<0, 1, 5, 1, 1, 1, 1, 1, 1>>, acBits |-> <<0, 2, 1, 3>>,
        acVals |-> <<1, 2, 3, 0>>]
Chr == [dcBits |-> <<0, 3, 1, 1, 1, 1, 1, 1, 1, 1, 1>>, acBits |-> <<0, 2>>,
        acVals |-> <<0, 1>>]

\* The tables of the three components.
Tables == <<Lum, Chr, Chr>>

DcCodes == [c \in 1 .. 3 |-> Codes(Tables[c].dcBits, DcVals)]
AcCodes == [c \in 1 .. 3 |-> Codes(Tables[c].acBits, Tables[c].acVals)]

CodeOf(codes, sym) ==
  LET e == codes[CHOOSE i \in DOMAIN codes : codes[i].sym = sym]
  IN  <<e.code, e.len>>

-----------------------------------------------------------------------------
(* The bit writer.  What buf holds above its lowest bits is not read again. *)

Stuffed(bytes) ==
  FlattenSeq([i \in DOMAIN bytes |->
                IF bytes[i] = 255 THEN <<255, 0>> ELSE <<bytes[i]>>])

\* Bug: a full byte waits for the next bit.
PutLate(bw, field) ==
  LET buf  == bw.buf * 2 ^ field[2] + field[1]
      bits == bw.bits + field[2]
      n    == Max({0, (bits - 1) \div 8})
  IN  [data |-> bw.data \o Stuffed([i \in 1 .. n |-> (buf \div 2 ^ (bits - 8 * i)) % 256]),
       buf  |-> buf % 2 ^ (bits - 8 * n),
       bits |-> bits - 8 * n]

\* BitWriter.write
Put(bw, field) ==
  LET buf  == bw.buf * 2 ^ field[2] + field[1]
      bits == bw.bits + field[2]
  IN  [data |-> bw.data \o
                  Stuffed([i \in 1 .. bits \div 8 |-> (buf \div 2 ^ (bits - 8 * i)) % 256]),
       buf  |-> buf % 2 ^ (bits % 8),
       bits |-> bits % 8]

\* BitWriter.flush
Flush(bw) ==
  IF bw.bits = 0 THEN bw
  ELSE [data |-> bw.data \o Stuffed(<<bw.buf * 2 ^ (8 - bw.bits)>>),
        buf |-> 0, bits |-> 0]

-----------------------------------------------------------------------------
(* Blocks.                                                                 *)

\* diff.bit_length(), or that of -diff
Category(diff) ==
  LET size == IF diff < 0 THEN -diff ELSE diff
  IN  CHOOSE n \in 0 .. 16 : size < 2 ^ n /\ (n > 0 => size >= 2 ^ (n - 1))

\* Bug: a negative difference is written as its two's complement.
DiffBitsTwos(diff, cat) == <<diff % 2 ^ cat, cat>>

\* A negative difference is written as its one's complement.
DiffBits(diff, cat) == <<(IF diff < 0 THEN diff - 1 ELSE diff) % 2 ^ cat, cat>>

\* encode_block_dc_only: the category, the difference, and EOB
BlockFields(c, diff) ==
  LET cat == Category(diff)
      eob == CodeOf(AcCodes[c], 0)
  IN  IF cat = 0
      THEN <<CodeOf(DcCodes[c], 0), eob>>
      ELSE <<CodeOf(DcCodes[c], cat), DiffBits(diff, cat), eob>>

Init ==
  /\ \E r, g, b \in Levels : \E ycc \in YCbCr(r, g, b) : dc = DcOf(ycc)
  /\ text \in Texts
  /\ blocks = <<>> /\ prev = <<0, 0, 0>>
  /\ w = [data |-> <<>>, buf |-> 0, bits |-> 0]
  /\ out = <<>>

EncodeBlock ==
  /\ Len(blocks) < BlocksWide * BlocksHigh
  /\ LET cur == [dc EXCEPT ![1] = IF HasText(Len(blocks)) THEN TextDc ELSE @]
     IN  /\ w' = FoldLeft(Put, w, FlattenSeq([c \in 1 .. 3 |->
                                    BlockFields(c, cur[c] - prev[c])]))
         /\ prev' = cur /\ blocks' = Append(blocks, cur)
  /\ UNCHANGED <<dc, text, out>>

\* A segment: its length field, and the sizes of what is written after the marker.
Segment(length, sizes) == [length |-> length, sizes |-> sizes]

Dht(vals) == Segment(2 + 1 + 16 + vals, <<2, 1, 16, vals>>)

Segments ==
  <<Segment(16, <<2, 5, 1, 1, 2, 2, 2, 1, 1>>),     \* APP0
    Segment(67, <<2, 1, 64>>),                      \* DQT
    Segment(11 + 3 * 3, <<2, 1, 2, 2, 1, 3, 3, 3>>),  \* SOF0
    Dht(12), Dht(12), Dht(162), Dht(162),
    Segment(12, <<2, 1, 2, 2, 2, 3>>)>>             \* SOS

Finish ==
  /\ Len(blocks) = BlocksWide * BlocksHigh /\ out = <<>>
  /\ w' = Flush(w) /\ out' = Segments
  /\ UNCHANGED <<dc, text, blocks, prev>>

Next == EncodeBlock \/ Finish

Spec == Init /\ [][Next]_vars

-----------------------------------------------------------------------------
(* A reader, written from the JPEG standard and not from the code.         *)

\* The code of a symbol is the sum of what the symbols before it use up of the
\* codes of its length.
ReaderCodes(bits, vals) ==
  {[sym |-> vals[i],
    len |-> CodeLength(bits, i),
    code |-> MapThenSumSet(LAMBDA j : 2 ^ (CodeLength(bits, i) - CodeLength(bits, j)),
                           1 .. i - 1)] : i \in DOMAIN vals}

DcReader == [c \in 1 .. 3 |-> ReaderCodes(Tables[c].dcBits, DcVals)]
AcReader == [c \in 1 .. 3 |-> ReaderCodes(Tables[c].acBits, Tables[c].acVals)]

BitsOf(v, n) == [i \in 1 .. n |-> (v \div 2 ^ (n - i)) % 2]

\* The bits of the scan: a zero after 255 is no data.
ScanBits ==
  FlattenSeq([i \in DOMAIN w.data |->
                IF i > 1 /\ w.data[i - 1] = 255 THEN <<>> ELSE BitsOf(w.data[i], 8)])
    \o BitsOf(w.buf, w.bits)

ValueAt(bits, pos, n) ==
  FoldLeft(LAMBDA v, d : 2 * v + d, 0, SubSeq(bits, pos + 1, pos + n))

\* The symbols with which the bits may go on.
SymbolsAt(bits, pos, codes) ==
  {e \in codes : pos + e.len <= Len(bits) /\ ValueAt(bits, pos, e.len) = e.code}

Extend(v, cat) == IF cat > 0 /\ v < 2 ^ (cat - 1) THEN v - 2 ^ cat + 1 ELSE v

Stuck == [pos |-> 0, dcs |-> <<>>]

\* What has been read when k coefficients have.
ReadUpTo(bits, n) ==
  LET read[k \in 0 .. n] ==
        IF k = 0 THEN Stuck
        ELSE LET r    == read[k - 1]
                 c    == ((k - 1) % 3) + 1
                 cats == SymbolsAt(bits, r.pos, DcReader[c])
             IN  IF cats = {} THEN Stuck
                 ELSE LET cat == CHOOSE e \in cats : TRUE
                          at  == r.pos + cat.len + cat.sym
                          ac  == SymbolsAt(bits, at, AcReader[c])
                      IN  IF {e.sym : e \in ac} # {0} THEN Stuck
                          ELSE [pos |-> at + (CHOOSE e \in ac : TRUE).len,
                                dcs |-> Append(r.dcs,
                                  Extend(ValueAt(bits, r.pos + cat.len, cat.sym), cat.sym)
                                    + (IF k > 3 THEN r.dcs[k - 3] ELSE 0))]
  IN  read[n]

\* What a viewer of the text sees at a pixel: the column and the row of the
\* character cell it lies in.  The picture has the size that SOF0 gives it, so
\* the part of a character beyond the size asked for is seen as well.
Lit(x, y) ==
  LET i   == (x - Margin) \div (6 * Scale) + 1
      col == ((x - Margin) % (6 * Scale)) \div Scale
      row == (y - Margin) \div Scale + 1
  IN  /\ x >= Margin /\ y >= Margin
      /\ i \in DOMAIN text /\ col < 5 /\ row \in DOMAIN text[i]
      /\ (text[i][row] \div 2 ^ (4 - col)) % 2 = 1

\* The picture that is wanted: block n is bright where it holds a lit pixel.
Wanted(n) ==
  [dc EXCEPT ![1] = IF \E p \in BlockPixels(n) : Lit(p[1], p[2]) THEN TextDc ELSE @]

-----------------------------------------------------------------------------
(* Properties.                                                             *)

DcRange == -1024 .. 1016

TypeOK ==
  /\ dc \in [1 .. 3 -> DcRange] /\ prev \in [1 .. 3 -> DcRange]
  /\ blocks \in Seq([1 .. 3 -> DcRange]) /\ Len(blocks) <= BlocksWide * BlocksHigh
  /\ w.data \in Seq(0 .. 255) /\ w.bits \in 0 .. 7 /\ w.buf \in 0 .. 2 ^ w.bits - 1
  /\ out \in {<<>>, Segments}

\* At every moment a JPEG reader gets from the bits written so far the picture
\* that is wanted, as far as it has been encoded, and nothing but padding is left
\* over.
ScanDecodes ==
  LET r == ReadUpTo(ScanBits, 3 * Len(blocks))
  IN  /\ r.dcs = FlattenSeq([n \in 1 .. Len(blocks) |-> Wanted(n - 1)])
      /\ Len(ScanBits) - r.pos \in (IF out = <<>> THEN {0} ELSE 0 .. 7)
=============================================================================
