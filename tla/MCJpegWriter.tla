---------------------------- MODULE MCJpegWriter ----------------------------
(***************************************************************************)
(* JpegWriter on a picture of four by three blocks, and what its docstring *)
(* promises.                                                               *)
(***************************************************************************)
EXTENDS JpegWriter

\* The glyphs of 'I', ':' and 'H' in _FONT.
LetterI == [row \in 1 .. 7 |-> IF row \in {1, 7} THEN 14 ELSE 4]
Colon   == [row \in 1 .. 7 |-> IF row \in {2, 5} THEN 4 ELSE 0]
LetterH == [row \in 1 .. 7 |-> IF row = 4 THEN 31 ELSE 17]

\* Of 28 by 20 pixels, 32 by 24 are written.  Either edge of these cuts a letter;
\* the lower dot of a colon, and all of a second one, lie between the two sizes.
\* <<>> is a character that _FONT lacks.
MCTexts == {<<>>, <<LetterI>>, <<Colon, LetterH>>, <<<<>>, Colon>>}

\* web_viewer.py:463, "Build a valid JPEG": a reader that skips a segment by its
\* length arrives at the next marker.
SegmentsAddUp ==
  \A i \in DOMAIN out : out[i].length = FoldLeft(+, 0, out[i].sizes)
=============================================================================
