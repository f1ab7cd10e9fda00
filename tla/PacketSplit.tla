----------------------------- MODULE PacketSplit -----------------------------
(***************************************************************************)
(* The video loop of td300_full_connect.py and td300_connect.py, byte by   *)
(* byte: a transfer is cut into link packets by the sync word and the      *)
(* length in their headers.  Nothing is kept from one transfer to the      *)
(* next.  The device (external) sends packets, with the marker of the      *)
(* detection between them, and a transfer may end anywhere.                *)
(*                                                                         *)
(* Bytes are numbers.  A header has HeaderLen bytes (9 in the code): the   *)
(* sync word, the length, the packet's number and filling; the length is   *)
(* one byte here and two in the code.  The checksum of a header, which     *)
(* td300_full_connect.py compares and td300_connect.py does not, is left   *)
(* out: the packets of both are right, and what looks like one may be too. *)
(***************************************************************************)
EXTENDS Naturals, SequencesExt, FiniteSetsExt

CONSTANTS
  HeaderLen,   \* 9
  Payloads,    \* payloads of the packets
  MaxSent,     \* bound: packets and markers the device sends
  MaxTransfers \* bound: reads that return something

Byte == 0 .. 255

\* A packet's length and its number fit into their byte.
ASSUME SplitAssumption ==
  /\ HeaderLen \in Nat \ (0 .. 3) /\ MaxTransfers \in Nat
  /\ Payloads \subseteq Seq(Byte)
  /\ \A b \in Payloads : HeaderLen + Len(b) < 255
  /\ MaxSent \in Byte

VARIABLES
  spc,       \* "read" or "split"
  line,      \* bytes the device has sent and no transfer has taken
  d,         \* the transfer that is being split
  offset,    \* 0 is the first byte
  got,       \* the numbers of the packets found, in order
  (* history *)
  packets,   \* the bytes of each packet sent; a marker is one of them
  taken,     \* the bytes of all transfers
  cuts       \* how many bytes had been taken at the end of each transfer

splitVars == <<spc, line, d, offset, got, packets, taken, cuts>>

SplitInit ==
  /\ spc = "read" /\ line = <<>> /\ d = <<>> /\ offset = 0 /\ got = <<>>
  /\ packets = <<>> /\ taken = 0 /\ cuts = {0}

-----------------------------------------------------------------------------
(* The device (external).                                                  *)

\* The payload, if there is one, is followed by its checksum.
LinkPacket(id, payload) ==
  LET body == IF payload = <<>> THEN <<>> ELSE Append(payload, 0)
  IN  <<255, 90, HeaderLen + Len(body), id>>
        \o [i \in 1 .. HeaderLen - 4 |-> 0] \o body

DetectMarker == <<255, 85, 2, 0, 238, 16>>

\* What comes while a transfer is split makes no difference before the next.
SendPacket ==
  /\ spc = "read" /\ Len(packets) < MaxSent
  /\ \E p \in {LinkPacket(Len(packets) + 1, b) : b \in Payloads} \union {DetectMarker} :
       packets' = Append(packets, p) /\ line' = line \o p
  /\ UNCHANGED <<spc, d, offset, got, taken, cuts>>

-----------------------------------------------------------------------------
(* The program.                                                            *)

\* d = rd(2000)
ReadTransfer ==
  /\ spc = "read" /\ Cardinality(cuts) <= MaxTransfers
  /\ \E k \in 1 .. Len(line) :
       /\ d' = SubSeq(line, 1, k) /\ line' = SubSeq(line, k + 1, Len(line))
       /\ taken' = taken + k /\ cuts' = cuts \union {taken + k}
  /\ offset' = 0 /\ spc' = "split"
  /\ UNCHANGED <<got, packets>>

InLoop == spc = "split" /\ offset < Len(d)

HeaderFits == offset + HeaderLen <= Len(d)

SyncHere == d[offset + 1] = 255 /\ d[offset + 2] = 90

LengthHere == d[offset + 3]

\* Bug: a packet that ends with the transfer is left out.
EndsInsideLess == offset + LengthHere < Len(d)

EndsInside == offset + LengthHere <= Len(d)

\* parse_link, pl: None unless the piece has a header
Parsed(piece) == IF Len(piece) < HeaderLen THEN <<>> ELSE <<piece[4]>>

\* the loop's condition fails, the rest is too short for a header, or for the
\* packet it announces: break
Break ==
  /\ spc = "split"
  /\ InLoop /\ HeaderFits => SyncHere /\ ~EndsInside
  /\ spc' = "read"
  /\ UNCHANGED <<line, d, offset, got, packets, taken, cuts>>

\* Bug: a piece that is no packet is left before the offset is advanced.
NextOffsetLate == IF LengthHere < HeaderLen THEN offset ELSE offset + LengthHere

NextOffset == offset + LengthHere

\* p = parse_link(d[offset:end]); offset = end; if not p: continue
SplitPacket ==
  /\ InLoop /\ HeaderFits /\ SyncHere /\ EndsInside
  /\ offset' = NextOffset
  /\ got' = got \o Parsed(SubSeq(d, offset + 1, offset + LengthHere))
  /\ UNCHANGED <<spc, line, d, packets, taken, cuts>>

\* offset += 1
SkipByte ==
  /\ InLoop /\ HeaderFits /\ ~SyncHere
  /\ offset' = offset + 1
  /\ UNCHANGED <<spc, line, d, got, packets, taken, cuts>>

SplitStep == ReadTransfer \/ Break \/ SplitPacket \/ SkipByte

SplitNext == SendPacket \/ SplitStep

-----------------------------------------------------------------------------
(* Properties.                                                             *)

SplitTypeOK ==
  /\ spc \in {"read", "split"}
  /\ line \in Seq(Byte) /\ d \in Seq(Byte) /\ offset \in 0 .. Len(d)
  /\ got \in Seq(Byte)
  /\ packets \in Seq(Seq(Byte)) /\ Len(packets) <= MaxSent
  /\ taken \in Nat /\ cuts \subseteq 0 .. taken

\* Where packet n begins and ends in what was sent.
BeginOf(n) == Len(FlattenSeq(SubSeq(packets, 1, n - 1)))
EndOf(n)   == BeginOf(n) + Len(packets[n])

IsPacket(n) == packets[n] # DetectMarker

Straddles(n) == \E c \in cuts : BeginOf(n) < c /\ c < EndOf(n)

\* What is inside a packet that was cut, read without its beginning, may look
\* like the start of another.
Misleading(n) ==
  Straddles(n) /\ \E i \in 2 .. Len(packets[n]) - 1 :
                    packets[n][i] = 255 /\ packets[n][i + 1] = 90

\* The number of a packet that one transfer held as a whole.
Whole(n) == IF IsPacket(n) /\ EndOf(n) <= taken /\ ~Straddles(n) THEN <<n>> ELSE <<>>

NotMisled == \A n \in 1 .. Len(packets) : ~Misleading(n)

\* Whatever the payloads and wherever the transfers end, the packets that one
\* transfer holds as a whole are found, once each and in order, and a cut costs
\* no packet but the one it goes through -- unless what is left of that one
\* contains a sync word.
FindsWholePackets ==
  spc = "read" /\ NotMisled => got = FlattenSeq([n \in 1 .. Len(packets) |-> Whole(n)])

\* The loop over a transfer ends, whatever it contains, unless it meets a
\* header with length zero, where it stays.
AtZeroLength == InLoop /\ HeaderFits /\ SyncHere /\ LengthHere = 0

SplitEnds == spc = "split" ~> (spc = "read" \/ AtZeroLength)
=============================================================================
