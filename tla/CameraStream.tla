---------------------------- MODULE CameraStream ----------------------------
(***************************************************************************)
(* camera_thread of stream.py: the byte stream of endpoint 0x82 is cut     *)
(* into packets, the packets' JPEG fragments are put together, and each    *)
(* finished picture is published in latest_frame.                          *)
(*                                                                         *)
(* The device (external, known from what the code expects of it) answers   *)
(* the two commands and then sends pictures, each in one packet that       *)
(* starts with FF D8 and any number of further ones.  A read returns any   *)
(* number of the bytes that wait, so packets arrive cut anywhere.  A read  *)
(* that raises after a partial transfer loses what it had ("except         *)
(* Exception: return None").  A read that returns nothing changes nothing  *)
(* ("if not d: continue") and is a stuttering step; the loop has no other  *)
(* exit, for nothing else in its body raises.                              *)
(*                                                                         *)
(* Bytes are numbers.  The header is 5 bytes as in the code; the sizes the *)
(* code writes as 7, 1000 and 65536 are constants.                         *)
(***************************************************************************)
EXTENDS Naturals, SequencesExt, FiniteSetsExt

CONSTANTS
  InnerLen,    \* bytes of the inner header before the JPEG data (7)
  MinFrame,    \* a picture must be longer than this to be published (1000)
  MaxTotal,    \* a longer packet is taken for a false sync (65536)
  Bodies,      \* what may follow a picture's number in a fragment
  Chunks,      \* sizes of a read that does not return all that waits
  Backlog,     \* the device sends on only while no more bytes than this wait
  MaxPackets,  \* bound: packets the device sends once it streams
  MaxLosses    \* bound: reads that raise in the middle of a transfer

Byte == 0 .. 255

\* No packet of the device's is one that the parser takes for a false sync, and
\* a packet's length fits its two bytes; a picture's number is one byte.
ASSUME CameraAssumption ==
  /\ InnerLen \in Nat /\ MinFrame \in Nat
  /\ MaxTotal \in Nat /\ 6 <= MaxTotal /\ MaxTotal <= 256 * 256
  /\ Backlog \in Nat /\ MaxPackets \in Byte /\ MaxLosses \in Nat
  /\ Bodies \subseteq Seq(Byte) /\ Chunks \subseteq Nat \ {0}
  /\ 5 + InnerLen <= MaxTotal
  /\ \A b \in Bodies : 8 + InnerLen + Len(b) <= MaxTotal

VARIABLES
  pc,          \* where camera_thread is
  rx_buf,      \* bytes read and not yet parsed
  jpeg_buf,    \* the picture being put together
  latest,      \* latest_frame; <<>> is None
  count,       \* frame_count
  fifo,        \* bytes the device has sent and no read has taken
  streaming,   \* the device has seen the command that opens the stream
  sent,        \* packets the device has sent since then
  losses,      \* reads that lost bytes
  (* history *)
  pics,        \* the bytes of each picture, as far as it has been sent
  clean,       \* no picture's bytes were lost on the way to the parser
  ahead,       \* while clean, the packets the parser has not yet extracted
  frames       \* every frame published

deviceVars == <<streaming, sent, pics>>
storeVars  == <<latest, count, frames>>
vars == <<pc, rx_buf, jpeg_buf, latest, count, fifo, streaming, sent, losses,
          pics, clean, ahead, frames>>

Init ==
  /\ pc = "info" /\ rx_buf = <<>> /\ jpeg_buf = <<>>
  /\ latest = <<>> /\ count = 0 /\ frames = <<>>
  /\ fifo = <<>> /\ streaming = FALSE /\ sent = 0 /\ losses = 0
  /\ pics = <<>> /\ clean = TRUE /\ ahead = <<>>

-----------------------------------------------------------------------------
(* Packets.                                                                *)

Video == {7, 10}

Packet(cid, payload) ==
  <<187, 170, cid, Len(payload) % 256, Len(payload) \div 256>> \o payload

Inner == [i \in 1 .. InnerLen |-> 0]

IsHead(data) == Len(data) >= 2 /\ data[1] = 255 /\ data[2] = 216

\* The positions of a sync word, in either byte order.
SyncAt(b) ==
  {i \in 1 .. Len(b) - 1 : <<b[i], b[i + 1]>> \in {<<187, 170>>, <<170, 187>>}}

Trimmed(b) == SubSeq(b, Min(SyncAt(b)), Len(b))

PayloadLen(b) == b[4] + 256 * b[5]
\* Bug: the header counts four bytes.
TotalShort(b) == 4 + PayloadLen(b)

Total(b) == 5 + PayloadLen(b)

\* Bug: the JPEG data starts one byte early.
JpegDataEarly(p) == SubSeq(p, 5 + InnerLen, Len(p))

JpegData(p) == SubSeq(p, 6 + InnerLen, Len(p))

IsVideo(p) == p[3] \in Video /\ PayloadLen(p) > InnerLen

\* The trailing zero bytes are cut off, down to two bytes at least.
Strip(b) ==
  SubSeq(b, 1, Max({e \in 0 .. Len(b) : e <= 2 \/ b[e] # 0}))

-----------------------------------------------------------------------------
(* The device (external).                                                  *)

Send(p) ==
  /\ streaming /\ sent < MaxPackets /\ Len(fifo) <= Backlog
  /\ sent' = sent + 1
  /\ fifo' = fifo \o p
  /\ ahead' = IF clean THEN Append(ahead, p) ELSE <<>>
  /\ UNCHANGED <<pc, rx_buf, jpeg_buf, storeVars, streaming, losses, clean>>

SendHead ==
  \E body \in Bodies :
    LET data == <<255, 216, Len(pics) + 1>> \o body
    IN  /\ Send(Packet(7, Inner \o data))
        /\ pics' = Append(pics, data)

SendTail ==
  \E body \in Bodies :
    LET data == <<Len(pics)>> \o body
    IN  /\ pics # <<>>
        /\ Send(Packet(10, Inner \o data))
        /\ pics' = [pics EXCEPT ![Len(pics)] = @ \o data]

\* a status packet, or a video packet without JPEG data
SendOther ==
  /\ \/ Send(Packet(11, <<5>>))
     \/ Send(Packet(7, Inner))
  /\ UNCHANGED pics

-----------------------------------------------------------------------------
(* Reads.                                                                  *)

ReadSizes == {k \in Chunks \union {Len(fifo)} : 0 < k /\ k <= Len(fifo)}

\* k bytes leave the endpoint without reaching the parser.
Discard(k) ==
  LET whole == {m \in 0 .. Len(ahead) :
                  /\ Len(FlattenSeq(SubSeq(ahead, 1, m))) = k
                  /\ \A i \in 1 .. m : ~IsVideo(ahead[i])}
      ok    == clean /\ rx_buf = <<>> /\ whole # {}
  IN  /\ fifo' = SubSeq(fifo, k + 1, Len(fifo))
      /\ clean' = ok
      /\ ahead' = IF ok THEN SubSeq(ahead, Max(whole) + 1, Len(ahead)) ELSE <<>>

\* The commands BB AA 05 and BB AA 06 are written and the device answers them,
\* or the write fails and nobody notices ("except Exception: pass").
Command(cid, reply) ==
  \/ /\ fifo' = fifo \o Packet(cid, reply)
     /\ ahead' = IF clean THEN Append(ahead, Packet(cid, reply)) ELSE <<>>
     /\ streaming' = (cid = 6)
  \/ UNCHANGED <<fifo, ahead, streaming>>

WriteInfo ==
  /\ pc = "info"
  /\ Command(5, <<9>>)
  /\ pc' = "read_info"
  /\ UNCHANGED <<rx_buf, jpeg_buf, storeVars, sent, losses, pics, clean>>

WriteOpen ==
  /\ pc = "open"
  /\ Command(6, <<>>)
  /\ pc' = "read_ack"
  /\ UNCHANGED <<rx_buf, jpeg_buf, storeVars, sent, losses, pics, clean>>

\* info = rd82(500) is only printed, and the ack's rd82(500) is thrown away:
\* whatever the read returns is lost, if it returns anything.
ReadReply ==
  /\ pc \in {"read_info", "read_ack"}
  /\ \/ \E k \in ReadSizes : Discard(k)
     \/ UNCHANGED <<fifo, clean, ahead>>
  /\ pc' = IF pc = "read_info" THEN "open" ELSE "read"
  /\ UNCHANGED <<rx_buf, jpeg_buf, storeVars, losses, deviceVars>>

\* d = rd82(200); rx_buf.extend(d)
Read ==
  /\ pc = "read"
  /\ \E k \in ReadSizes :
       /\ rx_buf' = rx_buf \o SubSeq(fifo, 1, k)
       /\ fifo' = SubSeq(fifo, k + 1, Len(fifo))
  /\ pc' = "parse"
  /\ UNCHANGED <<jpeg_buf, storeVars, deviceVars, losses, clean, ahead>>

\* rd82 raises after k bytes
ReadLoses ==
  /\ pc = "read" /\ losses < MaxLosses
  /\ \E k \in ReadSizes : Discard(k)
  /\ losses' = losses + 1
  /\ UNCHANGED <<pc, rx_buf, jpeg_buf, storeVars, deviceVars>>

-----------------------------------------------------------------------------
(* One iteration of the parse loop.                                        *)

\* Bug: a packet that has just arrived counts as incomplete.
IncompleteOrWhole(b) ==
  Len(b) >= 5 => Len(b) <= Total(b) /\ Total(b) <= MaxTotal

\* Bug: no limit on the length a header may claim.
IncompleteUnlimited(b) == Len(b) >= 5 => Len(b) < Total(b)

\* The header is not there yet, or its packet is acceptable and not there yet.
Incomplete(b) == Len(b) >= 5 => Len(b) < Total(b) /\ Total(b) <= MaxTotal

AfterSync(b) == SubSeq(b, 3, Len(b))

\* Bug: the length in the header is taken for the length of the packet.
AfterPayload(b) == SubSeq(b, PayloadLen(b) + 1, Len(b))

AfterPacket(b) == SubSeq(b, Total(b) + 1, Len(b))

ParseStep(next) ==
  /\ pc = "parse" /\ pc' = next
  /\ UNCHANGED <<fifo, deviceVars, losses, clean>>

Found == Len(rx_buf) >= 5 /\ SyncAt(rx_buf) # {}

\* the loop's condition fails, or no sync word is found: rx_buf.clear(); break
ParseDone ==
  /\ ParseStep("read")
  /\ ~Found
  /\ rx_buf' = IF Len(rx_buf) < 5 THEN rx_buf ELSE <<>>
  /\ UNCHANGED <<jpeg_buf, storeVars, ahead>>

\* what precedes the sync word is dropped; break
ParseNeedsMore ==
  /\ ParseStep("read")
  /\ Found /\ Incomplete(Trimmed(rx_buf))
  /\ rx_buf' = Trimmed(rx_buf)
  /\ UNCHANGED <<jpeg_buf, storeVars, ahead>>

\* too long to be a packet: skip the sync word; continue
ParseSkip ==
  /\ ParseStep("parse")
  /\ Found
  /\ LET b == Trimmed(rx_buf)
     IN  Len(b) >= 5 /\ Total(b) > MaxTotal /\ rx_buf' = AfterSync(b)
  /\ UNCHANGED <<jpeg_buf, storeVars, ahead>>

\* Bug: the frame counter is not advanced.
FlushUncounted ==
  LET f == Strip(jpeg_buf)
  IN  IF jpeg_buf # <<>> /\ Len(f) > MinFrame
      THEN latest' = f /\ frames' = Append(frames, f) /\ UNCHANGED count
      ELSE UNCHANGED storeVars

\* Flush the previous picture: with frame_lock, latest_frame and frame_count.
Flush ==
  LET f == Strip(jpeg_buf)
  IN  IF jpeg_buf # <<>> /\ Len(f) > MinFrame
      THEN /\ latest' = f
           /\ count' = count + 1
           /\ frames' = Append(frames, f)
      ELSE UNCHANGED storeVars

\* Bug: every fragment is taken for the start of a picture.
AssembleEach(data) == Flush /\ jpeg_buf' = data

Assemble(data) ==
  IF IsHead(data) THEN Flush /\ jpeg_buf' = data
                  ELSE jpeg_buf' = jpeg_buf \o data /\ UNCHANGED storeVars

ParsePacket ==
  /\ ParseStep("parse")
  /\ Found
  /\ LET b == Trimmed(rx_buf)
     IN  /\ Len(b) >= 5 /\ Total(b) <= MaxTotal /\ Total(b) <= Len(b)
         /\ rx_buf' = AfterPacket(b)
         /\ LET p == SubSeq(b, 1, Total(b))
            IN  IF IsVideo(p) THEN Assemble(JpegData(p))
                              ELSE UNCHANGED <<jpeg_buf, storeVars>>
  /\ ahead' = IF clean /\ ahead # <<>> THEN Tail(ahead) ELSE <<>>

-----------------------------------------------------------------------------
Device == SendHead \/ SendTail \/ SendOther

Parse == ParseDone \/ ParseNeedsMore \/ ParseSkip \/ ParsePacket

Camera == WriteInfo \/ ReadReply \/ WriteOpen \/ Read \/ Parse

Next == Device \/ Camera \/ ReadLoses

Spec == Init /\ [][Next]_vars

\* The thread runs; the device need not send anything.
FairSpec == Spec /\ WF_vars(Camera)

-----------------------------------------------------------------------------
(* Properties.                                                             *)

TypeOK ==
  /\ pc \in {"info", "read_info", "open", "read_ack", "read", "parse"}
  /\ rx_buf \in Seq(Byte) /\ jpeg_buf \in Seq(Byte) /\ fifo \in Seq(Byte)
  /\ streaming \in BOOLEAN /\ clean \in BOOLEAN
  /\ sent \in 0 .. MaxPackets /\ losses \in 0 .. MaxLosses
  /\ count = Len(frames)
  /\ latest = IF count = 0 THEN <<>> ELSE Last(frames)

\* However the reads cut the stream, the parser neither loses, repeats nor
\* invents a packet: what it has not parsed, followed by what is on the way, is
\* exactly the packets it has still to extract.
CutsDoNotMatter == clean => rx_buf \o fifo = FlattenSeq(ahead)

\* As long as no bytes are lost, the frames published are the pictures sent, in
\* order and each one whole: one for each picture that is long enough and whose
\* successor has been parsed.
Finished ==
  LET heads == {i \in 1 .. Len(ahead) : IsVideo(ahead[i]) /\ IsHead(JpegData(ahead[i]))}
      begun == Len(pics) - Cardinality(heads)
  IN  SubSeq(pics, 1, begun - 1)

\* What is published of a picture.
Kept(p) == IF Len(Strip(p)) > MinFrame THEN <<Strip(p)>> ELSE <<>>

WholePictures ==
  clean => frames = FlattenSeq([k \in 1 .. Len(Finished) |-> Kept(Finished[k])])

\* A lost head can cost one picture its beginning, at the start of a session
\* only: every later frame starts with the JPEG start marker, whatever is lost.
OnlyFirstHeadless == \A i \in 2 .. Len(frames) : IsHead(frames[i])

\* Between two reads the parser holds less than one packet, so a false sync
\* word cannot make it buffer without limit.
BufferBounded == pc = "read" => Len(rx_buf) < MaxTotal

\* An iteration of the parse loop that changes anything and goes round again
\* leaves fewer bytes to parse, whatever they are.
ParseShrinks ==
  [][pc = "parse" /\ pc' = "parse" /\ sent' = sent =>
       Len(rx_buf') < Len(rx_buf)]_vars

\* A picture whose successor has been sent is parsed to its end, and with
\* WholePictures published, unless bytes are lost.
PicturesArrive ==
  \A n \in 2 .. MaxPackets :
    Len(pics) = n ~> (~clean \/ Len(Finished) >= n - 1)

\* The parser never waits for more bytes with a whole packet in hand: between
\* two reads, what it holds is part of the next packet only.
NothingHeldBack ==
  clean /\ pc = "read" =>
    \/ rx_buf = <<>>
    \/ ahead # <<>> /\ Len(rx_buf) < Len(Head(ahead))
=============================================================================
