------------------------------- MODULE Probes -------------------------------
(***************************************************************************)
(* The probe programs: iap2_handshake.py, iap2_connect.py,                 *)
(* usb_reset_probe.py and probe_device.py.  Each is a fixed list of steps  *)
(* that write a packet to the device and print what endpoint 0x81 returns. *)
(* The programs know only by time which packet an answer belongs to: the   *)
(* reads after a write are printed under its label.                        *)
(*                                                                         *)
(* The device (external) repeats a beacon, may answer a packet at any      *)
(* later time or never, and keeps what no read has taken.  A packet is the *)
(* number of the write it answers, and 0 is the beacon.  The payloads a    *)
(* loop tries one after the other differ in nothing that matters here, so  *)
(* two of them stand for each loop.  The reads of endpoint 0x82 and the    *)
(* control transfers print their result and are left out.                  *)
(***************************************************************************)
EXTENDS Naturals, SequencesExt, FiniteSetsExt

CONSTANTS PipeSize   \* packets the endpoint holds until they are read

ASSUME ProbeAssumption == PipeSize \in Nat \ {0}

VARIABLES
  prog,      \* the program that runs; "none" before the user starts it
  step,      \* the step it is at
  left,      \* the reads its loop may still do
  written,   \* writes so far, the failed ones included
  ended,     \* "no", or how it ended
  attached,  \* the device is plugged in
  pipe,      \* what endpoint 0x81 holds
  pending,   \* packets the device has taken and may still answer
  (* history *)
  atLoop,    \* the answers that waited when the last loop of reads began
  stale,     \* those of them that waited when the loop before the write began
  printed    \* the last packet printed under the current label

probeVars == <<prog, step, left, written, ended, attached, pipe, pending,
               atLoop, stale, printed>>

-----------------------------------------------------------------------------
(* Steps.  A write that fails goes on skip + 1 steps further down; so does *)
(* a loop once it has read something, when skip is not 0.                  *)

\* for _ in range(n): read, until a read times out if stop is TRUE
Loop(n, stop, show, skip) ==
  [op |-> "loop", n |-> n, stop |-> stop, show |-> show, skip |-> skip]
Send(skip)    == [op |-> "write", skip |-> skip]
Pack(want, n) == [op |-> "pack", want |-> want, n |-> n]
Find          == [op |-> "find"]
ResetUsb      == [op |-> "reset"]
Listen        == [op |-> "listen"]

\* iap2_handshake.py: write_packet returns 0 when it fails, and the answer is
\* waited for all the same.  build_link_sync_response packs seven values in
\* '>BBHHHHBB', which is raised by struct.pack.
Drain10  == Loop(10, TRUE, TRUE, 0)
SyncResponse == <<Pack(8, 7)>>
LinkScript ==
  <<Drain10, Send(0), Drain10>> \o SyncResponse
    \o <<Send(0), Drain10, Send(0), Drain10, Send(0), Drain10, Send(0), Drain10,
         Send(0), Drain10>>
EapScript == <<Send(0), Drain10, Listen>>
HandshakeScript == <<Find>> \o LinkScript \o EapScript

\* iap2_connect.py: send_and_check, and two structures packed from one value
\* less than '>BBHHHHBBB' names
SendAndCheck == <<Loop(20, TRUE, FALSE, 0), Send(1), Loop(20, TRUE, TRUE, 0)>>
ConnectScript ==
  <<Find>> \o SendAndCheck \o SendAndCheck
    \o <<Pack(9, 8)>> \o SendAndCheck \o SendAndCheck

\* Bug: one read is taken for a drain.
OneRead == Loop(1, FALSE, FALSE, 0)

\* usb_reset_probe.py: the drain does not stop at a silence; nor do the reads
\* after the long packets of step 5.
FiveReads == Loop(5, FALSE, FALSE, 0)
Rapid     == <<FiveReads, Send(1), Loop(5, TRUE, TRUE, 0)>>
Long      == <<FiveReads, Send(1), Loop(5, FALSE, TRUE, 0)>>
ResetScript ==
  <<Find, Listen, ResetUsb, Find, Listen>> \o Rapid \o Rapid \o Long \o Long
    \o <<FiveReads, Send(1), Loop(1, TRUE, TRUE, 0)>>

\* probe_device.py: the first answer of any kind ends try_iap2_link_sync.
LinkSync  == <<Loop(3, TRUE, TRUE, 0), Send(1), Loop(1, TRUE, TRUE, 4),
               Send(1), Loop(1, TRUE, TRUE, 2), Send(1), Loop(1, TRUE, TRUE, 0)>>
Crossover == <<Send(1), Loop(1, TRUE, TRUE, 0)>>
DeviceScript == <<Find>> \o LinkSync \o Crossover

Programs == {"handshake", "connect", "reset", "device"}

Script(p) == CASE p = "handshake" -> HandshakeScript
               [] p = "connect"   -> ConnectScript
               [] p = "reset"     -> ResetScript
               [] p = "device"    -> DeviceScript

\* How many reads there are at least in the loops before the writes of p;
\* probe_device.py does not drain the endpoint.
Drains(p) == CASE p = "handshake" -> 10
               [] p = "connect"   -> 20
               [] p = "reset"     -> 5
               [] OTHER           -> 0

Writes(p) == Len(SelectSeq(Script(p), LAMBDA s : s.op = "write"))

-----------------------------------------------------------------------------
ProbeInit ==
  /\ prog = "none" /\ step = 0 /\ left = 0 /\ written = 0 /\ ended = "no"
  /\ attached \in BOOLEAN /\ pipe = <<>> /\ pending = {}
  /\ atLoop = {} /\ stale = {} /\ printed = 0

(* The device (external).                                                  *)

Arrive(p) ==
  /\ attached /\ prog # "none" /\ ended = "no" /\ Len(pipe) < PipeSize
  /\ pipe' = Append(pipe, p)
  /\ UNCHANGED <<prog, step, left, written, ended, attached, atLoop, stale, printed>>

Beacon == Arrive(0) /\ UNCHANGED pending

AnswerProbe == \E p \in pending : Arrive(p) /\ pending' = pending \ {p}

Detach ==
  /\ attached /\ prog # "none" /\ ended = "no"
  /\ attached' = FALSE /\ pipe' = <<>> /\ pending' = {}
  /\ UNCHANGED <<prog, step, left, written, ended, atLoop, stale, printed>>

-----------------------------------------------------------------------------
(* The program.                                                            *)

Now == Script(prog)[step]

Running(op) == prog # "none" /\ ended = "no" /\ Now.op = op

\* The program goes on at step n; a loop starts with its number of reads.
GoTo(n) ==
  /\ UNCHANGED prog
  /\ IF n > Len(Script(prog))
     THEN ended' = "done" /\ UNCHANGED <<step, left, atLoop>>
     ELSE LET s == Script(prog)[n]
          IN  /\ step' = n
              /\ left' = IF s.op = "loop" THEN s.n ELSE 0
              /\ atLoop' = IF s.op = "loop" THEN ToSet(pipe') \ {0} ELSE atLoop
              /\ UNCHANGED ended

Start ==
  /\ prog = "none"
  /\ prog' \in Programs /\ step' = 1
  /\ UNCHANGED <<left, written, ended, attached, pipe, pending, atLoop, stale,
                 printed>>

\* usb.core.find, and sys.exit(1) when it returns None.  Printing dev.product,
\* which asks the device for it, raises when the device has gone since or does
\* not tell; claiming the interfaces swallows every exception.
FindDevice ==
  /\ Running("find")
  /\ UNCHANGED <<written, attached, pipe, pending, stale, printed>>
  /\ \/ attached /\ GoTo(step + 1)
     \/ /\ ended' = IF attached THEN "no_product" ELSE "no_device"
        /\ UNCHANGED <<prog, step, left, atLoop>>

\* dev.reset(), in a try, and the seconds the program then sleeps: the device
\* may be found again after them or not
ResetDevice ==
  /\ Running("reset")
  /\ attached' \in BOOLEAN /\ pipe' = <<>> /\ pending' = {}
  /\ GoTo(step + 1)
  /\ UNCHANGED <<written, stale, printed>>

\* struct.pack raises when it gets fewer values than the format names.
Build ==
  /\ Running("pack")
  /\ UNCHANGED <<written, attached, pipe, pending, stale, printed>>
  /\ IF Now.want = Now.n THEN GoTo(step + 1)
     ELSE ended' = "raised" /\ UNCHANGED <<prog, step, left, atLoop>>

\* The packet is written under the next label; the write may fail, and does
\* when the device has gone.
WriteProbe ==
  /\ Running("write")
  /\ written' = written + 1 /\ printed' = 0
  /\ stale' = atLoop
  /\ UNCHANGED <<attached, pipe>>
  /\ \/ /\ attached
        /\ pending' = pending \union {written + 1}
        /\ GoTo(step + 1)
     \/ /\ UNCHANGED pending
        /\ GoTo(step + 1 + Now.skip)

\* Bug: the loop reads until a read times out, however often that is.
LessNever == left

\* Bug: a read is counted twice.
LessTwice == left - 2

\* One read of a loop less.
Less == left - 1

\* A read returns the packet that waits.
ReadPacket ==
  /\ Running("loop") /\ left > 0 /\ pipe # <<>>
  /\ pipe' = Tail(pipe)
  /\ printed' = IF Now.show THEN Head(pipe) ELSE printed
  /\ IF Now.skip > 0
     THEN GoTo(step + 1 + Now.skip)
     ELSE left' = Less /\ UNCHANGED <<prog, step, ended, atLoop>>
  /\ UNCHANGED <<written, attached, pending, stale>>

\* A read times out, or raises.
ReadNothing ==
  /\ Running("loop") /\ left > 0 /\ pipe = <<>>
  /\ UNCHANGED <<written, attached, pipe, pending, stale, printed>>
  /\ IF Now.stop
     THEN GoTo(step + 1)
     ELSE left' = Less /\ UNCHANGED <<prog, step, ended, atLoop>>

LoopEnds ==
  /\ Running("loop") /\ left = 0
  /\ UNCHANGED <<written, attached, pipe, pending, stale, printed>>
  /\ GoTo(step + 1)

\* continuous_read and fast_capture: reads until so many seconds have passed
ListenRead ==
  /\ Running("listen") /\ pipe # <<>>
  /\ pipe' = Tail(pipe)
  /\ UNCHANGED <<prog, step, left, written, ended, attached, pending, atLoop,
                 stale, printed>>

ListenEnds ==
  /\ Running("listen")
  /\ UNCHANGED <<written, attached, pipe, pending, stale, printed>>
  /\ GoTo(step + 1)

-----------------------------------------------------------------------------
ProbeDevice == Beacon \/ AnswerProbe \/ Detach

ProbeStep ==
  \/ Start \/ FindDevice \/ ResetDevice \/ Build \/ WriteProbe
  \/ ReadPacket \/ ReadNothing \/ LoopEnds \/ ListenRead

ProbeNext == ProbeDevice \/ ProbeStep \/ ListenEnds

-----------------------------------------------------------------------------
(* Properties.                                                             *)

ProbeTypeOK ==
  /\ prog \in Programs \union {"none"}
  /\ step \in 0 .. 30 /\ left \in 0 .. 20 /\ written \in 0 .. step
  /\ ended \in {"no", "done", "raised", "no_device", "no_product"}
  /\ attached \in BOOLEAN
  /\ pipe \in Seq(0 .. written) /\ Len(pipe) <= PipeSize
  /\ pending \subseteq 1 .. written /\ printed \in 0 .. written
  /\ atLoop \subseteq 1 .. written /\ stale \subseteq 1 .. written

\* A drain of the program takes all that the endpoint can hold.
ReadsAll == PipeSize <= Drains(prog)

\* No answer is printed under the label of a later packet if it was there when
\* the reads that precede that packet began, unless the endpoint holds more than
\* those reads take: only an answer that comes after them can be taken for
\* another's.  probe_device.py does not read to the end before it writes and
\* prints such answers.
NoStaleAnswer == ReadsAll => printed \notin stale

\* A program that was started ends, however often the device sends its beacon.
ScriptEnds == prog # "none" ~> ended # "no"
=============================================================================
