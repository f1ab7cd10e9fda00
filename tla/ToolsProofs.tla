----------------------------- MODULE ToolsProofs -----------------------------
(***************************************************************************)
(* Theorems about Tools, for every size of the endpoint's queue, every set *)
(* of payloads and all bounds.  Each program has an inductive invariant of *)
(* its own (that of the probe programs is in ProbesProofs, that of the     *)
(* video loop in PacketSplitProofs); their conjunction is the invariant of *)
(* Tools, because a step of one program leaves the variables of the others *)
(* alone.                                                                  *)
(***************************************************************************)
EXTENDS Tools, ProbesProofs, PacketSplitProofs

-----------------------------------------------------------------------------
(* TeslongViewer.                                                          *)

\* What has been received is counted; before the first session there is
\* nothing, and the end of a stream closes the file.
ViewerInv ==
  /\ ViewerTypeOK
  /\ Len(inputBuffer) = totalBytesRead
  /\ opens = 0 => streams = {} /\ inputBuffer = <<>>
  /\ outputFile = "closed" => ending
  /\ CaptureOnFile
  /\ CrashNeedsEnd

LEMMA ViewerInitInv == ViewerInit => ViewerInv
<1> SUFFICES ASSUME ViewerInit PROVE ViewerInv
  OBVIOUS
<1>1. MaxReads \in Nat /\ MaxOpens \in Nat
  BY ViewerAssumption
<1>2. totalBytesRead \in 0 .. MaxReads /\ opens \in 0 .. MaxOpens
  BY <1>1 DEF ViewerInit
<1>3. connected \in BOOLEAN /\ session \in BOOLEAN /\ headerAnalyzed \in BOOLEAN
      /\ ending \in BOOLEAN
  BY DEF ViewerInit
<1>4. notices \in Seq({"connect", "disconnect"}) /\ Len(notices) <= 2
      /\ inputBuffer \in Seq(1 .. MaxReads) /\ file \in Seq(1 .. MaxReads)
  BY DEF ViewerInit
<1>5. ViewerTypeOK
  BY <1>2, <1>3, <1>4 DEF ViewerInit, ViewerTypeOK
<1> QED
  BY <1>5 DEF ViewerInit, ViewerInv, CaptureOnFile, CrashNeedsEnd

\* A session opens, or is refused.
LEMMA OpenInv ==
  ASSUME ViewerInv, StartMonitoring \/ AccessoryConnected
  PROVE  ViewerInv'
<1>1. /\ vpc \in {"monitor", "loop"} /\ vpc' = "loop"
      /\ UNCHANGED <<connected, inputBuffer, totalBytesRead, headerAnalyzed, ending>>
      /\ OpenSession
  BY DEF StartMonitoring, AccessoryConnected, dataVars
<1>2. notices' \in Seq({"connect", "disconnect"}) /\ Len(notices') <= 2
  BY DEF StartMonitoring, AccessoryConnected, ViewerInv, ViewerTypeOK
<1>3. CASE UNCHANGED <<opens, session, streams, outputFile, file>>
  BY <1>1, <1>2, <1>3 DEF ViewerInv, ViewerTypeOK, CaptureOnFile, CrashNeedsEnd
<1>4. CASE /\ opens < MaxOpens /\ opens' = opens + 1
           /\ session' = TRUE /\ streams' \in SUBSET {"input", "output"}
           /\ OpenFile
  <2>1. opens' \in 0 .. MaxOpens /\ opens' # 0 /\ (opens' = 1 => opens = 0)
    BY <1>4, ViewerAssumption DEF ViewerInv, ViewerTypeOK
  <2>2. /\ outputFile' \in {"open", "nil"} /\ file' \in {<<>>, file}
        /\ outputFile' = "open" => file' = <<>>
    BY <1>4 DEF OpenFile
  <2>3. CaptureOnFile'
    BY <1>1, <1>4, <2>1, <2>2, ViewerAssumption DEF ViewerInv, ViewerTypeOK, CaptureOnFile
  <2>4. ViewerTypeOK'
    <3>1. file' \in Seq(1 .. MaxReads)
      <4>1. <<>> \in Seq(1 .. MaxReads)
        OBVIOUS
      <4>2. file \in Seq(1 .. MaxReads)
        BY DEF ViewerInv, ViewerTypeOK
      <4> QED
        BY <2>2, <4>1, <4>2
    <3>2. streams' \subseteq {"input", "output"} /\ session' \in BOOLEAN
      BY <1>4
    <3> QED
      BY <1>1, <1>2, <2>1, <2>2, <3>1, <3>2 DEF ViewerInv, ViewerTypeOK
  <2> QED
    BY <1>1, <1>4, <2>1, <2>2, <2>3, <2>4 DEF ViewerInv, CrashNeedsEnd
<1> QED
  BY <1>1, <1>3, <1>4 DEF OpenSession

\* What is read goes into the buffer and into the file, or the program stops.
LEMMA ReceiveInv ==
  ASSUME ViewerInv, HasBytesAvailable
  PROVE  ViewerInv'
<1> DEFINE b == totalBytesRead + 1
<1>1. /\ vpc = "loop" /\ streams # {} /\ totalBytesRead' = b
      /\ b \in 1 .. MaxReads
      /\ inputBuffer' = Append(inputBuffer, b)
      /\ vpc' = IF outputFile = "closed" THEN "crashed" ELSE vpc
      /\ file' = IF outputFile = "open" THEN Append(file, b) ELSE file
      /\ headerAnalyzed' \in BOOLEAN
      /\ UNCHANGED <<connected, notices, session, streams, outputFile, opens, ending>>
  BY ViewerAssumption DEF HasBytesAvailable, Keep, ViewerInv, ViewerTypeOK
<1> HIDE DEF b
<1>2. /\ inputBuffer' \in Seq(1 .. MaxReads) /\ file' \in Seq(1 .. MaxReads)
      /\ Len(inputBuffer') = totalBytesRead'
  <2>1. inputBuffer \in Seq(1 .. MaxReads) /\ file \in Seq(1 .. MaxReads)
    BY DEF ViewerInv, ViewerTypeOK
  <2>2. /\ Append(inputBuffer, b) \in Seq(1 .. MaxReads)
        /\ Append(file, b) \in Seq(1 .. MaxReads)
        /\ Len(Append(inputBuffer, b)) = Len(inputBuffer) + 1
    BY <1>1, <2>1, AppendProperties
  <2> QED
    BY <1>1, <2>1, <2>2 DEF ViewerInv, b
<1>3. ViewerTypeOK'
  BY <1>1, <1>2 DEF ViewerInv, ViewerTypeOK
<1>4. opens # 0
  BY <1>1 DEF ViewerInv
<1>5. CaptureOnFile'
  BY <1>1, <1>4 DEF ViewerInv, ViewerTypeOK, CaptureOnFile
<1>6. CrashNeedsEnd'
  BY <1>1 DEF ViewerInv, CrashNeedsEnd
<1> QED
  BY <1>1, <1>2, <1>3, <1>4, <1>5, <1>6 DEF ViewerInv

LEMMA ViewerNextInv ==
  ASSUME ViewerInv, ViewerNext
  PROVE  ViewerInv'
<1>1. CASE Attach \/ Disconnect
  <2>1. /\ UNCHANGED <<vpc, session, streams, dataVars, outputFile, file, opens, ending>>
        /\ connected' \in BOOLEAN
        /\ \/ notices' = notices
           \/ /\ Len(notices) < 2
              /\ \E n \in {"connect", "disconnect"} : notices' = Append(notices, n)
    BY <1>1 DEF Attach, Disconnect
  <2>2. notices \in Seq({"connect", "disconnect"}) /\ Len(notices) <= 2
    BY DEF ViewerInv, ViewerTypeOK
  <2>3. notices' \in Seq({"connect", "disconnect"}) /\ Len(notices') <= 2
    BY <2>1, <2>2
  <2> QED
    BY <2>1, <2>3 DEF dataVars, ViewerInv, ViewerTypeOK, CaptureOnFile, CrashNeedsEnd
<1>2. CASE AccessoryDisconnected
  <2>1. notices' \in Seq({"connect", "disconnect"}) /\ Len(notices') <= 2
    BY <1>2 DEF AccessoryDisconnected, ViewerInv, ViewerTypeOK
  <2>2. /\ session' = FALSE /\ streams' \in {streams, {}}
        /\ UNCHANGED <<vpc, connected, dataVars, outputFile, file, opens, ending>>
    BY <1>2 DEF AccessoryDisconnected
  <2> QED
    BY <2>1, <2>2 DEF dataVars, ViewerInv, ViewerTypeOK, CaptureOnFile, CrashNeedsEnd
<1>3. CASE EndEncountered
  <2>1. /\ vpc = "loop" /\ vpc' \in {"loop", "crashed"} /\ ending' = TRUE
        /\ streams # {} /\ streams' \subseteq streams
        /\ outputFile' = IF outputFile = "open" THEN "closed" ELSE outputFile
        /\ UNCHANGED <<connected, notices, session, dataVars, file, opens>>
    BY <1>3 DEF EndEncountered, AnalyzeCapture
  <2> QED
    BY <2>1 DEF dataVars, ViewerInv, ViewerTypeOK, CaptureOnFile, CrashNeedsEnd
<1>4. CASE RunLoopReturns
  BY <1>4 DEF RunLoopReturns, dataVars, ViewerInv, ViewerTypeOK, CaptureOnFile,
     CrashNeedsEnd
<1>5. CASE Finish
  <2>1. totalBytesRead > 0 => inputBuffer # <<>>
    BY DEF ViewerInv
  <2>2. /\ vpc = "timeout" /\ vpc' = "done"
        /\ UNCHANGED <<connected, notices, session, streams, dataVars,
                       outputFile, file, opens, ending>>
    BY <1>5, <2>1 DEF Finish, Summary, AnalyzeCapture
  <2> QED
    BY <2>2 DEF dataVars, ViewerInv, ViewerTypeOK, CaptureOnFile, CrashNeedsEnd
<1> QED
  BY <1>1, <1>2, <1>3, <1>4, <1>5, OpenInv, ReceiveInv DEF ViewerNext

-----------------------------------------------------------------------------
(* All of them.                                                            *)

Inv == ProbeInv /\ ViewerInv /\ SplitInv

LEMMA InitInv == Init => Inv
BY ProbeInitInv, ViewerInitInv, SplitInitInv DEF Init, Inv

LEMMA ProbeStands == ProbeInv /\ UNCHANGED probeVars => ProbeInv'
BY DEF probeVars, ProbeInv, ProbeTypeOK, NotStarted, AtStep, NotSeenYet, StaleIsGone,
   NoStaleAnswer, ReadsAll, LoopReaches, Now

LEMMA ViewerStands == ViewerInv /\ UNCHANGED viewerVars => ViewerInv'
BY DEF viewerVars, dataVars, ViewerInv, ViewerTypeOK, CaptureOnFile, CrashNeedsEnd

\* A step of one program, or none.
LEMMA NextInv ==
  ASSUME Inv, [Next]_vars
  PROVE  Inv'
<1>1. CASE ProbeNext /\ UNCHANGED <<viewerVars, splitVars>>
  BY <1>1, ProbeNextInv, ViewerStands, SplitStands DEF Inv
<1>2. CASE ViewerNext /\ UNCHANGED <<probeVars, splitVars>>
  BY <1>2, ViewerNextInv, ProbeStands, SplitStands DEF Inv
<1>3. CASE SplitNext /\ UNCHANGED <<probeVars, viewerVars>>
  BY <1>3, SplitNextInv, ProbeStands, ViewerStands DEF Inv
<1>4. CASE UNCHANGED vars
  BY <1>4, ProbeStands, ViewerStands, SplitStands DEF Inv, vars
<1> QED
  BY <1>1, <1>2, <1>3, <1>4 DEF Next

\* The invariant of the programs run by hand holds of every state.
THEOREM Invariant == Spec => []Inv
<1>1. Inv /\ [Next]_vars => Inv'
  BY NextInv
<1> QED
  BY <1>1, InitInv, PTL DEF Spec

\* The variables keep their types; of the packets in hand none has a number
\* that was not written yet, and a position in a transfer is never past its end.
THEOREM TypeCorrect == Spec => []TypeOK
<1>1. Inv => TypeOK
  BY DEF Inv, ProbeInv, ViewerInv, SplitInv, TypeOK
<1> QED
  BY <1>1, Invariant, PTL

\* iap2_handshake.py, iap2_connect.py and usb_reset_probe.py never print an
\* answer under the label of a later packet if it was there when the reads
\* before that packet began, for every size of the endpoint's queue up to the ten,
\* twenty and five packets that these reads take.
THEOREM NeverStale == Spec => []NoStaleAnswer
<1>1. Inv => NoStaleAnswer
  BY DEF Inv, ProbeInv
<1> QED
  BY <1>1, Invariant, PTL

\* As long as TeslongViewer lives and has opened one session, and has a handle of
\* its file, the file holds what was received, in whatever order the framework
\* calls it.
THEOREM CaptureSaved == Spec => []CaptureOnFile
<1>1. Inv => CaptureOnFile
  BY DEF Inv, ViewerInv
<1> QED
  BY <1>1, Invariant, PTL

\* TeslongViewer is stopped by an exception only after some stream has ended.
THEOREM CrashesAfterEnd == Spec => []CrashNeedsEnd
<1>1. Inv => CrashNeedsEnd
  BY DEF Inv, ViewerInv
<1> QED
  BY <1>1, Invariant, PTL

\* Whatever the payloads and wherever the transfers end, the video loop of
\* td300_connect.py and td300_full_connect.py finds the packets that one
\* transfer holds as a whole, once each and in order, unless what is left of a
\* packet that was cut contains a sync word.
THEOREM PacketsFound == Spec => []FindsWholePackets
<1>1. Inv => FindsWholePackets
  BY DEF Inv, SplitInv
<1> QED
  BY <1>1, Invariant, PTL

\* Each round of that loop comes nearer to the end of the transfer, unless it
\* stands at a header with length zero: nothing else can keep it going.
THEOREM LoopAdvances ==
  Spec => [][spc = "split" /\ spc' = "split" /\ ~AtZeroLength => offset < offset']_splitVars
<1>1. ASSUME Inv, [Next]_vars, spc = "split", spc' = "split", ~AtZeroLength
      PROVE  offset < offset' \/ UNCHANGED splitVars
  <2>1. SplitTypeOK
    BY <1>1 DEF Inv, SplitInv
  <2>2. CASE UNCHANGED splitVars
    BY <2>2
  <2>3. CASE SplitPacket
    <3>1. LengthHere \in Nat /\ LengthHere # 0
      <4>1. /\ d \in Seq(Byte) /\ Len(d) \in Nat /\ offset \in Nat
            /\ HeaderLen \in Nat /\ HeaderLen >= 4 /\ offset + HeaderLen <= Len(d)
        BY <2>1, <2>3, SplitAssumption DEF SplitPacket, HeaderFits, SplitTypeOK
      <4>2. offset + 3 \in 1 .. Len(d)
        BY <4>1
      <4>3. LengthHere \in Byte
        BY <4>1, <4>2, ElementOfSeq DEF LengthHere
      <4> QED
        BY <1>1, <2>3, <4>3, ByteIs DEF SplitPacket, AtZeroLength
    <3> QED
      BY <2>1, <2>3, <3>1 DEF SplitPacket, NextOffset, SplitTypeOK
  <2>4. CASE SkipByte
    BY <2>1, <2>4 DEF SkipByte, SplitTypeOK
  <2>5. CASE SendPacket \/ ReadTransfer \/ Break
    BY <1>1, <2>5 DEF SendPacket, ReadTransfer, Break
  <2> QED
    BY <1>1, <2>2, <2>3, <2>4, <2>5 DEF Next, vars, SplitNext, SplitStep
<1>2. Inv /\ [Next]_vars =>
        [spc = "split" /\ spc' = "split" /\ ~AtZeroLength => offset < offset']_splitVars
  BY <1>1
<1> QED
  BY <1>2, Invariant, PTL DEF Spec
=============================================================================
