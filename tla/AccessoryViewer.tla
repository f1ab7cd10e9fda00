--------------------------- MODULE AccessoryViewer ---------------------------
(***************************************************************************)
(* TeslongViewer/main.swift: the accessory's session is opened, what its   *)
(* stream delivers goes into a buffer and into a file, and the capture is  *)
(* analysed at the end of a stream or after 30 seconds.                    *)
(*                                                                         *)
(* Everything runs on the main thread: first startMonitoring, then the     *)
(* callbacks of the run loop, one at a time.  The framework (external)     *)
(* decides in which order they come.  A connection made while              *)
(* startMonitoring runs may be found in connectedAccessories and notified  *)
(* as well.  Bytes are the numbers of the reads that returned them, one    *)
(* each; the count that makes analyzeData run is a constant.               *)
(***************************************************************************)
EXTENDS Naturals, SequencesExt

CONSTANTS
  HeaderBytes,   \* analyzeData runs once there are so many bytes (64)
  MaxReads,    \* bound: reads that return bytes
  MaxOpens     \* bound: sessions that are opened

ASSUME ViewerAssumption == {HeaderBytes, MaxReads, MaxOpens} \subseteq Nat

VARIABLES
  vpc,             \* "monitor", "loop", "timeout", "done" or "crashed"
  connected,       \* the accessory is there
  notices,         \* notifications that are still to be delivered
  session,         \* session is not nil
  streams,         \* streams of the session that have not ended
  inputBuffer,
  totalBytesRead,
  outputFile,      \* "nil", "open" or "closed"
  file,            \* what the capture file holds
  headerAnalyzed,
  opens,           \* sessions opened
  ending           \* history: some stream has ended

viewerVars == <<vpc, connected, notices, session, streams, inputBuffer,
                totalBytesRead, outputFile, file, headerAnalyzed, opens, ending>>

dataVars == <<inputBuffer, totalBytesRead, headerAnalyzed>>

ViewerInit ==
  /\ vpc = "monitor" /\ connected = FALSE /\ notices = <<>>
  /\ session = FALSE /\ streams = {}
  /\ inputBuffer = <<>> /\ totalBytesRead = 0
  /\ outputFile = "nil" /\ file = <<>> /\ headerAnalyzed = FALSE
  /\ opens = 0 /\ ending = FALSE

-----------------------------------------------------------------------------
(* The framework and the user (external).                                  *)

\* The accessory is plugged in, with or without a notification: the observer
\* may not be registered yet.
Attach ==
  /\ vpc \in {"monitor", "loop"} /\ ~connected /\ Len(notices) < 2
  /\ connected' = TRUE
  /\ \/ notices' = Append(notices, "connect")
     \/ vpc = "monitor" /\ UNCHANGED notices
  /\ UNCHANGED <<vpc, session, streams, dataVars, outputFile, file, opens, ending>>

Disconnect ==
  /\ vpc = "loop" /\ connected /\ Len(notices) < 2
  /\ connected' = FALSE
  /\ notices' = Append(notices, "disconnect")
  /\ UNCHANGED <<vpc, session, streams, dataVars, outputFile, file, opens, ending>>

-----------------------------------------------------------------------------
(* Callbacks.                                                              *)

\* The file is created anew and opened, or there is no handle, whether or not
\* createFile, whose result is ignored, has emptied the file.
OpenFile ==
  \/ outputFile' = "open" /\ file' = <<>>
  \/ outputFile' = "nil" /\ file' \in {<<>>, file}

\* openSession.  EASession may be refused, and either of its streams may be nil.
\* The buffer is not emptied.
OpenSession ==
  \/ /\ connected /\ opens < MaxOpens
     /\ opens' = opens + 1
     /\ session' = TRUE /\ streams' \in SUBSET {"input", "output"}
     /\ OpenFile
  \/ UNCHANGED <<opens, session, streams, outputFile, file>>

\* connectedAccessories, and the run loop is entered
StartMonitoring ==
  /\ vpc = "monitor" /\ vpc' = "loop"
  /\ OpenSession
  /\ UNCHANGED <<connected, notices, dataVars, ending>>

AccessoryConnected ==
  /\ vpc = "loop" /\ notices # <<>> /\ Head(notices) = "connect"
  /\ notices' = Tail(notices)
  /\ OpenSession
  /\ UNCHANGED <<vpc, connected, dataVars, ending>>

\* session = nil; the streams of the session may or may not deliver their end
\* after that
AccessoryDisconnected ==
  /\ vpc = "loop" /\ notices # <<>> /\ Head(notices) = "disconnect"
  /\ notices' = Tail(notices)
  /\ session' = FALSE
  /\ streams' \in {streams, {}}
  /\ UNCHANGED <<vpc, connected, dataVars, outputFile, file, opens, ending>>

\* Bug: what cannot be written to a closed handle is dropped.
KeepQuietly(b) ==
  /\ vpc' = vpc
  /\ file' = IF outputFile = "open" THEN Append(file, b) ELSE file

\* outputFile?.write(data): a closed handle raises, and without a handle nothing
\* is written.
Keep(b) ==
  /\ vpc' = IF outputFile = "closed" THEN "crashed" ELSE vpc
  /\ file' = IF outputFile = "open" THEN Append(file, b) ELSE file

HasBytesAvailable ==
  /\ vpc = "loop" /\ "input" \in streams /\ totalBytesRead < MaxReads
  /\ totalBytesRead' = totalBytesRead + 1
  /\ inputBuffer' = Append(inputBuffer, totalBytesRead + 1)
  /\ Keep(totalBytesRead + 1)
  /\ headerAnalyzed' = (headerAnalyzed \/ Len(inputBuffer') >= HeaderBytes)
  /\ UNCHANGED <<connected, notices, session, streams, outputFile, opens, ending>>

\* for i in 0..<(inputBuffer.count - 1): a range that ends before it starts
\* stops the program.
AnalyzeCapture(next) == vpc' = IF inputBuffer = <<>> THEN "crashed" ELSE next

\* Each stream delivers its own end; the file is closed by the first.
EndEncountered ==
  /\ vpc = "loop"
  /\ \E s \in streams : streams' = streams \ {s}
  /\ ending' = TRUE
  /\ outputFile' = IF outputFile = "open" THEN "closed" ELSE outputFile
  /\ AnalyzeCapture("loop")
  /\ UNCHANGED <<connected, notices, session, dataVars, file, opens>>

\* The run loop returns after 30 seconds.
RunLoopReturns ==
  /\ vpc = "loop" /\ vpc' = "timeout"
  /\ UNCHANGED <<connected, notices, session, streams, dataVars, outputFile,
                 file, opens, ending>>

\* Bug: the capture is analysed whether there is one or not.
SummaryAlways ==
  /\ vpc = "timeout"
  /\ AnalyzeCapture("done")

\* if delegate.totalBytesRead > 0
Summary ==
  /\ vpc = "timeout"
  /\ IF totalBytesRead > 0 THEN AnalyzeCapture("done") ELSE vpc' = "done"

Finish ==
  /\ Summary
  /\ UNCHANGED <<connected, notices, session, streams, dataVars, outputFile,
                 file, opens, ending>>

-----------------------------------------------------------------------------
ViewerNext ==
  \/ Attach \/ Disconnect
  \/ StartMonitoring \/ AccessoryConnected \/ AccessoryDisconnected
  \/ HasBytesAvailable \/ EndEncountered \/ RunLoopReturns \/ Finish

-----------------------------------------------------------------------------
(* Properties.                                                             *)

ViewerTypeOK ==
  /\ vpc \in {"monitor", "loop", "timeout", "done", "crashed"}
  /\ connected \in BOOLEAN /\ session \in BOOLEAN
  /\ notices \in Seq({"connect", "disconnect"}) /\ Len(notices) <= 2
  /\ streams \subseteq {"input", "output"}
  /\ totalBytesRead \in 0 .. MaxReads
  /\ inputBuffer \in Seq(1 .. MaxReads) /\ file \in Seq(1 .. MaxReads)
  /\ outputFile \in {"nil", "open", "closed"}
  /\ headerAnalyzed \in BOOLEAN /\ opens \in 0 .. MaxOpens /\ ending \in BOOLEAN

\* As long as the program lives, everything that was received is in the file,
\* unless the file could not be opened or a second session emptied it: no order
\* of connections, ends and data makes the program go on and lose bytes.
CaptureOnFile ==
  opens <= 1 /\ vpc # "crashed" /\ outputFile # "nil" => file = inputBuffer

\* Without the end of a stream, no order of the callbacks stops the program.
CrashNeedsEnd == vpc = "crashed" => ending
=============================================================================
