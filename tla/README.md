# A verification project for the TD300 boroscope viewer

The repository drives a Teslong TD300 boroscope from a computer. The camera
speaks Apple's iAP2 protocol over USB; once a host has gone through its
handshake it sends JPEG pictures on a second endpoint, and the viewers show them
in a browser. This directory holds TLA+ models of that code, the
configurations that check them with TLC, and proofs that TLAPS checks.

## 1. The system

| Part | State it keeps | Operations | Talks to |
|---|---|---|---|
| `stream.py` main thread | the USB handle, where it is in find / reset / handshake / wait | `main`, `connect_and_stream`, Ctrl-C | starts and joins the camera thread, `server.shutdown()` |
| `stream.py` handshake | `tx`, `rx`, loop counters | `iap2_handshake` | the device, endpoints 0x01 and 0x81 |
| `stream.py` camera thread | `rx_buf`, `jpeg_buf` | open the stream, read, parse, assemble, publish | the device, endpoints 0x02 and 0x82; `latest_frame`, `frame_count` under `frame_lock` |
| `stream.py` HTTP server | `f`, `fid`, `last_id` of the one handler that runs | `/`, `/stream`, `/snapshot`, `/quit` | reads the shared frame; `/quit` ends the process |
| `web_viewer.py` | `_frame_queue` (a `Queue` of 2), `_latest_frame`, `_meta` | `push_frame`, `set_meta`, `start`, `stop`, `/stream`, `/snapshot`, `/meta` | a capture thread puts, one thread per connection gets |
| `web_viewer.py` JPEG writer | bit buffer, DC predictors | `_build_minimal_jpeg`, `_render_text_pixels` | feeds `push_frame` in test mode |
| `td300_connect.py` | `tx`, `rx`, `dack` | `TD.connect` to the video loop | the device |
| `td300_viewer.py` | `tx_seq`, `rx_seq`, phase | `connect`, `negotiate`, `authenticate`, `identify`, `start_ea_session` | the device |
| `td300_full_connect.py` | `tx_seq`, `rx_seq` | `connect`, `read_link_packets` (unused) | the device |
| `TeslongViewer` (Swift) | EA session, byte counts | delegate callbacks, packet analysis | macOS ExternalAccessory |
| `iap2_handshake.py`, `iap2_connect.py`, `usb_reset_probe.py`, `probe_device.py` | what endpoint 0x81 still holds, how far the list of packets is done | drain, write a packet, read what comes, listen | the device, endpoints 0x01 and 0x81 |
| macOS runtime probes | none | one-shot experiments | the Objective-C runtime, XPC |

What is hard in it, and what would make each part correct:

* **Two threads and one pair of variables** (`stream.py:203`). The number of a
  frame and the frame must be read together; every viewer must see published
  frames only, forwards.
* **Check, then act, on a shared queue** (`web_viewer.py:56`). `full()`,
  `get_nowait()` and `put_nowait()` are three calls, with other threads in
  between and an `except Exception: pass` around the last one. No new frame may
  get lost there, and no frame may be shown twice or out of order.
* **A byte stream cut anywhere** (`stream.py:155`). The parser must extract the
  same packets however USB cuts them, always come to an end, and stay within a
  buffer bound, also after bytes are lost and a false sync word claims a length.
* **A device that comes and goes** (`stream.py:309`). A handle, a handshake or a
  thread of an earlier connection must not be used for the next one; a failed
  attempt must be followed by another.
* **A server with one thread** (`stream.py:369`), a handler that never returns,
  and two ways to stop the program that go through it.
* **A link with one outstanding packet** (`stream.py:36`, `td300_connect.py`,
  `td300_viewer.py`). The hosts send without waiting, never send again, throw
  away what arrives in pauses, and look at one packet per transfer. The session
  must come up all the same, no message may be acknowledged and then ignored.
* **Transfers cut into packets by lengths they carry** (`td300_full_connect.py:340`).
  A cut, or bytes that look like a header, must not cost more than the packet
  they are in, and the loop must come to an end.
* **Answers that refer to nothing** (`iap2_connect.py:36`). The probes know only by
  time which packet an answer belongs to, from a device that also repeats a
  beacon: no waiting answer may be taken for the next packet's, and no beacon may
  keep a program from going on.
* **Callbacks in any order** (`TeslongViewer/main.swift:51-145`). Connections, ends
  of two streams and data come as the framework likes; what was received must be
  in the file, and nothing but the end of a stream may stop the program early.

`PROJECT.json` lists every hazard at its line, with the properties that cover it.

## 2. The modules

    FrameStore                            the shared globals of stream.py
      Supervisor                          main thread, camera thread's life, device
      StreamServer                        HTTP thread, browser
        StreamSystem                      both, Ctrl-C, /quit          MCStreamSystem
          StreamSystemProofs              proofs about StreamSystem
    CameraStream                          bytes, packets, pictures     MCCameraStream
      CameraStreamProofs                  proofs about CameraStream
    WebViewer                             push_frame, handler threads
      WebViewerProofs                     proofs about WebViewer
    LiveFeed                              abstract: what a viewer may see
    JpegWriter                            _build_minimal_jpeg          MCJpegWriter
    Iap2Link                              packets, endpoints, the device
      StreamHandshake                     stream.py's handshake
        ConnectHost                       td300_connect.py
          ViewerHost                      td300_viewer.py
          FullConnectHost                 td300_full_connect.py
            Iap2Hosts                     all four                     MCIap2Hosts
              Iap2HostsProofs             proofs about Iap2Hosts
    Probes                                four programs that try packets
      ProbesProofs                        their inductive invariant
    AccessoryViewer                       TeslongViewer
    PacketSplit                           transfers into link packets
      PacketSplitProofs                   its inductive invariant
      Tools                               one of the three at a time   MCTools
        ToolsProofs                       proofs about Tools
    SequenceFacts                         lemmas the proofs share

An indented module extends the ones above it. The `MC` modules add small
constants and the claims of the program's own comments that the code does not
keep. Operators named with a comment `Bug:` are mutations of the definition that
follows them; nothing uses them, except to show that a property would notice.

### LiveFeed

What both viewers promise: frames are published one after the other, and each
viewer is shown published frames only, each newer than the one before, possibly
skipping some. `WebViewer` and `StreamSystem` implement it through the mapping
in their `Feed == INSTANCE LiveFeed WITH ...`; `LiveFeedSpec` is a PROPERTY of
their runs and, for `WebViewer`, a theorem.

### WebViewer (`web_viewer.py:30-73`, `:312-454`)

`push_frame` is five actions, one per access to shared state: `SetLatest`,
`CheckFull`, `DropOldest`, `PutNoWait`, `SetMeta`. A connection is served by a
thread of its own: `Get` and `GetTimeout` are the blocking get, `Write` and
`WriteToGone` the write to a client that is there or has left, `Reply` the
snapshot. A frame is its number. A client that is there reads what it is sent;
one that left may be noticed by the next write or one later (socket buffer).
`stop()` closes the server and leaves the handlers running, which are threads of
their own. `start(blocking=True)` is left out (nothing calls it), as are the page,
`/meta` and 404, which only read.

### CameraStream (`stream.py:104-214`)

Bytes are bytes here, because what can go wrong is in the bytes: sync words
within pictures, lengths taken from the middle of a packet. The header is the
five bytes of the code; 7, 1000 and 65536 are the constants `InnerLen`,
`MinFrame` and `MaxTotal`. One action is one read or one iteration of the parse
loop (`ParseDone`, `ParseNeedsMore`, `ParseSkip`, `ParsePacket`, one for each way
through its body). The device sends pictures in packets that start with FF D8
and continue; a read returns a few of the bytes that wait, or all. `ReadLoses`
is a read that raises after a partial transfer, which `rd82` turns into "no
data". `ReadReply` is the two reads whose result is thrown away.

### FrameStore, Supervisor, StreamServer, StreamSystem (`stream.py:23-25`, `:217-386`)

Each enumeration of the device has a number; a handle is good while that
enumeration lasts. `Reset` crashes the process on a handle that is not good, as
the code does (`dev.product` and `dev.reset()` are outside any try; the two are
one step). `Handshake` may fail or, on a good handle, succeed. The camera thread
takes the lock, stores, counts and releases in separate steps. The server thread
serves the connections of its backlog one after the other, in the order of
arrival; the stream's handler takes the lock, reads the pair and releases in
separate steps, so that a missing lock would be noticed. `Snapshot` is one step:
it reads one variable under the lock. A reply, and the headers of `/stream`, are
written outside any try (`:226-230`, `:263-266`): when the client has left, the write
may raise, which the server swallows with the rest of the handler. So `/quit` of a
client that did not wait may not end the process (`Reply`), and the handler of a
`/stream` may be over before its loop (`Routes`). `camera_alive` is set and never
read, and is left out. In the read loop a handle that is no longer good makes every read
return None, which is a stuttering step.

### Iap2Link, StreamHandshake, ConnectHost, ViewerHost, FullConnectHost, Iap2Hosts

`Iap2Link` has the endpoints, what all hosts do with them (`Write`, `Receive`,
`NoData`) and the device. The device is external, known from what the programs
expect: it answers a marker with a SYN, has one packet outstanding, sends it
again until it is acknowledged (when the line is quiet, and once for each packet
too early), and takes messages in sequence only. A read returns one packet or
two that arrived in one transfer. A write may fail, which no program looks at.

The host modules follow the programs read by read: drain, detect, negotiate,
authenticate, identify and, in two of them, the video loop. Checksums and the
contents of messages are left out. A SYN carries the parameters of the link, so
one that comes late is a packet with a payload (`HasPayload`), which
`td300_viewer.py` and the video loop of `td300_connect.py` acknowledge.
`td300_connect.py` detects and negotiates line for line as `stream.py` does, so the
actions of `StreamHandshake` serve both. Its `wait_for_ack` is not modelled: nothing
calls it. A loop bounded by time ends at any moment, and the history variable `late`
records whether the device was slower than a timeout. `Supervisor` uses the
handshake's outcome only: it may fail, and if it succeeds it has been through these
steps.

`td300_full_connect.py` negotiates as `stream.py` does and reads video data as
`td300_connect.py` does; what lies between is `FullConnectHost`. It insists on a
SYN and on the certificate, and goes on without a response and without an
identification.

### JpegWriter (`web_viewer.py:461-746`)

The writer of the test pattern. The bit writer, the code tables, the category and
the one's complement of a difference, the prediction across blocks and the
sizes of the segments are translated; a step encodes a block. `buf` is never
masked in the code; the model keeps the bits that are read again. The AC
tables are given as far as EOB, the one AC symbol used. The floating-point
conversion to YCbCr is exact but for whole results, where either neighbour is
admitted. The pixels of the text are computed as `_render_text_pixels` does, from
glyphs that are a constant (the font is data), and a block that holds one is
bright. The picture that is written has whole blocks (`RealWidth`, `RealHeight`), and
the text is cut where that picture ends, not at the size asked for. The reader at the end of the module is written from the JPEG standard, and
the picture that is wanted (`Wanted`) by dividing a pixel's coordinates.

### Probes (`iap2_handshake.py`, `iap2_connect.py`, `usb_reset_probe.py`, `probe_device.py`)

Each program is a fixed list of steps: look for the device, read up to n times
(and stop at the first silence, or not), build a packet, write it, listen for some
seconds, reset. `HandshakeScript`, `ConnectScript`, `ResetScript` and
`DeviceScript` are these lists, translated function by function; the actions
perform the step the program is at. Where a program tries several payloads in a
loop, two stand for all. The device repeats its beacon, answers a packet at any
later time or never, keeps up to `PipeSize` packets that nobody has read, and may
be unplugged; between the look-up and the print of `dev.product`, which asks it for
the name outside any try, that ends the program (`no_product`). Of a packet's bytes only this is modelled: whether `struct.pack` gets
as many values as its format names.

### AccessoryViewer (`TeslongViewer/main.swift`)

Everything runs on the main thread: `StartMonitoring`, then one callback after the
other, then the summary when the run loop returns after 30 seconds. `Attach` and
`Disconnect` are the user's, the order of the callbacks is the framework's, and so is
whether a session has its two streams (`:84-101`). The capture file may be refused: the
handle is then nil, and what is read is counted and not written (`OpenFile`). A write
to a closed file handle and a range that ends before it begins stop the program,
as Swift and Foundation have it (`Keep`, `AnalyzeCapture`).

### PacketSplit (`td300_full_connect.py:338-373`, `td300_connect.py:278-309`)

`Iap2Link` has packets as records. Here the loop that cuts a transfer into packets
is modelled byte by byte: `SplitPacket`, `SkipByte` and `Break` are the ways through
its body. Transfers end anywhere. The length is one byte, the header `HeaderLen`
bytes, and checksums, which `td300_full_connect.py` compares and `td300_connect.py`
does not, are right.

## 3. What the runs check

Every run uses two workers. Deadlock is not checked (`CHECK_DEADLOCK FALSE`)
because each of these systems may really stop: a process exits, a host has
finished or given up, a device falls silent.

| Run | Question | Result |
|---|---|---|
| `iap2_hosts` | does a session come up, and is it what both sides think? | holds, 1.3 million states |
| `iap2_duplicates` | is each packet of video data acknowledged when read? | no |
| `camera_stream` | are the pictures published the ones sent, whatever the cuts, and do they arrive? | holds, 190 000 states |
| `camera_torn_frame` | is every frame published a complete picture? | no |
| `stream_system` | do the threads of stream.py, the device and the browser work together? | holds, 252 000 states |
| `stream_reconnect` | is a disconnection while streaming noticed? | no |
| `stream_quit` | does /quit end the process? | no, behind a stream |
| `web_viewer` | does the frame queue lose, repeat or reorder frames? | holds, 513 000 states |
| `jpeg_writer` | does a JPEG reader get the picture the test pattern is meant to show? | holds, 10 000 states |
| `jpeg_segments` | are the length fields of its segments right? | no |
| `tools` | do the programs run by hand end, attribute answers, save and cut data rightly? | holds, 1.2 million states |
| `tools_crash` | does iap2_connect.py try each of its packets? | no |

**iap2_hosts.** `BothUp`: a host that goes on to authenticate is talking to a
device that is up. `NoGap`: the messages on the way continue the sequence the
device has taken. `AcknowledgedIsUsed`: no awaited message is acknowledged and
then ignored. `DoneMeansIdentified`: who finishes has been given the certificate,
although the loop of `stream.py:72` has no else, and leaves an identified device.
Of `td300_full_connect.py` the last holds only where nothing failed or was late,
since it goes on without a response and without an identification.
`SessionIsSetUp`: if no read times out before the device has said what it has to
say, the session comes up, whatever is lost in drains or joined transfers.
Bounds: ten tries per loop, the least in the code, the drains of five and the
five markers of the code; two packets per transfer, one fault, two packets of
video data (enough for one that is acknowledged and one that is not), a device
whose sequence number is about to wrap.

**camera_stream.** `CutsDoNotMatter`: unparsed bytes and bytes on the way are
exactly the packets still to come. `WholePictures`: without loss, the frames are
the pictures, in order, whole. `OnlyFirstHeadless`, `BufferBounded` and
`ParseShrinks` hold with loss too. `NothingHeldBack`: no complete packet waits for
further bytes. `PicturesArrive`: as long as the thread runs, a picture whose successor
has been sent is parsed to its end, unless bytes were lost. Four packets allow a
picture of several fragments with a successor, and a whole frame after one that
lost its beginning; the bodies contain trailing zeros and a false header with a
length above the limit. Reads of six bytes and of all that wait cut packets of 6, 8,
10, 11 and 13 bytes at every place of their headers.

**stream_system.** `NoTornRead`, `OneCamera`, `PublishesAfterHandshake`,
`LiveFeedSpec`; and under fairness `LatestReachesViewer`, `FailureIsRetried`,
`QuitEnds`, and `InterruptEnds`. `QuitEnds`: a `/quit` whose client stays until it is
answered ends the process. `InterruptEnds`: Ctrl-C ends it wherever it finds the three
threads. Both excuse one wait only, in which the server is in a stream's handler from
some time on for ever (`HeldByStream`): a stream whose client leaves, or that was
requested and is not served yet, excuses nothing. Two plugs give a second
enumeration, so a stale handle exists; two frames give a torn pair to read; two
connections let one wait behind the other. `FailureIsRetried` admits that the
process has ended: the crash in `Reset` is one of its outcomes.

**web_viewer.** `QueueIsNewest`: the queue is the newest frames put, without a gap.
`PutNeverRefused`: the swallowed exception of `put_nowait` never happens with one
producer. `AccountedOnce`: every frame put is in the queue, dropped, or taken by
exactly one handler. `SnapshotNotBehind`: a screenshot is never older than what
a stream has shown. `QueueMoves`: a frame does not stay in the queue while a
handler is served. Four frames fill a queue of two twice over; two handlers race
for it.

**jpeg_writer.** `ScanDecodes`: after every block, a reader gets from the bits
written so far the blocks of the picture that is wanted, bright exactly where the
text is, with nothing but padding left over. 125 colours and a picture of four by
three blocks, asked for as 28 by 20 pixels and written as 32 by 24, with four texts
(none, one that the lower edge cuts, one that the right edge cuts too, one after a
character the font lacks, two of them with dots between the two sizes) give
differences of every sign and codes at every bit position. A byte that should be
stuffed and is not is noticed, since the reader drops what follows a byte of ones.

**tools.** `NoStaleAnswer`: an answer that waits when a program begins to read before
a packet is not printed as that packet's, provided that the endpoint holds no more
than the program's drains read (`ReadsAll`): 10 packets in `iap2_handshake.py`, 20 in
`iap2_connect.py`, 5 in `usb_reset_probe.py`; `probe_device.py` does not read before it
writes. `ScriptEnds`: every program ends,
however often the beacon comes and whenever the device is unplugged.
`CaptureOnFile`: in a program that lives, has opened one session and has a handle of
the capture file, the file holds what was received. `CrashNeedsEnd`: only the end of a stream can stop
TeslongViewer. Both are as strong as the code: without a handle nothing is saved, although the
program says it will be (`main.swift:80`), the end of a stream before any data
stops the program (`main.swift:193`), data of one stream after the end of the other
are written to a closed handle (`:123`), and a second session truncates the file
(`:79`). `FindsWholePackets`: the packets a transfer holds as a whole are found, once
and in order, and a cut costs only the packet it goes through, unless what is left
of that one contains a sync word. `SplitEnds`: the loop over a transfer ends, except
at a header whose length is zero, where both programs stay (`AtZeroLength`). Five
packets in the endpoint are as many as the shortest drain reads, so that one read less
would leave one; three packets in three transfers for a cut in
the first that misleads the reader of the next; two sessions for a truncation.

**Claims that fail.** Each of these runs quotes a line of the repository; the
details are under `findings` in `PROJECT.json`. A disconnected camera is never
noticed, because a failing read looks like a quiet one (`stream.py:150`). The Quit
button cannot work while the page's own stream is open (`stream.py:369`).
"Flush previous frame if complete" flushes whatever there is (`stream.py:197`).
Every other packet of video data is not acknowledged (`td300_connect.py:293`).
`iap2_connect.py` ends in a traceback half-way through its list
(`iap2_connect.py:156`), `iap2_handshake.py` after its first packet (`:41`). The
length fields of APP0 and SOF0 are wrong in the picture that `web_viewer.py:463`
calls valid (`:700`, `:713`).

### Fairness

The threads of a process keep running while it does: weak fairness of the main
thread, the camera thread's steps that do not wait for the device, the server
thread, each handler of `web_viewer.py` and `push_frame`. None is assumed of the
user (request, leave, press Ctrl-C), of plugging, or of the arrival of a new
frame. Weak fairness is enough, for no step competes for ever: the lock is held
over two assignments only. In `Iap2Hosts` the device answers (weak fairness of
its replies and repetitions), but not necessarily in time. In `Tools` the program
runs and the seconds it listens for pass; the device and the framework need do
nothing.

## 4. What is proved

Each theorem below is proved for every value of the constants that the
assumptions of the module allow; the runs show the same properties on small
instances. No safety invariant here is inductive alone. Each proof module joins
them with the facts that make them so, in an `Inv` that TLC has checked before it
was proved; `InitInv` and `NextInv` establish it, the latter with one lemma or step
per action.

**WebViewerProofs**, for any set of connections, any capacity of at least one and
any number of frames: `TypeCorrect`, `PushNeverLosesNewest` (`PutNeverRefused`),
`QueueHoldsNewest` (`QueueIsNewest`), `EveryFrameAccountedOnce` (`AccountedOnce`),
the action property of `SnapshotsNotBehind`, and `ImplementsLiveFeed`. `Inv` says
what each place in `push_frame` means for the queue's length (`PushPhase`: after
`CheckFull` found room there is room still, since handlers only take), that a frame a
handler has taken is older than everything in the queue (`TakenIsPast`), and that
what a client is shown next is newer than what it has been shown (`InOrder`).
`AccountedOnce` needs more, `PastAccounted`: each frame before the queue's head has
exactly one fate. The refinement follows from `Inv`, with a lemma for the one step
that shows a frame (`WriteShows`) and one for those that publish or stutter.

**StreamSystemProofs**, for any set of connections, of plugs and of frames:
`TypeCorrect`, `NeverTorn` (`NoTornRead`), `OneCameraThread` (`OneCamera`),
`PublishedAfterHandshake` and `ImplementsLiveFeed`. `Inv` says what the lock
protects (`LockHolder`, `Published`, `ReadTogether`), that a camera thread works on
the handle the handshake succeeded on (`AfterHandshake`), that a connection waits and
is served once (`Backlog`), and how far the client that is served is (`Shown`, which
the refinement needs).

**CameraStreamProofs**, for all sizes of reads, packets and pictures
(`CameraAssumption`: no packet of the device is longer than the parser accepts, and
sizes and lengths fit their fields): `TypeCorrect`, `PacketsSurviveCuts`
(`CutsDoNotMatter`), `ParsesAllItHas` (`NothingHeldBack`), `FramesBegin`
(`OnlyFirstHeadless`), `BufferStaysBounded`, `LoopShrinks` (`ParseShrinks`) and
`PicturesAreWhole` (`WholePictures`). `Inv`
knows that every packet on the way is well formed, the only thing the parser relies
on: then the sync word and the length at the front of what is unparsed are those of
the next packet (`NextPacket`), and the body that is taken is the packet's
(`Recognised`). `WholePictures` needs to know what the packets still to be extracted
will make of the picture in hand. `Pictures` says that while no bytes are lost, and
that is an induction over the packets which the prover cannot do, so it is part of the
state: there is a course of picture numbers and contents (`Foretold`), one for each
packet ahead, that begins with `jpeg_buf`, follows the rule of the assembly (`Step`),
has each picture complete when the next one starts, and ends with what the device has
sent so far. A packet that is sent lengthens the course (`Grows`), one that is
extracted or lost without harm shortens it at the front (`Takes`, `Drops`).

**ToolsProofs**, with **ProbesProofs** and **PacketSplitProofs**: `TypeCorrect`,
`NeverStale` (`NoStaleAnswer`), `CaptureSaved` (`CaptureOnFile`), `CrashesAfterEnd`
(`CrashNeedsEnd`), `PacketsFound` (`FindsWholePackets`) and `LoopAdvances`, the safety
half of `SplitEnds`. The three programs have an invariant each, and a step of one
leaves the variables of the others alone. That of the probes speaks of their scripts:
each loop before a write reads at least `Drains` packets, and goes on only after a
silence or its last read, so that what was there when it began is gone if it was no
more than that. The endpoint may hold any number of packets (`ProbeAssumption`);
where it holds more than a drain reads, `NoStaleAnswer` promises nothing, and the code
cannot keep more (`ReadsAll`). `CaptureSaved` is for any number of reads.

The invariant of the splitter, for headers of at least four bytes, any payloads and any
cuts, says where the loop is in what was sent (`FoundUpTo`): all there is to find in the
first m packets has been found, once each and in order, and the loop is at the beginning
of the next, inside a marker, or inside a packet that an earlier cut went through. What
is in hand is the end of what was taken and the line holds the rest (`InOrder`), no other
transfer ends inside it (`OneTransfer`), and a header tells the length and the number of
its packet (`WellFormed`). The lemma that matters is `SyncIsHeader`: when no cut packet
contains a sync word, the loop sees one only at the beginning of a packet, since neither
the marker nor the seam of two packets makes one, and the length there is the packet's.
`NoneAhead` does the rest: when the loop is left, every packet ahead of it is cut or has
not arrived. A sync word of which only the first byte was taken is covered: the loop does
not look at fewer bytes than a header has.

**Iap2HostsProofs**, for any numbers of attempts, drains, faults, markers, packets of
video data and packets in one transfer, and wherever the device's numbers start
(`LinkAssumption`): `TypeCorrect`, `VideoIsInOrder`, `BothSidesUp` (`BothUp`),
`ArrivesWithoutGap` (`NoGap`), `UsedWhenAcknowledged` (`AcknowledgedIsUsed`),
`DoneIdentified` (`DoneMeansIdentified`, of the three programs that insist on their
answers) and, where a counted loop has at least four attempts, `EveryoneIdentified`
(`DoneMeansIdentified`, of all four).

The four hosts have some forty actions. `HostMoves` shows that each is one of a few
moves (`Move`): it hears a transfer or nothing, and then is quiet, answers the SYN
(`Greet`), asks for the certificate (`AskCert`), says something (`Say`), takes a packet
and perhaps answers it (`Take`), or acknowledges video data (`AckVideo`). The invariant
is proved of the moves and of the device's actions:

* `Types` and `VideoInv` hold over any link. `Watched`, the video data in the file
  followed by those on the way, is in order and not ahead of the device.
* Without faults a link has two ages. Until the host asks for the certificate
  (`Early`) the host has said nothing but markers and answers to the SYN, and the
  device nothing but markers, SYNs and acknowledgements; a host that has seen the
  device's number has the right one. From then on (`Running`):
  `Window`, the host is at the device's last message or at the one before, and every
  packet on the way acknowledges accordingly; `InSequence`, the messages on the way
  continue the device's count, modulo 256; `SynsFirst`, answers to the SYN come before
  the messages; `Asked`, nothing is answered that was not asked for; `UsedInv`, an
  answer that was acknowledged, or that the host has, was acted upon; `CertFirst`, the
  certificate comes first; and `Accepted`, who is at its end has the identification
  accepted, or the message that accepts it is on its way.

`EarlyMoves` and `EarlyActs` keep `Early` or begin `Running`; `RunningMoves` and
`RunningActs` keep `Running`. A fault in the past excuses a state from the second part,
as it does in the properties, and no step takes a fault back (`FaultsAdd`).

With faults, `DoneMeansIdentified` still promises that a host that is done has been given
the certificate, although the loop of `stream.py:72` has no else. The argument is
`CertInv`: until the certificate is acknowledged, either the request for it has not been
taken (`Asking`), and then nothing the host has said since continues the device's count,
so the device says nothing (a SYN that comes late is acknowledged by
`td300_viewer.py`, which changes nothing in that: `AskingAcknowledges`); or it has (`Replying`), and then the device repeats the
certificate and nothing else, or has started over with no marker on the way that would
bring the link up again. In neither can a host get past its identification.

`td300_full_connect.py` goes on when its attempts are used up, so the promise depends on
their number: with three TLC finds a run without faults or timeouts in which the program
is done without the identification, with four it finds none, and the code has ten or
more. `EveryoneIdentified` has `Tries >= 4` as its hypothesis. A fault or a read that
timed out while the device had more to say (`late`) excuses the program. The argument is
`Insistent`: where the program waits for an answer, `Patient`, and past its
identification, `Identification`, the message that accepts it has been taken or is on
its way. `Patient` says where the answer is, and that the attempts suffice for what may
come before it. Either the question is on its way (`Due`): each message in it costs an
acknowledgement, and one more packet may come if the device can still send its last one
again unprompted (`Twice`). Or the device has the question and nothing unacknowledged
(`Queued`): what is on the way to the program is all that comes first. Or the answer is
sent and outstanding (`Coming`): then it is behind k other packets, alone, and at most
two times. `Slack(n)` is that n more packets leave an attempt of four (but not for the
certificate, without which the program fails). The waits cannot end early either, since
in each of the three the device has more to say (`PatienceMore`). `FullInsists` is the
step of the program, `DeviceInsists` that of the device, whose answer cannot be
acknowledged unseen (`UsedInv`).

**SequenceFacts** has what the other proofs share: a set of numbers that is not empty
has a least element, from the well-foundedness of the naturals, and with it what
`FlattenSeq` of a concatenation is and what the parts of a sequence are. It stands in
for the library's induction theorems, which take an operator as a parameter and cannot
be used here.

Only model-checked:

* Liveness, in every module: it is out of the prover's reach.
* The properties of `JpegWriter`. They are about the sums of powers of two in its code
  tables and about what a decoder computes over the whole scan, and the provers know
  nothing of a power whose exponent is a variable.

## 5. Plan

1. *Done*: `LiveFeed`, `WebViewer` and its proofs; `CameraStream`; the system of
   `stream.py`; the four iAP2 hosts.
2. *Done*: `FullConnectHost`, `JpegWriter` with its text, the splitter of a transfer
   (`PacketSplit`).
3. *Done*: `TeslongViewer` and the probes (`Tools`).
4. *Done*, proofs: the safety properties of `StreamSystem`, `CameraStream`, `Tools` and
   `Iap2Hosts`, `AccountedOnce`, `FindsWholePackets`, and the refinement of `LiveFeed`
   by `StreamSystem`.
5. Next, proofs: `TypeOK` and `ScanDecodes` of `JpegWriter`, with a prover that knows
   powers of two.

## 6. Not modelled

The macOS runtime probes (`ea_runtime_inspect.swift`, `ea_session_hack.m`,
`xpc_probe.swift`) look at classes and services of macOS and print what they find;
there is no state of the viewer in them. `PROTOCOL.md` describes the vendor's
firmware. Of the probes, the reads of endpoint 0x82 and the control transfers are
left out, which only print, and the bytes of their packets, which are guesses at a
protocol. Of `td300_viewer.py`, the reads of endpoint 0x82 between the video data
are left out: the device of the model sends its video on the link. Its end on
MSG_AUTH_FAILED (`:364`) is left out as well: the device never sends that message. A
write to an open file that raises, as on a full disk, is not modelled in any program. HTML, JSON,
logging and the decoding of strings for display have no state. The contents of
certificates and challenges are not looked at by the programs either.
`set_configuration`, `claim_interface` and their like are tried and their failures
ignored, so they are one step without a result. That a client may be connected and
not read, so that a write blocks, is not modelled: writing would wait like any
handler that is busy. While no frame arrives, the thread of a client of
`web_viewer.py` that left does not end, since nothing is written that could fail
(`:352`, whose comment speaks of an empty boundary); the model has these steps, and
no property asks for more.
