---------------------------- MODULE ProbesProofs ----------------------------
(***************************************************************************)
(* What a probe program does with the packets that wait, for every size of *)
(* the endpoint's queue: the inductive invariant that ToolsProofs uses.    *)
(*                                                                         *)
(* The argument is about the scripts as much as about the loops.  A loop   *)
(* that reads at least as many packets as the endpoint holds, and goes on  *)
(* only after a silence or after its last read, has taken each packet that *)
(* waited when it began.  Every loop of the scripts but probe_device.py's  *)
(* has as many reads as Drains says, unless it is the last step; so what   *)
(* is remembered at the loop before a write has left a queue that holds no *)
(* more than that when the write is done.                                  *)
(***************************************************************************)
EXTENDS Probes, SequenceTheorems, TLAPS

-----------------------------------------------------------------------------
(* The scripts.                                                            *)

Loops == [op : {"loop"}, n : 1 .. 20, stop : BOOLEAN, show : BOOLEAN, skip : 0 .. 4]

NotLoops ==
  [op : {"write"}, skip : {0, 1}] \union [op : {"pack"}, want : Nat, n : Nat]
    \union {Find, ResetUsb, Listen}

Steps == Loops \union NotLoops

\* The steps of programs that read to the end: a loop reads k packets or more,
\* and goes on to the next step after the last read.
Draining(k) == {s \in Loops : s.n >= k /\ s.skip = 0} \union NotLoops

LEMMA LoopsAre ==
  ASSUME NEW s \in Loops
  PROVE  s.n \in Nat /\ s.n <= 20 /\ s.skip \in Nat
<1>1. s.n \in 1 .. 20 /\ s.skip \in 0 .. 4
  BY DEF Loops
<1> QED
  BY <1>1

LEMMA StepsAre ==
  /\ \A s \in Steps : s.op = "loop" => s \in Loops
  /\ \A s \in Steps : s.op = "write" => s.skip \in {0, 1}
BY DEF Steps, NotLoops, Loops, Find, ResetUsb, Listen

LEMMA DrainingAre ==
  ASSUME NEW k
  PROVE  /\ \A s \in Draining(k) : s \in Steps
         /\ \A s \in Draining(k) : s.op = "loop" => s \in Loops /\ s.n >= k /\ s.skip = 0
BY DEF Draining, Steps, NotLoops, Loops, Find, ResetUsb, Listen

LEMMA OtherIn ==
  ASSUME NEW k
  PROVE  /\ Send(0) \in Draining(k) /\ Send(1) \in Draining(k)
         /\ Find \in Draining(k) /\ ResetUsb \in Draining(k) /\ Listen \in Draining(k)
         /\ \A want, n \in Nat : Pack(want, n) \in Draining(k)
BY DEF Send, Pack, Draining, NotLoops

\* The sequences over S with at least one element and at most n.
UpTo(S, n) == {s \in Seq(S) : 1 <= Len(s) /\ Len(s) <= n}

\* Scripts are put together from pieces.
LEMMA Joined ==
  ASSUME NEW S, NEW m \in Nat, NEW n \in Nat,
         NEW s \in UpTo(S, m), NEW t \in UpTo(S, n)
  PROVE  s \o t \in UpTo(S, m + n)
<1>1. s \o t \in Seq(S) /\ Len(s \o t) = Len(s) + Len(t)
  BY ConcatProperties DEF UpTo
<1>2. Len(s) \in Nat /\ Len(t) \in Nat
  BY DEF UpTo
<1> QED
  BY <1>1, <1>2 DEF UpTo

LEMMA HandshakeReads ==
  HandshakeScript \in UpTo(Draining(10), 18)
<1>1. Drain10 \in Draining(10)
  BY DEF Drain10, Loop, Loops, Draining, Steps
<1> DEFINE head == <<Drain10, Send(0), Drain10>>
           tail == <<Send(0), Drain10, Send(0), Drain10, Send(0), Drain10,
                     Send(0), Drain10, Send(0), Drain10>>
<1>2. head \in UpTo(Draining(10), 3)
  BY <1>1, OtherIn DEF UpTo
<1>3. tail \in UpTo(Draining(10), 10)
  BY <1>1, OtherIn DEF UpTo
<1>4. SyncResponse \in UpTo(Draining(10), 1)
  BY OtherIn DEF SyncResponse, UpTo
<1>5. EapScript \in UpTo(Draining(10), 3)
  BY <1>1, OtherIn DEF EapScript, UpTo
<1>6. <<Find>> \in UpTo(Draining(10), 1)
  BY OtherIn DEF UpTo
<1>7. LinkScript = (head \o SyncResponse) \o tail
  BY DEF LinkScript
<1>8. HandshakeScript = (<<Find>> \o LinkScript) \o EapScript
  BY DEF HandshakeScript
<1> HIDE DEF head, tail
<1>9. head \o SyncResponse \in UpTo(Draining(10), 4)
  BY <1>2, <1>4, Joined
<1>10. LinkScript \in UpTo(Draining(10), 14)
  BY <1>3, <1>7, <1>9, Joined
<1>11. <<Find>> \o LinkScript \in UpTo(Draining(10), 15)
  BY <1>6, <1>10, Joined
<1> QED
  BY <1>5, <1>8, <1>11, Joined

LEMMA ConnectReads ==
  ConnectScript \in UpTo(Draining(20), 14)
<1>1. SendAndCheck \in UpTo(Draining(20), 3)
  <2> DEFINE drain  == Loop(20, TRUE, FALSE, 0)
             answer == Loop(20, TRUE, TRUE, 0)
  <2>1. drain \in Draining(20) /\ answer \in Draining(20)
    BY DEF Loop, Loops, Draining, Steps
  <2>2. SendAndCheck = <<drain, Send(1), answer>>
    BY DEF SendAndCheck
  <2> HIDE DEF drain, answer
  <2> QED
    BY <2>1, <2>2, OtherIn DEF UpTo
<1>2. <<Find>> \in UpTo(Draining(20), 1)
  BY OtherIn DEF UpTo
<1>3. <<Pack(9, 8)>> \in UpTo(Draining(20), 1)
  BY OtherIn DEF UpTo
<1> DEFINE a == <<Find>> \o SendAndCheck
           b == a \o SendAndCheck
           c == b \o <<Pack(9, 8)>>
           e == c \o SendAndCheck
<1>4. a \in UpTo(Draining(20), 4)
  BY <1>1, <1>2, Joined
<1>5. b \in UpTo(Draining(20), 7)
  BY <1>1, <1>4, Joined
<1>6. c \in UpTo(Draining(20), 8)
  BY <1>3, <1>5, Joined
<1>7. e \in UpTo(Draining(20), 11)
  BY <1>1, <1>6, Joined
<1>8. e \o SendAndCheck \in UpTo(Draining(20), 14)
  BY <1>1, <1>7, Joined
<1> QED
  BY <1>8 DEF ConnectScript

\* The last loop of usb_reset_probe.py reads once; nothing is written after it.
LEMMA ResetReads ==
  /\ ResetScript \in UpTo(Steps, 20)
  /\ \A i \in 1 .. Len(ResetScript) - 1 : ResetScript[i] \in Draining(5)
<1> DEFINE rapid == Loop(5, TRUE, TRUE, 0)
           long  == Loop(5, FALSE, TRUE, 0)
           once  == Loop(1, TRUE, TRUE, 0)
<1>1. /\ FiveReads \in Draining(5) /\ rapid \in Draining(5) /\ long \in Draining(5)
      /\ once \in Steps
  BY DEF FiveReads, Loop, Loops, Draining, Steps
<1>2. Rapid \in UpTo(Draining(5), 3)
  <2>1. Rapid = <<FiveReads, Send(1), rapid>>
    BY DEF Rapid
  <2> HIDE DEF rapid
  <2> QED
    BY <1>1, <2>1, OtherIn DEF UpTo
<1>3. Long \in UpTo(Draining(5), 3)
  <2>1. Long = <<FiveReads, Send(1), long>>
    BY DEF Long
  <2> HIDE DEF long
  <2> QED
    BY <1>1, <2>1, OtherIn DEF UpTo
<1> DEFINE a == <<Find, Listen, ResetUsb, Find, Listen>>
           b == a \o Rapid
           c == b \o Rapid
           e == c \o Long
           f == e \o Long
           g == <<FiveReads, Send(1), once>>
<1>4. a \in UpTo(Draining(5), 5)
  BY OtherIn DEF UpTo
<1>5. b \in UpTo(Draining(5), 8)
  BY <1>2, <1>4, Joined
<1>6. c \in UpTo(Draining(5), 11)
  BY <1>2, <1>5, Joined
<1>7. e \in UpTo(Draining(5), 14)
  BY <1>3, <1>6, Joined
<1>8. f \in UpTo(Draining(5), 17)
  BY <1>3, <1>7, Joined
<1>9. ResetScript = f \o g
  BY DEF ResetScript
<1> HIDE DEF f, rapid, long, once
<1>10. g \in UpTo(Steps, 3) /\ Len(g) <= 3
  BY <1>1, OtherIn, DrainingAre DEF UpTo
<1>11. g[1] \in Draining(5) /\ g[2] \in Draining(5)
  BY <1>1, OtherIn
<1> HIDE DEF g
<1>12. f \in UpTo(Steps, 17)
  BY <1>8, DrainingAre DEF UpTo
<1>13. f \o g \in UpTo(Steps, 20)
  BY <1>10, <1>12, Joined
<1>14. /\ Len(f \o g) = Len(f) + Len(g)
       /\ \A i \in 1 .. Len(f) + Len(g) :
            (f \o g)[i] = IF i <= Len(f) THEN f[i] ELSE g[i - Len(f)]
  BY <1>10, <1>12, ConcatProperties DEF UpTo
<1>15. ASSUME NEW i \in 1 .. Len(f) + Len(g) - 1 PROVE (f \o g)[i] \in Draining(5)
  <2>1. Len(f) \in Nat /\ Len(g) \in Nat /\ Len(g) <= 3
    BY <1>10, <1>12 DEF UpTo
  <2>2. CASE i <= Len(f)
    <3>1. i \in 1 .. Len(f)
      BY <2>2
    <3>2. f[i] \in Draining(5)
      BY <1>8, <3>1 DEF UpTo
    <3> QED
      BY <2>1, <2>2, <3>2, <1>14
  <2>3. CASE ~(i <= Len(f))
    <3>1. i - Len(f) = 1 \/ i - Len(f) = 2
      BY <2>1, <2>3
    <3>2. (f \o g)[i] = g[i - Len(f)]
      BY <2>1, <2>3, <1>14
    <3> QED
      BY <3>1, <3>2, <1>11
  <2> QED
    BY <2>2, <2>3
<1> QED
  BY <1>9, <1>13, <1>14, <1>15

LEMMA DeviceReads ==
  DeviceScript \in UpTo(Steps, 10)
<1> DEFINE three == Loop(3, TRUE, TRUE, 0)
           skip4 == Loop(1, TRUE, TRUE, 4)
           skip2 == Loop(1, TRUE, TRUE, 2)
           once  == Loop(1, TRUE, TRUE, 0)
<1>1. three \in Steps /\ skip4 \in Steps /\ skip2 \in Steps /\ once \in Steps
  BY DEF Loop, Loops, Draining, Steps
<1>2. Send(1) \in Steps /\ Find \in Steps
  BY OtherIn, DrainingAre
<1>3. LinkSync \in UpTo(Steps, 7)
  <2>1. LinkSync = <<three, Send(1), skip4, Send(1), skip2, Send(1), once>>
    BY DEF LinkSync
  <2> HIDE DEF three, skip4, skip2, once
  <2> QED
    BY <1>1, <1>2, <2>1 DEF UpTo
<1>4. Crossover \in UpTo(Steps, 2)
  <2>1. Crossover = <<Send(1), once>>
    BY DEF Crossover
  <2> HIDE DEF once
  <2> QED
    BY <1>1, <1>2, <2>1 DEF UpTo
<1> HIDE DEF three, skip4, skip2, once
<1>5. <<Find>> \in UpTo(Steps, 1)
  BY <1>2 DEF UpTo
<1>6. <<Find>> \o LinkSync \in UpTo(Steps, 8)
  BY <1>3, <1>5, Joined
<1> QED
  BY <1>4, <1>6, Joined DEF DeviceScript

\* All that the rest needs to know of the scripts.
LEMMA Scripts ==
  ASSUME NEW p \in Programs
  PROVE  /\ Script(p) \in Seq(Steps) /\ 1 <= Len(Script(p)) /\ Len(Script(p)) <= 30
         /\ \A i \in 1 .. Len(Script(p)) : Script(p)[i] \in Steps
         /\ p # "device" =>
              \A i \in 1 .. Len(Script(p)) - 1 : Script(p)[i] \in Draining(Drains(p))
<1>1. ASSUME NEW s, NEW n \in Nat, n <= 30, NEW k, s \in UpTo(Draining(k), n)
      PROVE  /\ s \in UpTo(Steps, n)
             /\ \A i \in 1 .. Len(s) - 1 : s[i] \in Draining(k)
  BY <1>1, DrainingAre DEF UpTo
<1>2. ASSUME NEW s, NEW n \in Nat, n <= 30, s \in UpTo(Steps, n)
      PROVE  /\ s \in Seq(Steps) /\ 1 <= Len(s) /\ Len(s) <= 30
             /\ \A i \in 1 .. Len(s) : s[i] \in Steps
  <2>1. s \in Seq(Steps) /\ 1 <= Len(s) /\ Len(s) <= n
    BY <1>2 DEF UpTo
  <2> QED
    BY <1>2, <2>1, ElementOfSeq
<1>3. CASE p = "handshake"
  <2>1. Script(p) = HandshakeScript /\ Drains(p) = 10
    BY <1>3 DEF Script, Drains
  <2>2. /\ HandshakeScript \in UpTo(Steps, 18)
        /\ \A i \in 1 .. Len(HandshakeScript) - 1 : HandshakeScript[i] \in Draining(10)
    BY <1>1, HandshakeReads
  <2> QED
    BY <1>2, <2>1, <2>2
<1>4. CASE p = "connect"
  <2>1. Script(p) = ConnectScript /\ Drains(p) = 20
    BY <1>4 DEF Script, Drains
  <2>2. /\ ConnectScript \in UpTo(Steps, 14)
        /\ \A i \in 1 .. Len(ConnectScript) - 1 : ConnectScript[i] \in Draining(20)
    BY <1>1, ConnectReads
  <2> QED
    BY <1>2, <2>1, <2>2
<1>5. CASE p = "reset"
  <2>1. Script(p) = ResetScript /\ Drains(p) = 5
    BY <1>5 DEF Script, Drains
  <2> QED
    BY <1>2, <2>1, ResetReads
<1>6. CASE p = "device"
  BY <1>2, <1>6, DeviceReads DEF Script
<1> QED
  BY <1>3, <1>4, <1>5, <1>6 DEF Programs

-----------------------------------------------------------------------------
(* The inductive invariant.                                                *)

\* No packet that the device may still send has been there before.
NotSeenYet ==
  \A p \in pending :
    p \notin atLoop /\ p \notin stale /\ \A i \in 1 .. Len(pipe) : pipe[i] # p

\* The answers that waited when the loop before the last write began have left
\* the queue.
StaleIsGone == ReadsAll => \A i \in 1 .. Len(pipe) : pipe[i] \notin stale

\* What waited when a loop began is gone, or among the packets that the loop
\* will still read.
LoopReaches ==
  ReadsAll /\ ended = "no" =>
    \A i \in 1 .. Len(pipe) : pipe[i] \in atLoop =>
      Now.op = "loop" /\ (step < Len(Script(prog)) => i <= left)

AtStep ==
  prog # "none" /\ ended = "no" =>
    1 <= step /\ step <= Len(Script(prog)) /\ written < step

NotStarted ==
  prog = "none" =>
    ended = "no" /\ written = 0 /\ pipe = <<>> /\ pending = {} /\ atLoop = {} /\ stale = {}

\* Only a program that has been started and drains the endpoint reads all.
LEMMA ReadsAllIs ==
  /\ ReadsAll => prog # "none" /\ prog # "device"
  /\ prog' = prog => ReadsAll' = ReadsAll
  /\ ReadsAll => PipeSize <= Drains(prog)
<1>1. 1 <= PipeSize
  BY ProbeAssumption
<1>2. Drains("none") = 0 /\ Drains("device") = 0
  BY DEF Drains
<1> QED
  BY <1>1, <1>2, ProbeAssumption DEF ReadsAll

ProbeInv ==
  ProbeTypeOK /\ NotStarted /\ AtStep /\ NotSeenYet /\ StaleIsGone /\ NoStaleAnswer
    /\ LoopReaches

LEMMA IntervalsAre ==
  /\ \A x : x \in 0 .. 30 <=> x \in Nat /\ x <= 30
  /\ \A x : x \in 0 .. 20 <=> x \in Nat /\ x <= 20
  /\ \A x : \A y \in Nat : x \in 0 .. y <=> x \in Nat /\ x <= y
OBVIOUS

\* The types, without the intervals.
LEMMA TypeIs ==
  ProbeTypeOK <=>
    /\ prog \in Programs \union {"none"}
    /\ step \in Nat /\ step <= 30 /\ left \in Nat /\ left <= 20
    /\ written \in Nat /\ written <= step
    /\ ended \in {"no", "done", "raised", "no_device", "no_product"}
    /\ attached \in BOOLEAN
    /\ pipe \in Seq(0 .. written) /\ Len(pipe) <= PipeSize
    /\ pending \subseteq 1 .. written /\ printed \in 0 .. written
    /\ atLoop \subseteq 1 .. written /\ stale \subseteq 1 .. written
BY IntervalsAre, Zenon DEF ProbeTypeOK

\* The same of the next state.
LEMMA NextTypeIs ==
  ProbeTypeOK' <=>
    /\ prog' \in Programs \union {"none"}
    /\ step' \in Nat /\ step' <= 30 /\ left' \in Nat /\ left' <= 20
    /\ written' \in Nat /\ written' <= step'
    /\ ended' \in {"no", "done", "raised", "no_device", "no_product"}
    /\ attached' \in BOOLEAN
    /\ pipe' \in Seq(0 .. written') /\ Len(pipe') <= PipeSize
    /\ pending' \subseteq 1 .. written' /\ printed' \in 0 .. written'
    /\ atLoop' \subseteq 1 .. written' /\ stale' \subseteq 1 .. written'
BY IntervalsAre, Zenon DEF ProbeTypeOK

LEMMA ProbeInitInv == ProbeInit => ProbeInv
<1> SUFFICES ASSUME ProbeInit PROVE ProbeInv
  OBVIOUS
<1>1. ProbeTypeOK
  <2>1. attached \in BOOLEAN /\ pipe \in Seq(0 .. written) /\ Len(pipe) <= PipeSize
    BY ProbeAssumption DEF ProbeInit
  <2> QED
    BY <2>1, TypeIs DEF ProbeInit
<1> QED
  BY <1>1 DEF ProbeInit, ProbeInv, NotStarted, AtStep, NotSeenYet, StaleIsGone,
     NoStaleAnswer, LoopReaches

\* Where a program goes on.
LEMMA GoToMoves ==
  ASSUME prog \in Programs, NEW n \in Nat, n >= 1, GoTo(n),
         NEW w \in Nat, pipe' \in Seq(0 .. w)
  PROVE  /\ prog' = prog
         /\ \/ n > Len(Script(prog)) /\ ended' = "done" /\ UNCHANGED <<step, left, atLoop>>
            \/ /\ n <= Len(Script(prog)) /\ step' = n /\ UNCHANGED ended
               /\ Script(prog)[n] \in Steps
               /\ \/ /\ Script(prog)[n].op = "loop" /\ left' = Script(prog)[n].n
                     /\ atLoop' = {pipe'[i] : i \in 1 .. Len(pipe')} \ {0}
                  \/ /\ Script(prog)[n].op # "loop" /\ left' = 0
                     /\ atLoop' = atLoop
<1>1. ToSet(pipe') = {pipe'[i] : i \in 1 .. Len(pipe')}
  BY DEF ToSet
<1>2. n <= Len(Script(prog)) => Script(prog)[n] \in Steps
  BY Scripts
<1>3. Len(Script(prog)) \in Nat
  BY Scripts
<1> QED
  BY <1>1, <1>2, <1>3 DEF GoTo

\* An action that goes on keeps the invariant, when what it leaves in the queue
\* is neither stale nor of the loop it has ended.
LEMMA GoesOn ==
  ASSUME ProbeInv, prog # "none", ended = "no",
         NEW n \in Nat, n > step, GoTo(n),
         written' \in Nat, written <= written', written' <= step,
         attached' \in BOOLEAN, pipe' \in Seq(0 .. written'), Len(pipe') <= PipeSize,
         pending' \subseteq 1 .. written', stale' \subseteq 1 .. written',
         printed' \in 0 .. written',
         \A p \in pending' :
           p \notin atLoop /\ p \notin stale' /\ \A i \in 1 .. Len(pipe') : pipe'[i] # p,
         ReadsAll =>
           printed' \notin stale' /\ \A i \in 1 .. Len(pipe') : pipe'[i] \notin stale',
         ReadsAll /\ step < Len(Script(prog)) =>
           \A i \in 1 .. Len(pipe') : pipe'[i] \notin atLoop
  PROVE  ProbeInv'
<1>1. /\ prog \in Programs /\ step \in Nat /\ step <= 30 /\ left \in Nat /\ left <= 20
      /\ atLoop \subseteq 1 .. written /\ 1 <= step /\ step <= Len(Script(prog))
      /\ written \in Nat
  BY TypeIs DEF ProbeInv, AtStep
<1>2. Len(Script(prog)) \in Nat /\ Len(Script(prog)) <= 30
  BY <1>1, Scripts
<1>3. atLoop \subseteq 1 .. written'
  BY <1>1
<1>4. prog' = prog /\ prog' # "none"
  BY <1>1, GoToMoves
<1>5. StaleIsGone' /\ NoStaleAnswer' /\ NotStarted'
  BY <1>4, ReadsAllIs DEF StaleIsGone, NoStaleAnswer, NotStarted
<1>6. CASE ended' = "done" /\ UNCHANGED <<step, left, atLoop>>
  <2>1. ProbeTypeOK'
    BY <1>1, <1>3, <1>4, <1>6, NextTypeIs
  <2>2. NotSeenYet'
    BY <1>6 DEF NotSeenYet
  <2> QED
    BY <1>5, <1>6, <2>1, <2>2 DEF ProbeInv, AtStep, LoopReaches
<1>7. CASE /\ n <= Len(Script(prog)) /\ step' = n /\ UNCHANGED ended
           /\ Script(prog)[n].op # "loop" /\ left' = 0 /\ atLoop' = atLoop
  <2>1. ProbeTypeOK'
    BY <1>1, <1>2, <1>3, <1>4, <1>7, NextTypeIs
  <2>2. NotSeenYet'
    BY <1>7 DEF NotSeenYet
  <2>3. AtStep'
    BY <1>1, <1>4, <1>7 DEF AtStep
  <2>4. step < Len(Script(prog))
    BY <1>1, <1>2, <1>7
  <2>5. LoopReaches'
    BY <1>4, <1>7, <2>4, ReadsAllIs DEF LoopReaches
  <2> QED
    BY <1>5, <2>1, <2>2, <2>3, <2>5 DEF ProbeInv
<1>8. CASE /\ n <= Len(Script(prog)) /\ step' = n /\ UNCHANGED ended
           /\ Script(prog)[n] \in Steps
           /\ Script(prog)[n].op = "loop" /\ left' = Script(prog)[n].n
           /\ atLoop' = {pipe'[i] : i \in 1 .. Len(pipe')} \ {0}
  <2>1. left' \in Nat /\ left' <= 20
    <3>1. Script(prog)[n] \in Loops
      BY <1>8, StepsAre
    <3> QED
      BY <1>8, <3>1, LoopsAre
  <2>2. atLoop' \subseteq 1 .. written'
    <3>1. \A i \in 1 .. Len(pipe') : pipe'[i] \in 0 .. written'
      OBVIOUS
    <3>2. \A i \in 1 .. Len(pipe') : pipe'[i] # 0 => pipe'[i] \in 1 .. written'
      BY <3>1
    <3> QED
      BY <1>8, <3>2
  <2>3. ProbeTypeOK'
    BY <1>1, <1>2, <1>4, <1>8, <2>1, <2>2, NextTypeIs
  <2>4. NotSeenYet'
    BY <1>8 DEF NotSeenYet
  <2>5. AtStep'
    BY <1>1, <1>4, <1>8 DEF AtStep
  <2>6. LoopReaches'
    <3>1. SUFFICES ASSUME ReadsAll, NEW i \in 1 .. Len(pipe')
                   PROVE  Now'.op = "loop" /\ (n < Len(Script(prog)) => i <= left')
      BY <1>4, <1>8, ReadsAllIs DEF LoopReaches
    <3>2. Now' = Script(prog)[n]
      BY <1>4, <1>8 DEF Now
    <3>3. ASSUME n < Len(Script(prog)) PROVE i <= left'
      <4>1. n \in 1 .. Len(Script(prog)) - 1
        BY <1>1, <1>2, <3>3
      <4>2. Script(prog)[n] \in Draining(Drains(prog))
        BY <1>1, <3>1, <4>1, Scripts, ReadsAllIs
      <4>3. left' >= Drains(prog) /\ PipeSize <= Drains(prog)
        BY <1>8, <3>1, <4>2, DrainingAre, ReadsAllIs
      <4>4. Drains(prog) \in Nat
        BY DEF Drains
      <4> QED
        BY <2>1, <4>3, <4>4, ProbeAssumption
    <3> QED
      BY <1>8, <3>2, <3>3
  <2> QED
    BY <1>5, <2>3, <2>4, <2>5, <2>6 DEF ProbeInv
<1> QED
  BY <1>1, <1>6, <1>7, <1>8, GoToMoves

\* A program stops where it is: sys.exit(1), or an exception.
LEMMA Stops ==
  ASSUME ProbeInv, prog # "none", ended' \in {"raised", "no_device", "no_product"},
         UNCHANGED <<prog, step, left, written, attached, pipe, pending, atLoop,
                     stale, printed>>
  PROVE  ProbeInv'
<1>1. ProbeTypeOK'
  BY TypeIs, NextTypeIs DEF ProbeInv
<1> QED
  BY <1>1, ReadsAllIs DEF ProbeInv, NotStarted, AtStep, NotSeenYet, StaleIsGone,
     NoStaleAnswer, LoopReaches

\* Nothing the program has in hand changes: what it leaves in the queue is
\* neither stale nor, after a loop, of that loop.
LEMMA NothingTaken ==
  ASSUME ProbeInv, prog # "none", ended = "no", GoTo(step + 1),
         UNCHANGED <<written, attached, pipe, pending, stale, printed>>,
         ReadsAll /\ Now.op = "loop" /\ step < Len(Script(prog)) =>
           \A i \in 1 .. Len(pipe) : pipe[i] \notin atLoop
  PROVE  ProbeInv'
<1>1. /\ step \in Nat /\ written \in Nat /\ written <= step
      /\ attached \in BOOLEAN /\ pipe \in Seq(0 .. written) /\ Len(pipe) <= PipeSize
      /\ pending \subseteq 1 .. written /\ printed \in 0 .. written
      /\ stale \subseteq 1 .. written
  BY TypeIs DEF ProbeInv
<1>2. ReadsAll /\ step < Len(Script(prog)) =>
        \A i \in 1 .. Len(pipe) : pipe[i] \notin atLoop
  BY DEF ProbeInv, LoopReaches
<1>3. \A p \in pending :
        p \notin atLoop /\ p \notin stale /\ \A i \in 1 .. Len(pipe) : pipe[i] # p
  BY DEF ProbeInv, NotSeenYet
<1>4. ReadsAll =>
        printed \notin stale /\ \A i \in 1 .. Len(pipe) : pipe[i] \notin stale
  BY DEF ProbeInv, StaleIsGone, NoStaleAnswer
<1>5. step + 1 \in Nat /\ step + 1 > step
  BY <1>1
<1> QED
  BY <1>1, <1>2, <1>3, <1>4, <1>5, GoesOn

\* What holds of a program at any of its steps.
LEMMA AtWork ==
  ASSUME ProbeInv, prog # "none", ended = "no"
  PROVE  /\ prog \in Programs /\ step \in Nat /\ step <= 30
         /\ 1 <= step /\ step <= Len(Script(prog)) /\ Len(Script(prog)) \in Nat
         /\ left \in Nat /\ left <= 20
         /\ written \in Nat /\ written < step /\ attached \in BOOLEAN
         /\ pipe \in Seq(0 .. written) /\ Len(pipe) <= PipeSize
         /\ pending \subseteq 1 .. written /\ printed \in 0 .. written
         /\ atLoop \subseteq 1 .. written /\ stale \subseteq 1 .. written
         /\ Now \in Steps
         /\ ReadsAll /\ step < Len(Script(prog)) => Now \in Draining(Drains(prog))
<1>1. /\ prog \in Programs /\ step \in Nat /\ step <= 30 /\ left \in Nat /\ left <= 20
      /\ written \in Nat /\ attached \in BOOLEAN
      /\ pipe \in Seq(0 .. written) /\ Len(pipe) <= PipeSize
      /\ pending \subseteq 1 .. written /\ printed \in 0 .. written
      /\ atLoop \subseteq 1 .. written /\ stale \subseteq 1 .. written
  BY TypeIs DEF ProbeInv
<1>2. 1 <= step /\ step <= Len(Script(prog)) /\ written < step
  BY DEF ProbeInv, AtStep
<1>3. Script(prog) \in Seq(Steps) /\ Len(Script(prog)) \in Nat
  BY <1>1, Scripts
<1>4. step \in 1 .. Len(Script(prog))
  BY <1>1, <1>2, <1>3
<1>5. Now \in Steps
  BY <1>1, <1>4, Scripts DEF Now
<1>6. ASSUME ReadsAll, step < Len(Script(prog)) PROVE Now \in Draining(Drains(prog))
  <2>1. step \in 1 .. Len(Script(prog)) - 1
    BY <1>1, <1>2, <1>3, <1>6
  <2> QED
    BY <1>1, <1>6, <2>1, Scripts, ReadsAllIs DEF Now
<1> QED
  BY <1>1, <1>2, <1>3, <1>5, <1>6

\* A packet comes that has not been in the queue before, or a beacon.
LEMMA ArriveInv ==
  ASSUME ProbeInv, NEW p, Arrive(p), pending' \subseteq pending,
         p = 0 \/ (p \in pending /\ p \notin pending')
  PROVE  ProbeInv'
<1>1. /\ prog # "none" /\ ended = "no" /\ Len(pipe) < PipeSize
      /\ pipe' = Append(pipe, p)
      /\ UNCHANGED <<prog, step, left, written, ended, attached, atLoop, stale, printed>>
  BY DEF Arrive
<1>2. /\ written \in Nat /\ pipe \in Seq(0 .. written) /\ pending \subseteq 1 .. written
      /\ atLoop \subseteq 1 .. written /\ stale \subseteq 1 .. written
  BY <1>1, AtWork
<1>3. p \in 0 .. written /\ p \notin atLoop /\ p \notin stale
  <2>1. CASE p = 0
    BY <1>2, <2>1
  <2>2. CASE p \in pending
    <3>1. p \notin atLoop /\ p \notin stale
      BY <2>2 DEF ProbeInv, NotSeenYet
    <3>2. p \in 0 .. written
      BY <1>2, <2>2
    <3> QED
      BY <3>1, <3>2
  <2> QED
    BY <2>1, <2>2
<1>4. /\ pipe' \in Seq(0 .. written) /\ Len(pipe') = Len(pipe) + 1
      /\ \A i \in 1 .. Len(pipe) : pipe'[i] = pipe[i]
      /\ pipe'[Len(pipe) + 1] = p
  BY <1>1, <1>2, <1>3, AppendProperties
<1>5. /\ Len(pipe) \in Nat /\ Len(pipe') <= PipeSize
      /\ \A i \in 1 .. Len(pipe') : i \in 1 .. Len(pipe) \/ i = Len(pipe) + 1
  BY <1>1, <1>2, <1>4, ProbeAssumption
<1>6. ProbeTypeOK'
  BY <1>1, <1>4, <1>5, TypeIs, NextTypeIs DEF ProbeInv
<1>7. NotSeenYet'
  BY <1>1, <1>4, <1>5, <1>2 DEF ProbeInv, NotSeenYet
<1>8. StaleIsGone'
  BY <1>1, <1>3, <1>4, <1>5, ReadsAllIs DEF ProbeInv, StaleIsGone
<1>9. LoopReaches'
  <2>1. Now' = Now
    BY <1>1 DEF Now
  <2> QED
    BY <1>1, <1>3, <1>4, <1>5, <2>1, ReadsAllIs DEF ProbeInv, LoopReaches
<1>10. NotStarted' /\ AtStep' /\ NoStaleAnswer'
  BY <1>1, ReadsAllIs DEF ProbeInv, NotStarted, AtStep, NoStaleAnswer
<1> QED
  BY <1>6, <1>7, <1>8, <1>9, <1>10 DEF ProbeInv

LEMMA DetachInv ==
  ASSUME ProbeInv, Detach
  PROVE  ProbeInv'
<1>1. pipe' \in Seq(0 .. written) /\ Len(pipe') <= PipeSize
  BY ProbeAssumption DEF Detach
<1>2. ProbeTypeOK'
  BY <1>1, TypeIs, NextTypeIs DEF ProbeInv, Detach
<1> QED
  BY <1>2, ReadsAllIs DEF Detach, ProbeInv, NotStarted, AtStep, NotSeenYet, StaleIsGone,
     NoStaleAnswer, LoopReaches

LEMMA StartInv ==
  ASSUME ProbeInv, Start
  PROVE  ProbeInv'
<1>1. /\ prog' \in Programs /\ prog' # "none" /\ step' = 1
      /\ UNCHANGED <<left, written, ended, attached, pipe, pending, atLoop, stale, printed>>
      /\ ended = "no" /\ written = 0 /\ pipe = <<>> /\ pending = {}
      /\ atLoop = {} /\ stale = {}
  BY DEF Start, Programs, ProbeInv, NotStarted
<1>2. 1 <= Len(Script(prog'))
  BY <1>1, Scripts
<1>3. ProbeTypeOK'
  BY <1>1, TypeIs, NextTypeIs DEF ProbeInv
<1> QED
  BY <1>1, <1>2, <1>3 DEF ProbeInv, NotStarted, AtStep, NotSeenYet, StaleIsGone,
     NoStaleAnswer, LoopReaches

\* The device is found, or the program ends.
LEMMA FindDeviceInv ==
  ASSUME ProbeInv, FindDevice
  PROVE  ProbeInv'
<1>1. /\ prog # "none" /\ ended = "no" /\ Now.op # "loop"
      /\ UNCHANGED <<written, attached, pipe, pending, stale, printed>>
      /\ \/ GoTo(step + 1)
         \/ /\ ended' = IF attached THEN "no_product" ELSE "no_device"
            /\ UNCHANGED <<prog, step, left, atLoop>>
  BY DEF FindDevice, Running
<1> QED
  BY <1>1, NothingTaken, Stops

\* The packet is built, or the program ends.
LEMMA BuildInv ==
  ASSUME ProbeInv, Build
  PROVE  ProbeInv'
<1>1. /\ prog # "none" /\ ended = "no" /\ Now.op # "loop"
      /\ UNCHANGED <<written, attached, pipe, pending, stale, printed>>
      /\ \/ GoTo(step + 1)
         \/ ended' = "raised" /\ UNCHANGED <<prog, step, left, atLoop>>
  BY DEF Build, Running
<1> QED
  BY <1>1, NothingTaken, Stops

LEMMA ResetDeviceInv ==
  ASSUME ProbeInv, ResetDevice
  PROVE  ProbeInv'
<1>1. /\ prog # "none" /\ ended = "no" /\ GoTo(step + 1)
      /\ attached' \in BOOLEAN /\ pipe' = <<>> /\ pending' = {}
      /\ UNCHANGED <<written, stale, printed>>
  BY DEF ResetDevice, Running
<1>2. /\ step \in Nat /\ written \in Nat /\ written < step
      /\ stale \subseteq 1 .. written /\ printed \in 0 .. written
  BY <1>1, AtWork
<1>3. pipe' \in Seq(0 .. written') /\ Len(pipe') <= PipeSize /\ 1 .. Len(pipe') = {}
  BY <1>1, ProbeAssumption
<1>4. ReadsAll => printed' \notin stale'
  BY <1>1 DEF ProbeInv, NoStaleAnswer
<1>5. step + 1 \in Nat /\ step + 1 > step /\ written <= written' /\ written' <= step
  BY <1>1, <1>2
<1> QED
  BY <1>1, <1>2, <1>3, <1>4, <1>5, GoesOn

LEMMA WriteProbeInv ==
  ASSUME ProbeInv, WriteProbe
  PROVE  ProbeInv'
<1>1. /\ prog # "none" /\ ended = "no" /\ Now.op = "write"
      /\ written' = written + 1 /\ printed' = 0 /\ stale' = atLoop
      /\ UNCHANGED <<attached, pipe>>
      /\ pending' \subseteq pending \union {written + 1}
      /\ GoTo(step + 1) \/ GoTo(step + 1 + Now.skip)
  BY DEF WriteProbe, Running
<1>2. /\ step \in Nat /\ written \in Nat /\ written < step /\ attached \in BOOLEAN
      /\ pipe \in Seq(0 .. written) /\ Len(pipe) <= PipeSize
      /\ pending \subseteq 1 .. written /\ atLoop \subseteq 1 .. written
      /\ Now \in Steps
  BY <1>1, AtWork
<1>3. PICK n \in Nat : n > step /\ GoTo(n)
  <2>1. Now.skip \in {0, 1}
    BY <1>1, <1>2, StepsAre
  <2>2. /\ step + 1 \in Nat /\ step + 1 > step
        /\ step + 1 + Now.skip \in Nat /\ step + 1 + Now.skip > step
    BY <1>2, <2>1
  <2> QED
    BY <1>1, <2>2
<1>4. /\ written' \in Nat /\ written <= written' /\ written' <= step
      /\ printed' \in 0 .. written' /\ printed' \notin stale'
      /\ pending' \subseteq 1 .. written' /\ stale' \subseteq 1 .. written'
  BY <1>1, <1>2
<1>5. \A i \in 1 .. Len(pipe) : pipe[i] \in 0 .. written
  BY <1>2
<1>6. pipe' \in Seq(0 .. written')
  <2>1. 0 .. written \subseteq 0 .. written'
    BY <1>1, <1>2
  <2> QED
    BY <1>1, <1>2, <2>1
<1>7. ASSUME NEW p \in pending'
      PROVE  p \notin atLoop /\ p \notin stale' /\ \A i \in 1 .. Len(pipe') : pipe'[i] # p
  <2>1. CASE p \in pending
    BY <1>1, <2>1 DEF ProbeInv, NotSeenYet
  <2>2. CASE p = written + 1
    BY <1>1, <1>2, <1>5, <2>2
  <2> QED
    BY <1>1, <2>1, <2>2
<1>8. ReadsAll => \A i \in 1 .. Len(pipe') : pipe'[i] \notin atLoop
  BY <1>1 DEF ProbeInv, LoopReaches
<1> QED
  BY <1>1, <1>2, <1>3, <1>4, <1>6, <1>7, <1>8, GoesOn

\* What is true of the first packet and of the rest of the queue.
LEMMA Taken ==
  ASSUME NEW w \in Nat, pipe \in Seq(0 .. w), pipe # <<>>
  PROVE  /\ Tail(pipe) \in Seq(0 .. w) /\ Len(Tail(pipe)) = Len(pipe) - 1
         /\ Head(pipe) = pipe[1] /\ Head(pipe) \in 0 .. w
         /\ 1 \in 1 .. Len(pipe) /\ Len(pipe) \in Nat
         /\ \A i \in 1 .. Len(Tail(pipe)) :
              Tail(pipe)[i] = pipe[i + 1] /\ i + 1 \in 1 .. Len(pipe)
<1>1. Len(pipe) \in Nat /\ Len(pipe) >= 1
  BY EmptySeq, LenProperties
<1>2. Tail(pipe) \in Seq(0 .. w) /\ Len(Tail(pipe)) = Len(pipe) - 1
  BY HeadTailProperties
<1>3. Head(pipe) = pipe[1] /\ Head(pipe) \in 0 .. w
  BY HeadTailProperties
<1>4. \A i \in 1 .. Len(Tail(pipe)) : Tail(pipe)[i] = pipe[i + 1]
  BY HeadTailProperties
<1> QED
  BY <1>1, <1>2, <1>3, <1>4

LEMMA ReadPacketInv ==
  ASSUME ProbeInv, ReadPacket
  PROVE  ProbeInv'
<1>1. /\ prog # "none" /\ ended = "no" /\ Now.op = "loop" /\ left > 0 /\ pipe # <<>>
      /\ pipe' = Tail(pipe) /\ printed' \in {printed, Head(pipe)}
      /\ UNCHANGED <<written, attached, pending, stale>>
      /\ \/ Now.skip > 0 /\ GoTo(step + 1 + Now.skip)
         \/ ~(Now.skip > 0) /\ left' = left - 1 /\ UNCHANGED <<prog, step, ended, atLoop>>
  BY DEF ReadPacket, Running, Less
<1>2. /\ step \in Nat /\ step <= 30 /\ left \in Nat /\ left <= 20
      /\ written \in Nat /\ written < step /\ attached \in BOOLEAN
      /\ pipe \in Seq(0 .. written) /\ Len(pipe) <= PipeSize
      /\ pending \subseteq 1 .. written /\ printed \in 0 .. written
      /\ atLoop \subseteq 1 .. written /\ stale \subseteq 1 .. written
      /\ ReadsAll /\ step < Len(Script(prog)) => Now \in Draining(Drains(prog))
      /\ Now \in Loops
  BY <1>1, AtWork, StepsAre
<1>3. /\ pipe' \in Seq(0 .. written') /\ Len(pipe') <= PipeSize
      /\ printed' \in 0 .. written'
  BY <1>1, <1>2, Taken, ProbeAssumption
<1>4. \A i \in 1 .. Len(pipe') : pipe'[i] = pipe[i + 1] /\ i + 1 \in 1 .. Len(pipe)
  BY <1>1, <1>2, Taken
<1>5. \A p \in pending' :
        p \notin atLoop /\ p \notin stale' /\ \A i \in 1 .. Len(pipe') : pipe'[i] # p
  BY <1>1, <1>4 DEF ProbeInv, NotSeenYet
<1>6. ASSUME ReadsAll
      PROVE  printed' \notin stale' /\ \A i \in 1 .. Len(pipe') : pipe'[i] \notin stale'
  <2>1. Head(pipe) \notin stale
    BY <1>1, <1>2, <1>6, Taken DEF ProbeInv, StaleIsGone
  <2> QED
    BY <1>1, <1>4, <1>6, <2>1 DEF ProbeInv, StaleIsGone, NoStaleAnswer
<1>7. CASE Now.skip > 0 /\ GoTo(step + 1 + Now.skip)
  <2>1. Now.skip \in Nat
    BY <1>2, LoopsAre
  <2>2. step + 1 + Now.skip \in Nat /\ step + 1 + Now.skip > step
    BY <1>2, <2>1
  <2>3. ~(ReadsAll /\ step < Len(Script(prog)))
    BY <1>1, <1>2, <1>7, DrainingAre, ReadsAllIs
  <2>4. written <= written' /\ written' <= step /\ written' \in Nat
    BY <1>1, <1>2
  <2> QED
    BY <1>1, <1>2, <1>3, <1>5, <1>6, <1>7, <2>2, <2>3, <2>4, GoesOn
<1>8. CASE left' = left - 1 /\ UNCHANGED <<prog, step, ended, atLoop>>
  <2>1. left' \in Nat /\ left' <= 20
    BY <1>1, <1>2, <1>8
  <2>2. ProbeTypeOK'
    BY <1>1, <1>2, <1>3, <1>8, <2>1, TypeIs, NextTypeIs DEF ProbeInv
  <2>3. LoopReaches'
    <3>1. Now' = Now
      BY <1>8 DEF Now
    <3>2. ASSUME ReadsAll, step < Len(Script(prog)),
                 NEW i \in 1 .. Len(pipe'), pipe'[i] \in atLoop
          PROVE  i <= left'
      <4>1. i + 1 <= left
        BY <1>1, <1>4, <3>2 DEF ProbeInv, LoopReaches
      <4> QED
        BY <1>2, <1>8, <4>1
    <3> QED
      BY <1>1, <1>8, <3>1, <3>2, ReadsAllIs DEF LoopReaches
  <2>4. NotSeenYet' /\ StaleIsGone' /\ NoStaleAnswer' /\ NotStarted' /\ AtStep'
    BY <1>1, <1>5, <1>6, <1>8, ReadsAllIs DEF ProbeInv, NotSeenYet, StaleIsGone,
       NoStaleAnswer, NotStarted, AtStep
  <2> QED
    BY <2>2, <2>3, <2>4 DEF ProbeInv
<1> QED
  BY <1>1, <1>7, <1>8

\* The loop ends at a silence, or reads on.
LEMMA ReadNothingInv ==
  ASSUME ProbeInv, ReadNothing
  PROVE  ProbeInv'
<1>1. /\ prog # "none" /\ ended = "no" /\ Now.op = "loop" /\ left > 0 /\ pipe = <<>>
      /\ UNCHANGED <<written, attached, pipe, pending, stale, printed>>
      /\ \/ GoTo(step + 1)
         \/ left' = left - 1 /\ UNCHANGED <<prog, step, ended, atLoop>>
  BY DEF ReadNothing, Running, Less
<1>2. \A i \in 1 .. Len(pipe) : pipe[i] \notin atLoop
  BY <1>1
<1>3. CASE GoTo(step + 1)
  BY <1>1, <1>2, <1>3, NothingTaken
<1>4. CASE left' = left - 1 /\ UNCHANGED <<prog, step, ended, atLoop>>
  <2>1. left' \in Nat /\ left' <= 20
    BY <1>1, <1>4, AtWork
  <2>2. ProbeTypeOK'
    BY <1>1, <1>4, <2>1, TypeIs, NextTypeIs DEF ProbeInv
  <2> QED
    BY <1>1, <1>4, <2>2, ReadsAllIs DEF ProbeInv, NotStarted, AtStep, NotSeenYet,
       StaleIsGone, NoStaleAnswer, LoopReaches
<1> QED
  BY <1>1, <1>3, <1>4

\* After its last read a loop has taken what it had to.
LEMMA LoopEndsInv ==
  ASSUME ProbeInv, LoopEnds
  PROVE  ProbeInv'
<1>1. /\ prog # "none" /\ ended = "no" /\ Now.op = "loop" /\ left = 0
      /\ UNCHANGED <<written, attached, pipe, pending, stale, printed>>
      /\ GoTo(step + 1)
  BY DEF LoopEnds, Running
<1>2. ReadsAll /\ step < Len(Script(prog)) =>
        \A i \in 1 .. Len(pipe) : pipe[i] \notin atLoop
  BY <1>1 DEF ProbeInv, LoopReaches
<1> QED
  BY <1>1, <1>2, NothingTaken

LEMMA ListenInv ==
  ASSUME ProbeInv, ListenRead \/ ListenEnds
  PROVE  ProbeInv'
<1>1. prog # "none" /\ ended = "no" /\ Now.op = "listen"
  BY DEF ListenRead, ListenEnds, Running
<1>2. CASE ListenEnds
  BY <1>1, <1>2, NothingTaken DEF ListenEnds
<1>3. CASE ListenRead
  <2>1. /\ pipe # <<>> /\ pipe' = Tail(pipe)
        /\ UNCHANGED <<prog, step, left, written, ended, attached, pending, atLoop,
                       stale, printed>>
    BY <1>3 DEF ListenRead
  <2>2. written \in Nat /\ pipe \in Seq(0 .. written) /\ Len(pipe) <= PipeSize
    BY <1>1, AtWork
  <2>3. /\ pipe' \in Seq(0 .. written') /\ Len(pipe') <= PipeSize
        /\ \A i \in 1 .. Len(pipe') : pipe'[i] = pipe[i + 1] /\ i + 1 \in 1 .. Len(pipe)
    BY <2>1, <2>2, Taken, ProbeAssumption
  <2>4. ProbeTypeOK'
    BY <2>1, <2>3, TypeIs, NextTypeIs DEF ProbeInv
  <2>5. LoopReaches'
    BY <1>1, <2>1, <2>3, ReadsAllIs DEF ProbeInv, LoopReaches
  <2>6. NotSeenYet' /\ StaleIsGone' /\ NoStaleAnswer' /\ NotStarted' /\ AtStep'
    BY <1>1, <2>1, <2>3, ReadsAllIs DEF ProbeInv, NotSeenYet, StaleIsGone, NoStaleAnswer,
       NotStarted, AtStep
  <2> QED
    BY <2>4, <2>5, <2>6 DEF ProbeInv
<1> QED
  BY <1>2, <1>3

LEMMA ProbeNextInv ==
  ASSUME ProbeInv, ProbeNext
  PROVE  ProbeInv'
<1>1. CASE Beacon
  BY <1>1, ArriveInv DEF Beacon
<1>2. CASE AnswerProbe
  <2>1. PICK p \in pending : Arrive(p) /\ pending' = pending \ {p}
    BY <1>2 DEF AnswerProbe
  <2> QED
    BY <2>1, ArriveInv
<1> QED
  BY <1>1, <1>2, DetachInv, StartInv, FindDeviceInv, BuildInv, ResetDeviceInv,
     WriteProbeInv, ReadPacketInv, ReadNothingInv, LoopEndsInv, ListenInv
  DEF ProbeNext, ProbeDevice, ProbeStep
=============================================================================
