--------------------------- MODULE CardLinkProofs ---------------------------
(***************************************************************************)
(* Proofs about CardLink for any number of lpac processes, commands and    *)
(* segments: the daemon executes only whole commands of one process, and   *)
(* never refuses a segment for want of a channel.                          *)
(***************************************************************************)
EXTENDS CardLink, SequenceTheorems, TLAPS

-----------------------------------------------------------------------------
(* Requests. *)

\* The fields of a request.
LEMMA RequestFields ==
    ASSUME NEW r \in Request
    PROVE  /\ r.func \in Funcs /\ r.cmd \in 0 .. MaxCmds /\ r.seg \in 0 .. MaxSegs
           /\ r.last \in BOOLEAN
BY DEF Request

\* A request that has no segment.
LEMMA CallType ==
    ASSUME NEW f \in Funcs
    PROVE  Call(f) \in Request /\ Call(f).func = f
BY LinkAssumption DEF Call, Request

\* A segment.
LEMMA SegmentType ==
    ASSUME NEW c \in 0 .. MaxCmds, NEW k \in 0 .. MaxSegs, NEW last \in BOOLEAN
    PROVE  /\ Segment(c, k, last) \in Request
           /\ Segment(c, k, last).func = "transmit"
           /\ Segment(c, k, last).cmd = c
           /\ Segment(c, k, last).seg = k
           /\ Segment(c, k, last).last = last
BY DEF Segment, Request, Funcs

\* A transmit that is not the last is the segment with its number.
LEMMA TransmitIsSegment ==
    ASSUME NEW r \in Request, r.func = "transmit", ~r.last
    PROVE  r = Segment(r.cmd, r.seg, FALSE)
<1>1. r.last = FALSE
  BY RequestFields
<1>2. r = [func |-> r.func, cmd |-> r.cmd, seg |-> r.seg, last |-> r.last]
  BY DEF Request
<1>. QED  BY <1>1, <1>2 DEF Segment

\* A segment in the buffer.
LEMMA PieceType ==
    ASSUME NEW p \in Procs, NEW r \in Request
    PROVE  Of(p, r) \in Piece /\ Of(p, r).proc = p /\ Of(p, r).req = r
BY DEF Of, Piece

\* The segments of a command are numbered from 1, and the last ends it.
LEMMA SegmentsType ==
    ASSUME NEW c \in 0 .. MaxCmds, NEW k \in 1 .. MaxSegs, NEW s \in Segments(c, k)
    PROVE  /\ s \in Request /\ RequestOK(s)
           /\ s.func = "transmit" /\ s.cmd = c /\ s.seg = k
<1>1. PICK last \in BOOLEAN : s = Segment(c, k, last) /\ s # Segment(c, MaxSegs, FALSE)
  BY DEF Segments
<1>2. /\ s \in Request
      /\ s.func = "transmit" /\ s.cmd = c /\ s.seg = k /\ s.last = last
  BY <1>1, SegmentType
<1>3. CASE last = TRUE
  BY <1>2, <1>3 DEF RequestOK
<1>4. CASE last = FALSE
  <2>1. k # MaxSegs
    BY <1>1, <1>4
  <2>2. k < MaxSegs
    BY <2>1, LinkAssumption
  <2>. QED  BY <1>2, <2>2 DEF RequestOK
<1>. QED  BY <1>3, <1>4

\* A command begins with its first segment.
LEMMA CommandsType ==
    ASSUME NEW c \in 0 .. MaxCmds, NEW s \in Commands(c)
    PROVE  /\ s \in Request /\ RequestOK(s)
           /\ s.func \in {"close", "transmit"}
           /\ s.func = "transmit" => s.seg = 1
<1>1. CASE s = Call("close")
  BY <1>1, CallType DEF Funcs, RequestOK
<1>2. CASE c < MaxCmds /\ s \in Segments(c + 1, 1)
  <2>1. c + 1 \in 0 .. MaxCmds /\ 1 \in 1 .. MaxSegs
    BY <1>2, LinkAssumption
  <2>. QED  BY <1>2, <2>1, SegmentsType
<1>. QED  BY <1>1, <1>2 DEF Commands

\* A process goes on with the next segment of its command only when the one
\* before was accepted, and transmits only after its channel was opened.
GoesOn(r, a, s) ==
    IF r.func = "transmit" /\ ~r.last
    THEN s.func = "transmit" /\ s.cmd = r.cmd /\ s.seg = r.seg + 1
    ELSE s.func = "transmit" =>
             s.seg = 1 /\ (r.func = "transmit" \/ (r.func = "open" /\ a = "ok"))

LEMMA FollowingType ==
    ASSUME NEW r \in Request, RequestOK(r), NEW a \in {"ok", "error"},
           r.func = "transmit" /\ a = "error" => r.last,
           NEW s \in Following(r, a)
    PROVE  s \in Request /\ RequestOK(s) /\ s.func # "connect" /\ GoesOn(r, a, s)
<1>. USE RequestFields
<1>1. r.func \in Funcs
  OBVIOUS
<1>2. CASE r.func = "connect"
  BY <1>2, CallType DEF Following, Funcs, RequestOK, GoesOn
<1>3. CASE r.func = "open"
  <2>1. CASE a = "ok"
    <3>1. s \in Commands(0) /\ 0 \in 0 .. MaxCmds
      BY <1>3, <2>1, LinkAssumption DEF Following
    <3>. QED  BY <1>3, <2>1, <3>1, CommandsType DEF GoesOn
  <2>2. CASE a # "ok"
    BY <1>3, <2>2, CallType DEF Following, Funcs, RequestOK, GoesOn
  <2>. QED  BY <2>1, <2>2
<1>4. CASE r.func = "transmit"
  <2>1. CASE a = "ok" /\ ~r.last
    <3>1. s \in Segments(r.cmd, r.seg + 1)
      BY <1>4, <2>1 DEF Following
    <3>2. r.cmd \in 0 .. MaxCmds /\ r.seg + 1 \in 1 .. MaxSegs
      BY <1>4, <2>1, LinkAssumption DEF RequestOK
    <3>. QED  BY <1>4, <2>1, <3>1, <3>2, SegmentsType DEF GoesOn
  <2>2. CASE ~(a = "ok" /\ ~r.last)
    <3>1. s \in Commands(r.cmd) /\ r.last
      BY <1>4, <2>2 DEF Following
    <3>. QED  BY <1>4, <3>1, CommandsType DEF GoesOn
  <2>. QED  BY <2>1, <2>2
<1>5. CASE r.func = "close"
  BY <1>5, CallType DEF Following, Funcs, RequestOK, GoesOn
<1>6. CASE r.func = "disconnect"
  BY <1>6 DEF Following
<1>. QED  BY <1>1, <1>2, <1>3, <1>4, <1>5, <1>6 DEF Funcs

-----------------------------------------------------------------------------
(* Steps. *)

Inv == TypeOK /\ LinkInv

\* A process connects: it is the last of the queue.
LEMMA StartStep ==
    ASSUME Inv, NEW p \in Procs, Start(p)
    PROVE  Inv'
<1>. USE DEF Inv, LinkInv
<1>1. /\ life[p] = "new" /\ p # serving
      /\ request[p] = Call("connect") /\ reply[p] = "none"
  BY DEF Start, Requests
<1>2. /\ queue' \in Seq(Procs) /\ Len(queue') = Len(queue) + 1 /\ Len(queue) \in Nat
      /\ \A i \in 1 .. Len(queue) : queue'[i] = queue[i]
      /\ queue'[Len(queue) + 1] = p
  BY AppendProperties, LenProperties DEF Start, TypeOK
<1>3. /\ life' = [life EXCEPT ![p] = "running"]
      /\ unread' = [unread EXCEPT ![p] = TRUE]
      /\ UNCHANGED <<request, reply, serving, channel, buffer, executed>>
  BY DEF Start
<1>4. /\ \A q \in Procs : q # p => life'[q] = life[q] /\ unread'[q] = unread[q]
      /\ life'[p] = "running" /\ unread'[p] = TRUE
  BY <1>3 DEF TypeOK
<1>5. TypeOK'
  BY <1>2, <1>3 DEF TypeOK
<1>6. Requests'
  BY <1>1, <1>3, <1>4 DEF Requests, RequestOK
<1>7. Waiting'
  <2>1. \A i \in 1 .. Len(queue) : queue[i] \in Procs /\ queue[i] # p
    BY <1>1, <1>2, ElementOfSeq DEF Waiting, TypeOK
  <2>2. \A i \in 1 .. Len(queue') :
            /\ queue'[i] # serving' /\ life'[queue'[i]] # "new"
            /\ request'[queue'[i]] = Call("connect")
            /\ unread'[queue'[i]] /\ reply'[queue'[i]] = "none"
    <3>. TAKE i \in 1 .. Len(queue')
    <3>1. CASE i = Len(queue) + 1
      BY <1>1, <1>2, <1>3, <1>4, <3>1
    <3>2. CASE i # Len(queue) + 1
      <4>1. i \in 1 .. Len(queue) /\ queue'[i] = queue[i]
        BY <1>2, <3>2
      <4>2. /\ queue[i] # serving /\ life[queue[i]] # "new" /\ queue[i] \in Procs
            /\ request[queue[i]] = Call("connect") /\ reply[queue[i]] = "none"
            /\ queue[i] # p
        BY <4>1, <2>1 DEF Waiting
      <4>3. unread[queue[i]]
        BY <4>1 DEF Waiting
      <4>4. unread'[queue[i]] = unread[queue[i]]
        BY <4>2, <1>4
      <4>. QED  BY <1>3, <1>4, <4>1, <4>2, <4>3, <4>4
    <3>. QED  BY <3>1, <3>2
  <2>3. \A i, j \in 1 .. Len(queue') : queue'[i] = queue'[j] => i = j
    BY <1>2, <2>1 DEF Waiting
  <2>. QED  BY <2>2, <2>3 DEF Waiting
<1>8. serving # None => unread'[serving] = unread[serving]
  BY <1>1, <1>4 DEF TypeOK
<1>9. Buffered'
  BY <1>3, <1>8 DEF Buffered, Holds, Expected
<1>10. Opened' /\ NoneRefused' /\ WholeCommands'
  BY <1>3 DEF Opened, NoneRefused, WholeCommands, IsWhole
<1>. QED  BY <1>5, <1>6, <1>7, <1>9, <1>10

\* A process ends, or is killed.
LEMMA EndStep ==
    ASSUME Inv, NEW p \in Procs, Exit(p) \/ Kill(p)
    PROVE  Inv'
<1>. USE DEF Inv, LinkInv
<1>1. /\ life' = [life EXCEPT ![p] = "gone"]
      /\ reply' = [reply EXCEPT ![p] = "none"]
      /\ UNCHANGED <<request, unread, queue, serving, channel, buffer, executed>>
  BY DEF Exit, Kill, daemonVars
<1>2. \A q \in Procs : /\ life'[q] = IF q = p THEN "gone" ELSE life[q]
                       /\ reply'[q] = IF q = p THEN "none" ELSE reply[q]
  BY <1>1 DEF TypeOK
<1>3. TypeOK'
  BY <1>1 DEF TypeOK
<1>4. Requests'
  BY <1>1, <1>2 DEF Requests, RequestOK
<1>5. Waiting'
  <2>1. \A i \in 1 .. Len(queue) : queue[i] \in Procs
    BY ElementOfSeq DEF TypeOK
  <2>. QED  BY <1>1, <1>2, <2>1 DEF Waiting
<1>6. Buffered' /\ NoneRefused' /\ WholeCommands'
  BY <1>1 DEF Buffered, Holds, Expected, NoneRefused, WholeCommands, IsWhole
<1>7. Opened'
  BY <1>1, <1>2 DEF Opened, TypeOK
<1>. QED  BY <1>3, <1>4, <1>5, <1>6, <1>7

\* The next connection is accepted; it has not sent "connect" in vain.
LEMMA AcceptStep ==
    ASSUME Inv, Accept
    PROVE  Inv'
<1>. USE DEF Inv, LinkInv
<1>1. /\ queue # <<>> /\ serving' = queue[1] /\ serving' \in Procs
      /\ queue' \in Seq(Procs) /\ Len(queue') = Len(queue) - 1
      /\ Len(queue) \in Nat /\ Len(queue) > 0
      /\ \A i \in 1 .. Len(queue') : queue'[i] = queue[i + 1]
  BY HeadTailProperties, EmptySeq DEF Accept, TypeOK
<1>2. UNCHANGED <<life, request, unread, reply, channel, buffer, executed>>
  BY DEF Accept, lpacVars
<1>3. /\ life[serving'] # "new" /\ request[serving'] = Call("connect")
      /\ unread[serving'] /\ reply[serving'] = "none"
  BY <1>1 DEF Waiting
<1>4. TypeOK'
  BY <1>1, <1>2 DEF TypeOK
<1>5. Requests'
  BY <1>2, <1>3 DEF Requests, RequestOK
<1>6. Waiting'
  <2>1. \A i \in 1 .. Len(queue') :
            /\ i + 1 \in 1 .. Len(queue) /\ queue'[i] = queue[i + 1]
            /\ 1 \in 1 .. Len(queue) /\ i + 1 # 1
    BY <1>1
  <2>2. \A i \in 1 .. Len(queue') : queue'[i] # serving'
    BY <1>1, <2>1 DEF Waiting
  <2>3. \A i \in 1 .. Len(queue') :
            /\ life[queue'[i]] # "new" /\ request[queue'[i]] = Call("connect")
            /\ reply[queue'[i]] = "none"
    BY <2>1 DEF Waiting
  <2>4. \A i \in 1 .. Len(queue') : unread[queue'[i]]
    BY <2>1 DEF Waiting
  <2>5. \A i, j \in 1 .. Len(queue') : queue'[i] = queue'[j] => i = j
    BY <1>1, <2>1 DEF Waiting
  <2>. QED  BY <1>2, <2>2, <2>3, <2>4, <2>5 DEF Waiting
<1>7. request[serving'].func = "connect"
  BY <1>3, CallType DEF Funcs
<1>8. Buffered' /\ Opened' /\ NoneRefused' /\ WholeCommands'
  BY <1>2, <1>3, <1>7 DEF Buffered, Opened, NoneRefused, WholeCommands, IsWhole
<1>. QED  BY <1>4, <1>5, <1>6, <1>8

\* handle_client returns.
LEMMA DropStep ==
    ASSUME Inv, NEW p \in Procs, Drop(p)
    PROVE  Inv'
<1>. USE DEF Inv, LinkInv
<1>1. /\ serving' = None
      /\ UNCHANGED <<life, request, unread, reply, queue, channel, buffer, executed>>
  BY DEF Drop, lpacVars
<1>2. \A i \in 1 .. Len(queue) : queue[i] \in Procs
  BY ElementOfSeq DEF TypeOK
<1>3. None \notin Procs
  BY LinkAssumption
<1>4. TypeOK'
  BY <1>1 DEF TypeOK
<1>5. Requests' /\ Waiting'
  BY <1>1, <1>2, <1>3 DEF Requests, RequestOK, Waiting
<1>6. Buffered' /\ Opened' /\ NoneRefused' /\ WholeCommands'
  BY <1>1 DEF Buffered, Opened, NoneRefused, WholeCommands, IsWhole
<1>. QED  BY <1>4, <1>5, <1>6

\* The daemon starts again.
LEMMA RestartStep ==
    ASSUME Inv, Restart
    PROVE  Inv'
<1>. USE DEF Inv, LinkInv
<1>1. /\ serving' = None /\ queue' = <<>> /\ Len(queue') = 0
      /\ buffer' = <<>> /\ channel' = FALSE
      /\ UNCHANGED <<request, executed>>
  BY DEF Restart
<1>2. \A p \in Procs : /\ life'[p] = IF life[p] = "running" THEN "gone" ELSE life[p]
                       /\ reply'[p] = "none"
  BY DEF Restart
<1>3. TypeOK'
  BY <1>1, <1>2, EmptySeq DEF TypeOK, Restart
<1>4. Requests'
  BY <1>1, <1>2, LinkAssumption DEF Requests, RequestOK
<1>5. Waiting' /\ Buffered' /\ Opened' /\ NoneRefused' /\ WholeCommands'
  BY <1>1 DEF Waiting, Buffered, Opened, NoneRefused, WholeCommands, IsWhole
<1>. QED  BY <1>3, <1>4, <1>5

\* A process sends its next request.
LEMMA ContinueStep ==
    ASSUME Inv, NEW p \in Procs, Continue(p)
    PROVE  Inv'
<1>. USE DEF Inv, LinkInv
<1>. DEFINE r == request[p]
<1>1. /\ life[p] = "running" /\ reply[p] \in {"ok", "error"}
      /\ r \in Request /\ RequestOK(r)
      /\ r.func = "transmit" /\ reply[p] = "error" => r.last
  BY DEF Continue, TypeOK, Requests
<1>2. PICK s \in Following(r, reply[p]) : request' = [request EXCEPT ![p] = s]
  BY DEF Continue
<1>3. s \in Request /\ RequestOK(s) /\ s.func # "connect" /\ GoesOn(r, reply[p], s)
  BY <1>1, <1>2, FollowingType
<1>4. /\ unread' = [unread EXCEPT ![p] = TRUE]
      /\ reply' = [reply EXCEPT ![p] = "none"]
      /\ UNCHANGED <<life, queue, serving, channel, buffer, executed>>
  BY DEF Continue, daemonVars
<1>5. \A q \in Procs :
          /\ request'[q] = IF q = p THEN s ELSE request[q]
          /\ reply'[q] = IF q = p THEN "none" ELSE reply[q]
  BY <1>2, <1>4 DEF TypeOK
<1>6. unread'[p] = TRUE /\ \A q \in Procs : q # p => unread'[q] = unread[q]
  BY <1>4 DEF TypeOK
<1>7. TypeOK'
  BY <1>2, <1>3, <1>4 DEF TypeOK
<1>8. Requests'
  <2>. SUFFICES ASSUME NEW q \in Procs
                PROVE  /\ RequestOK(request'[q])
                       /\ life[q] = "new" => /\ q # serving /\ reply'[q] = "none"
                                             /\ request'[q] = Call("connect")
                       /\ request'[q].func = "transmit" /\ reply'[q] = "error"
                            => request'[q].last
                       /\ unread'[q] => reply'[q] = "none"
    BY <1>4 DEF Requests, RequestOK
  <2>1. CASE q = p
    BY <2>1, <1>1, <1>3, <1>5
  <2>2. CASE q # p
    BY <2>2, <1>5, <1>6 DEF Requests
  <2>. QED  BY <2>1, <2>2
<1>9. Waiting'
  <2>1. \A i \in 1 .. Len(queue) : queue[i] \in Procs /\ queue[i] # p
    BY <1>1, ElementOfSeq DEF TypeOK, Waiting
  <2>2. \A i \in 1 .. Len(queue) : unread'[queue[i]]
    <3>. TAKE i \in 1 .. Len(queue)
    <3>1. unread[queue[i]] /\ unread'[queue[i]] = unread[queue[i]]
      BY <2>1, <1>6 DEF Waiting
    <3>. QED  BY <3>1
  <2>. QED  BY <2>1, <2>2, <1>4, <1>5 DEF Waiting
<1>10. CASE serving # p
  <2>1. serving # None => /\ request'[serving] = request[serving]
                          /\ unread'[serving] = unread[serving]
                          /\ reply'[serving] = reply[serving]
    BY <1>5, <1>6, <1>10 DEF TypeOK
  <2>2. Buffered'
    BY <2>1, <1>4 DEF Buffered, Holds, Expected
  <2>3. Opened' /\ NoneRefused'
    BY <2>1, <1>4 DEF Opened, NoneRefused
  <2>4. WholeCommands'
    BY <1>4 DEF WholeCommands, IsWhole
  <2>. QED  BY <2>2, <2>3, <2>4, <1>7, <1>8, <1>9
<1>11. CASE serving = p
  <2>1. Opened' /\ WholeCommands'
    BY <1>4, <1>5, <1>11 DEF Opened, WholeCommands, IsWhole
  <2>2. NoneRefused'
    BY <1>3, <1>4, <1>5, <1>11 DEF NoneRefused, Opened, GoesOn
  <2>3. r.func = "transmit" => Holds(p, IF r.last THEN 0 ELSE r.seg)
    BY <1>1, <1>11, RequestFields, LinkAssumption DEF Buffered, Expected, Requests
  <2>4. r.func # "transmit" => Holds(p, 0)
    BY <1>1, <1>11, LinkAssumption DEF Buffered, Expected, Requests
  <2>5. Expected(p)' = IF s.func # "transmit" THEN 0 ELSE s.seg - 1
    BY <1>5, <1>6 DEF Expected
  <2>6. Holds(p, Expected(p))'
    <3>1. CASE r.func = "transmit" /\ ~r.last
      <4>1. Holds(p, r.seg) /\ s.func = "transmit" /\ s.cmd = r.cmd /\ s.seg = r.seg + 1
        BY <2>3, <3>1, <1>3 DEF GoesOn
      <4>2. Expected(p)' = r.seg
        BY <2>5, <4>1, <1>1, RequestFields, LinkAssumption
      <4>3. request'[p].cmd = r.cmd
        BY <1>5, <4>1
      <4>. QED  BY <4>1, <4>2, <4>3, <1>4 DEF Holds
    <3>2. CASE ~(r.func = "transmit" /\ ~r.last)
      <4>1. Holds(p, 0)
        BY <2>3, <2>4, <3>2
      <4>2. Expected(p)' = 0
        BY <2>5, <3>2, <1>3 DEF GoesOn
      <4>. QED  BY <4>1, <4>2, <1>4 DEF Holds
    <3>. QED  BY <3>1, <3>2
  <2>7. Buffered'
    BY <2>6, <1>4, <1>11 DEF Buffered
  <2>. QED  BY <1>7, <1>8, <1>9, <2>1, <2>2, <2>7
<1>. QED  BY <1>10, <1>11

\* What every request the daemon handles leaves as it should be.
LEMMA HandleFrame ==
    ASSUME Inv, NEW p \in Procs, NEW func \in Funcs, NEW answer \in {"ok", "error"},
           Handle(p, func, answer), serving' \in {p, None},
           func = "transmit" /\ answer = "error" => request[p].last
    PROVE  /\ life' \in [Procs -> {"new", "running", "gone"}]
           /\ request' \in [Procs -> Request]
           /\ unread' \in [Procs -> BOOLEAN]
           /\ reply' \in [Procs -> {"none", "ok", "error"}]
           /\ queue' \in Seq(Procs)
           /\ serving' \in Procs \cup {None}
           /\ Requests' /\ Waiting'
           /\ serving = p /\ request[p].func = func /\ request[p] \in Request
           /\ request' = request /\ ~unread'[p]
           /\ reply'[p] = "ok" => answer = "ok"
           /\ func = "connect" \/ Holds(p, Expected(p))
<1>. USE DEF Inv, LinkInv
<1>1. /\ serving = p /\ request[p].func = func /\ unread[p]
      /\ unread' = [unread EXCEPT ![p] = FALSE]
      /\ reply' = [reply EXCEPT ![p] = IF life[p] = "running" THEN answer ELSE "none"]
      /\ life' = life /\ request' = request /\ queue' = queue
  BY DEF Handle, lpacVars
<1>2. /\ life' \in [Procs -> {"new", "running", "gone"}]
      /\ request' \in [Procs -> Request]
      /\ unread' \in [Procs -> BOOLEAN]
      /\ reply' \in [Procs -> {"none", "ok", "error"}]
      /\ queue' \in Seq(Procs)
      /\ serving' \in Procs \cup {None}
  BY <1>1 DEF TypeOK
<1>3. /\ \A q \in Procs : q # p => reply'[q] = reply[q] /\ unread'[q] = unread[q]
      /\ reply'[p] = (IF life[p] = "running" THEN answer ELSE "none")
      /\ unread'[p] = FALSE
  BY <1>1 DEF TypeOK
<1>4. Requests'
  <2>. SUFFICES ASSUME NEW q \in Procs
                PROVE  /\ RequestOK(request[q])
                       /\ life[q] = "new" => /\ q # serving' /\ reply'[q] = "none"
                                             /\ request[q] = Call("connect")
                       /\ request[q].func = "transmit" /\ reply'[q] = "error"
                            => request[q].last
                       /\ unread'[q] => reply'[q] = "none"
    BY <1>1 DEF Requests, RequestOK
  <2>1. CASE q = p
    BY <2>1, <1>1, <1>3 DEF Requests
  <2>2. CASE q # p
    <3>1. q # serving'
      BY <2>2, LinkAssumption
    <3>. QED  BY <2>2, <3>1, <1>3 DEF Requests
  <2>. QED  BY <2>1, <2>2
<1>5. Waiting'
  <2>1. \A i \in 1 .. Len(queue) : queue[i] \in Procs /\ queue[i] # p
    BY <1>1, ElementOfSeq DEF TypeOK, Waiting
  <2>2. \A i \in 1 .. Len(queue) : unread'[queue[i]]
    <3>. TAKE i \in 1 .. Len(queue)
    <3>1. unread[queue[i]] /\ unread'[queue[i]] = unread[queue[i]]
      BY <2>1, <1>3 DEF Waiting
    <3>. QED  BY <3>1
  <2>3. \A i \in 1 .. Len(queue) : queue[i] # serving'
    BY <2>1, LinkAssumption
  <2>. QED  BY <2>1, <2>2, <2>3, <1>1, <1>3 DEF Waiting
<1>6. func = "connect" \/ Holds(p, Expected(p))
  BY <1>1, LinkAssumption DEF Buffered
<1>7. request[p] \in Request
  BY DEF TypeOK
<1>8. reply'[p] = "ok" => answer = "ok"
  BY <1>3
<1>. QED  BY <1>1, <1>2, <1>3, <1>4, <1>5, <1>6, <1>7, <1>8

\* The requests that are no segment leave the buffer empty.
LEMMA ControlStep ==
    ASSUME Inv, NEW p \in Procs, NEW func \in Funcs \ {"transmit"},
           NEW answer \in {"ok", "error"},
           Handle(p, func, answer), serving' \in {p, None},
           channel' \in BOOLEAN, func = "open" /\ answer = "ok" => channel',
           buffer' = <<>> \/ (func # "connect" /\ buffer' = buffer),
           executed' = executed
    PROVE  Inv'
<1>1. /\ life' \in [Procs -> {"new", "running", "gone"}]
      /\ request' \in [Procs -> Request]
      /\ unread' \in [Procs -> BOOLEAN]
      /\ reply' \in [Procs -> {"none", "ok", "error"}]
      /\ queue' \in Seq(Procs)
      /\ serving' \in Procs \cup {None}
      /\ Requests' /\ Waiting'
      /\ serving = p /\ request[p].func = func
      /\ request' = request /\ ~unread'[p]
      /\ reply'[p] = "ok" => answer = "ok"
      /\ func = "connect" \/ Holds(p, Expected(p))
  BY HandleFrame
<1>2. Len(buffer') = 0 /\ buffer' \in Seq(Piece)
  BY <1>1, EmptySeq DEF Holds, Expected, Inv, TypeOK
<1>3. TypeOK'
  BY <1>1, <1>2 DEF Inv, TypeOK
<1>4. Buffered'
  <2>1. Expected(p)' = 0
    BY <1>1 DEF Expected
  <2>2. Holds(p, Expected(p))'
    BY <1>2, <2>1 DEF Holds
  <2>3. serving' # None => serving' = p
    OBVIOUS
  <2>. QED  BY <2>2, <2>3 DEF Buffered
<1>5. Opened' /\ NoneRefused'
  BY <1>1 DEF Opened, NoneRefused
<1>6. WholeCommands'
  BY DEF Inv, LinkInv, WholeCommands, IsWhole
<1>. QED  BY <1>1, <1>3, <1>4, <1>5, <1>6 DEF Inv, LinkInv

\* A segment that is not the last joins those before it.
LEMMA SegmentStep ==
    ASSUME Inv, NEW p \in Procs, HandleSegment(p)
    PROVE  Inv'
<1>1. channel
  BY LinkAssumption DEF Inv, LinkInv, NoneRefused, HandleSegment, Handle
<1>2. /\ Handle(p, "transmit", "ok") /\ ~request[p].last /\ serving' = serving
      /\ buffer' = Append(buffer, Of(p, request[p]))
      /\ channel' = channel /\ executed' = executed
  BY <1>1 DEF HandleSegment
<1>3. /\ life' \in [Procs -> {"new", "running", "gone"}]
      /\ request' \in [Procs -> Request]
      /\ unread' \in [Procs -> BOOLEAN]
      /\ reply' \in [Procs -> {"none", "ok", "error"}]
      /\ queue' \in Seq(Procs)
      /\ serving' \in Procs \cup {None}
      /\ Requests' /\ Waiting'
      /\ serving = p /\ request[p].func = "transmit" /\ request[p] \in Request
      /\ request' = request /\ ~unread'[p]
      /\ Holds(p, Expected(p))
  <2>1. serving' \in {p, None} /\ "transmit" \in Funcs
    BY <1>2 DEF Handle, Funcs
  <2>. QED  BY <1>2, <2>1, HandleFrame
<1>. DEFINE n == request[p].seg
<1>4. n \in Nat /\ n - 1 \in Nat /\ Holds(p, n - 1)
  <2>1. unread[p]
    BY <1>2 DEF Handle
  <2>2. Expected(p) = n - 1
    BY <1>3, <2>1 DEF Expected
  <2>3. n \in 1 .. MaxSegs
    BY <1>3 DEF Inv, LinkInv, Requests, RequestOK
  <2>. QED  BY <1>3, <2>2, <2>3, LinkAssumption
<1>5. Of(p, request[p]) \in Piece
  BY <1>3, PieceType
<1>6. /\ buffer' \in Seq(Piece) /\ Len(buffer') = n /\ Len(buffer) = n - 1
      /\ \A k \in 1 .. n - 1 : buffer'[k] = buffer[k]
      /\ buffer'[n] = Of(p, request[p])
  BY <1>2, <1>4, <1>5, AppendProperties DEF Holds, Inv, TypeOK
<1>7. request[p] = Segment(request[p].cmd, n, FALSE)
  BY <1>2, <1>3, TransmitIsSegment
<1>8. \A k \in 1 .. n : buffer'[k] = Of(p, Segment(request[p].cmd, k, FALSE))
  <2>. TAKE k \in 1 .. n
  <2>1. CASE k = n
    BY <2>1, <1>6, <1>7
  <2>2. CASE k # n
    <3>1. k \in 1 .. n - 1
      BY <2>2, <1>4
    <3>. QED  BY <3>1, <1>4, <1>6 DEF Holds
  <2>. QED  BY <2>1, <2>2
<1>9. Expected(p)' = n
  BY <1>2, <1>3 DEF Expected
<1>10. Buffered'
  BY <1>2, <1>3, <1>6, <1>8, <1>9 DEF Buffered, Holds
<1>11. TypeOK'
  BY <1>2, <1>3, <1>6 DEF Inv, TypeOK
<1>12. Opened' /\ NoneRefused'
  BY <1>1, <1>2 DEF Opened, NoneRefused
<1>13. WholeCommands'
  BY <1>2 DEF Inv, LinkInv, WholeCommands, IsWhole
<1>. QED  BY <1>3, <1>10, <1>11, <1>12, <1>13 DEF Inv, LinkInv

\* The last segment makes the command whole.
LEMMA LastStep ==
    ASSUME Inv, NEW p \in Procs, NEW answer \in {"ok", "error"}, HandleLast(p, answer)
    PROVE  Inv'
<1>1. channel
  BY LinkAssumption DEF Inv, LinkInv, NoneRefused, HandleLast, Handle
<1>2. /\ Handle(p, "transmit", answer) /\ request[p].last /\ serving' = serving
      /\ executed' = Append(buffer, Of(p, request[p]))
      /\ channel' = channel /\ buffer' = <<>>
  BY <1>1 DEF HandleLast
<1>3. /\ life' \in [Procs -> {"new", "running", "gone"}]
      /\ request' \in [Procs -> Request]
      /\ unread' \in [Procs -> BOOLEAN]
      /\ reply' \in [Procs -> {"none", "ok", "error"}]
      /\ queue' \in Seq(Procs)
      /\ serving' \in Procs \cup {None}
      /\ Requests' /\ Waiting'
      /\ serving = p /\ request[p].func = "transmit" /\ request[p] \in Request
      /\ request' = request /\ ~unread'[p]
      /\ Holds(p, Expected(p))
  <2>1. serving' \in {p, None} /\ "transmit" \in Funcs
    BY <1>2 DEF Handle, Funcs
  <2>. QED  BY <1>2, <2>1, HandleFrame
<1>. DEFINE n == request[p].seg
            c == request[p].cmd
<1>4. n \in Nat /\ n - 1 \in Nat /\ n \in 1 .. MaxSegs /\ Holds(p, n - 1)
  <2>1. unread[p]
    BY <1>2 DEF Handle
  <2>2. Expected(p) = n - 1
    BY <1>3, <2>1 DEF Expected
  <2>3. n \in 1 .. MaxSegs
    BY <1>3 DEF Inv, LinkInv, Requests, RequestOK
  <2>. QED  BY <1>3, <2>2, <2>3, LinkAssumption
<1>5. Of(p, request[p]) \in Piece
  BY <1>3, PieceType
<1>6. /\ executed' \in Seq(Piece) /\ Len(executed') = n
      /\ \A k \in 1 .. n - 1 : executed'[k] = buffer[k]
      /\ executed'[n] = Of(p, request[p])
  BY <1>2, <1>4, <1>5, AppendProperties DEF Holds, Inv, TypeOK
<1>7. \A k \in 1 .. n : /\ executed'[k].proc = p
                        /\ executed'[k].req.cmd = c
                        /\ executed'[k].req.seg = k
                        /\ executed'[k].req.last <=> k = n
  <2>. TAKE k \in 1 .. n
  <2>1. CASE k = n
    <3>1. executed'[k].proc = p /\ executed'[k].req = request[p]
      BY <2>1, <1>3, <1>6, PieceType
    <3>. QED  BY <2>1, <3>1, <1>2
  <2>2. CASE k # n
    <3>1. k \in 1 .. n - 1 /\ k \in 0 .. MaxSegs /\ c \in 0 .. MaxCmds
      BY <2>2, <1>3, <1>4, RequestFields, LinkAssumption
    <3>2. executed'[k] = Of(p, Segment(c, k, FALSE))
      BY <3>1, <1>4, <1>6 DEF Holds
    <3>3. /\ Segment(c, k, FALSE) \in Request
          /\ Segment(c, k, FALSE).cmd = c /\ Segment(c, k, FALSE).seg = k
          /\ Segment(c, k, FALSE).last = FALSE
      BY <3>1, SegmentType
    <3>4. executed'[k].proc = p /\ executed'[k].req = Segment(c, k, FALSE)
      BY <3>2 DEF Of
    <3>. QED  BY <2>2, <3>3, <3>4
  <2>. QED  BY <2>1, <2>2
<1>8. WholeCommands'
  <2>1. 1 \in 1 .. n
    BY <1>4, LinkAssumption
  <2>. HIDE DEF n, c
  <2>2. executed'[1].proc = p /\ executed'[1].req.cmd = c
    BY <1>7, <2>1
  <2>. QED  BY <1>6, <1>7, <2>2 DEF WholeCommands, IsWhole
<1>9. Expected(p)' = 0
  BY <1>2, <1>3 DEF Expected
<1>10. Buffered'
  BY <1>2, <1>3, <1>9 DEF Buffered, Holds
<1>11. TypeOK'
  BY <1>2, <1>3, <1>6, EmptySeq DEF Inv, TypeOK
<1>12. Opened' /\ NoneRefused'
  BY <1>1, <1>2 DEF Opened, NoneRefused
<1>. QED  BY <1>3, <1>8, <1>10, <1>11, <1>12 DEF Inv, LinkInv

\* Every step keeps the invariant.
LEMMA InvStep == Inv /\ [Next]_vars => Inv'
<1>. SUFFICES ASSUME Inv, [Next]_vars PROVE Inv'
  OBVIOUS
<1>1. ASSUME NEW p \in Procs, Serve(p) PROVE Inv'
  <2>1. CASE HandleConnect(p)
    <3>1. /\ "connect" \in Funcs \ {"transmit"} /\ Handle(p, "connect", "ok")
          /\ channel' = FALSE /\ buffer' = <<>>
          /\ serving' \in {p, None} /\ executed' = executed
      BY <2>1 DEF HandleConnect, Handle, Funcs
    <3>. QED  BY <3>1, ControlStep
  <2>2. CASE HandleClose(p)
    <3>1. /\ "close" \in Funcs \ {"transmit"} /\ Handle(p, "close", "ok")
          /\ channel' = FALSE /\ buffer' = buffer
          /\ serving' \in {p, None} /\ executed' = executed
      BY <2>2 DEF HandleClose, Handle, Funcs
    <3>. QED  BY <3>1, ControlStep
  <2>3. CASE HandleDisconnect(p)
    <3>1. /\ "disconnect" \in Funcs \ {"transmit"} /\ Handle(p, "disconnect", "ok")
          /\ channel' = FALSE /\ buffer' = <<>>
          /\ serving' \in {p, None} /\ executed' = executed
      BY <2>3 DEF HandleDisconnect, Funcs
    <3>. QED  BY <3>1, ControlStep
  <2>4. ASSUME NEW isdr \in BOOLEAN, HandleOpen(p, isdr) PROVE Inv'
    <3>1. /\ "open" \in Funcs \ {"transmit"}
          /\ serving' \in {p, None} /\ buffer' = buffer /\ executed' = executed
      BY <2>4 DEF HandleOpen, Handle, Funcs
    <3>2. CASE isdr = TRUE
      <4>1. Handle(p, "open", "ok") /\ channel' = TRUE
        BY <2>4, <3>2 DEF HandleOpen
      <4>. QED  BY <3>1, <4>1, ControlStep
    <3>3. CASE isdr = FALSE
      <4>1. Handle(p, "open", "error") /\ channel' = channel
        BY <2>4, <3>3 DEF HandleOpen, Inv, TypeOK
      <4>2. channel' \in BOOLEAN
        BY <4>1 DEF Inv, TypeOK
      <4>. QED  BY <3>1, <4>1, <4>2, ControlStep
    <3>. QED  BY <3>2, <3>3
  <2>. QED  BY <1>1, <2>1, <2>2, <2>3, <2>4, SegmentStep, LastStep, DropStep DEF Serve
<1>2. CASE UNCHANGED vars
  <2>. USE <1>2 DEF vars, Inv, LinkInv
  <2>1. TypeOK' /\ Requests' /\ Waiting'
    BY DEF TypeOK, Requests, RequestOK, Waiting
  <2>2. Buffered' /\ Opened' /\ NoneRefused' /\ WholeCommands'
    BY DEF Buffered, Holds, Expected, Opened, NoneRefused, WholeCommands, IsWhole
  <2>. QED  BY <2>1, <2>2
<1>. QED
  BY <1>1, <1>2, StartStep, ContinueStep, EndStep, AcceptStep, RestartStep DEF Next

\* It holds of the initial state.
LEMMA InvInit == Init => Inv
<1>. SUFFICES ASSUME Init PROVE Inv
  OBVIOUS
<1>. USE DEF Init
<1>1. Call("connect") \in Request /\ Call("connect").func = "connect"
  BY CallType DEF Funcs
<1>2. TypeOK
  BY <1>1, EmptySeq DEF TypeOK
<1>3. Requests
  BY <1>1, LinkAssumption DEF Requests, RequestOK
<1>4. Waiting /\ Buffered /\ Opened /\ NoneRefused /\ WholeCommands
  BY EmptySeq DEF Waiting, Buffered, Opened, NoneRefused, WholeCommands, IsWhole
<1>. QED  BY <1>2, <1>3, <1>4 DEF Inv, LinkInv

\* So it is an invariant.
LEMMA Invariance == Spec => []Inv
BY InvInit, InvStep, PTL DEF Spec

-----------------------------------------------------------------------------
\* The processes, the socket and the daemon's state have their types.
THEOREM TypeCorrect == Spec => []TypeOK
<1>1. Inv => TypeOK
  BY DEF Inv
<1>. QED  BY Invariance, <1>1, PTL

\* However many processes share the card, and wherever they are killed, it
\* executes only commands that one of them sent as they are (apdu_handle_transmit).
THEOREM CommandsAreWhole == Spec => []WholeCommands
<1>1. Inv => WholeCommands
  BY DEF Inv, LinkInv
<1>. QED  BY Invariance, <1>1, PTL

\* ... and no process finds its channel closed by another (logic_channel).
THEOREM ChannelsStayOpen == Spec => []NoneRefused
<1>1. Inv => NoneRefused
  BY DEF Inv, LinkInv
<1>. QED  BY Invariance, <1>1, PTL

=============================================================================
