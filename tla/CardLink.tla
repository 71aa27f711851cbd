------------------------------ MODULE CardLink ------------------------------
(***************************************************************************)
(* The link between lpac and the virtual card.  Several lpac processes     *)
(* connect to the daemon's socket; it serves one connection at a time and  *)
(* the others wait in the listen queue.  lpac cuts an ES10x command into   *)
(* segments of at most es10x_mss octets, sends one at a time and waits for *)
(* its answer; the daemon collects the segments in segment_buffer, which   *)
(* is part of the global state, and executes the command when the last one *)
(* arrives.  Neither side looks at segment numbers.                        *)
(*                                                                         *)
(* lpac is started by the GUI and by the MNO console, each of which kills  *)
(* it when it takes too long, so a process can die anywhere, also between  *)
(* two segments and with a request under way that the daemon still reads.  *)
(***************************************************************************)
EXTENDS Integers, Sequences

CONSTANTS
    Procs,      \* lpac processes
    None,
    MaxCmds,    \* bound: commands a process sends
    MaxSegs     \* bound: segments of a command

ASSUME LinkAssumption ==
    None \notin Procs /\ MaxCmds \in Nat \ {0} /\ MaxSegs \in Nat \ {0}

VARIABLES
    life,       \* of a process: new, running, or gone
    request,    \* the request it made last
    unread,     \* the daemon has not read it yet
    reply,      \* the answer it has not read yet
    queue,      \* connections not accepted yet
    serving,    \* the process handle_client serves
    channel,    \* logic_channel >= 0
    buffer,     \* segment_buffer
    executed    \* the command process_es10x_command was called with last

vars == <<life, request, unread, reply, queue, serving, channel, buffer, executed>>
lpacVars == <<life, request>>
daemonVars == <<queue, serving, channel, buffer, executed>>

-----------------------------------------------------------------------------
Funcs == {"connect", "open", "transmit", "close", "disconnect"}

\* A request; the fields of a segment are 0 in the others.
Request == [func : Funcs, cmd : 0 .. MaxCmds, seg : 0 .. MaxSegs, last : BOOLEAN]

Call(func) == [func |-> func, cmd |-> 0, seg |-> 0, last |-> FALSE]
Segment(c, k, last) == [func |-> "transmit", cmd |-> c, seg |-> k, last |-> last]

\* A segment in the buffer, with the process it came from.
Piece == [proc : Procs, req : Request]
Of(p, r) == [proc |-> p, req |-> r]

TypeOK ==
    /\ life \in [Procs -> {"new", "running", "gone"}]
    /\ request \in [Procs -> Request]
    /\ unread \in [Procs -> BOOLEAN]
    /\ reply \in [Procs -> {"none", "ok", "error"}]
    /\ queue \in Seq(Procs)
    /\ serving \in Procs \cup {None}
    /\ channel \in BOOLEAN
    /\ buffer \in Seq(Piece)
    /\ executed \in Seq(Piece)

Init ==
    /\ life = [p \in Procs |-> "new"]
    /\ request = [p \in Procs |-> Call("connect")]
    /\ unread = [p \in Procs |-> FALSE]
    /\ reply = [p \in Procs |-> "none"]
    /\ queue = <<>>
    /\ serving = None
    /\ channel = FALSE
    /\ buffer = <<>>
    /\ executed = <<>>

-----------------------------------------------------------------------------
(* lpac. *)

\* euicc_init: the socket is connected and "connect" is sent.
Start(p) ==
    /\ life[p] = "new"
    /\ life' = [life EXCEPT ![p] = "running"]
    /\ unread' = [unread EXCEPT ![p] = TRUE]
    /\ queue' = Append(queue, p)
    /\ UNCHANGED <<request, reply, serving, channel, buffer, executed>>

\* The segments that can follow segment k of command c: the command is as long
\* as the segment after which it ends.
Segments(c, k) == {Segment(c, k, last) : last \in BOOLEAN} \ {Segment(c, MaxSegs, FALSE)}

\* After command c (or the channel was opened, c = 0): another command, or the
\* end of the applet and euicc_fini.
Commands(c) == {Call("close")} \cup (IF c < MaxCmds THEN Segments(c + 1, 1) ELSE {})

\* Mutant of Following: euicc_init goes on when the channel was not opened.
FollowingUnopened(r, a) ==
    CASE r.func = "connect" -> {Call("open")}
      [] r.func = "open" -> Commands(0)
      [] r.func = "transmit" -> IF a = "ok" /\ ~r.last THEN Segments(r.cmd, r.seg + 1)
                                ELSE Commands(r.cmd)
      [] r.func = "close" -> {Call("disconnect")}
      [] OTHER -> {}

\* What a process can send after the answer a to its request r.  A command that
\* fails is given up; an applet may send another one (it cancels the session).
Following(r, a) ==
    CASE r.func = "connect" -> {Call("open")}
      [] r.func = "open" -> IF a = "ok" THEN Commands(0) ELSE {Call("disconnect")}
      [] r.func = "transmit" -> IF a = "ok" /\ ~r.last THEN Segments(r.cmd, r.seg + 1)
                                ELSE Commands(r.cmd)
      [] r.func = "close" -> {Call("disconnect")}
      [] OTHER -> {}

\* The answer arrives and the next request is sent ...
Continue(p) ==
    /\ life[p] = "running" /\ reply[p] # "none"
    /\ \E r \in Following(request[p], reply[p]) : request' = [request EXCEPT ![p] = r]
    /\ unread' = [unread EXCEPT ![p] = TRUE]
    /\ reply' = [reply EXCEPT ![p] = "none"]
    /\ UNCHANGED <<life, daemonVars>>

\* ... or, after the last one, the process ends.
Exit(p) ==
    /\ life[p] = "running" /\ reply[p] # "none"
    /\ request[p].func = "disconnect"
    /\ life' = [life EXCEPT ![p] = "gone"]
    /\ reply' = [reply EXCEPT ![p] = "none"]
    /\ UNCHANGED <<request, unread, daemonVars>>

\* The process is killed.  A request it has sent is still in the socket.
Kill(p) ==
    /\ life[p] = "running"
    /\ life' = [life EXCEPT ![p] = "gone"]
    /\ reply' = [reply EXCEPT ![p] = "none"]
    /\ UNCHANGED <<request, unread, daemonVars>>

-----------------------------------------------------------------------------
(* The daemon. *)

Accept ==
    /\ serving = None /\ queue # <<>>
    /\ serving' = Head(queue)
    /\ queue' = Tail(queue)
    /\ UNCHANGED <<lpacVars, unread, reply, channel, buffer, executed>>

\* handle_client reads a request of the process it serves and answers it; the
\* answer to a process that is gone is lost.
Handle(p, func, answer) ==
    /\ serving = p /\ unread[p] /\ request[p].func = func
    /\ unread' = [unread EXCEPT ![p] = FALSE]
    /\ reply' = [reply EXCEPT ![p] = IF life[p] = "running" THEN answer ELSE "none"]
    /\ UNCHANGED <<lpacVars, queue>>

\* Mutant of HandleConnect: the state of the last client is kept.
HandleConnectKeeping(p) ==
    /\ Handle(p, "connect", "ok")
    /\ channel' = FALSE
    /\ UNCHANGED <<serving, buffer, executed>>

\* euicc_state_init clears the buffer with everything else.
HandleConnect(p) ==
    /\ Handle(p, "connect", "ok")
    /\ channel' = FALSE /\ buffer' = <<>>
    /\ UNCHANGED <<serving, executed>>

\* An AID other than the ISD-R's, which lpac can be told to use, is an error.
HandleOpen(p, isdr) ==
    /\ Handle(p, "open", IF isdr THEN "ok" ELSE "error")
    /\ channel' = (isdr \/ channel)
    /\ UNCHANGED <<serving, buffer, executed>>

HandleClose(p) ==
    /\ Handle(p, "close", "ok")
    /\ channel' = FALSE
    /\ UNCHANGED <<serving, buffer, executed>>

\* Afterwards handle_client compares memory it has freed with "disconnect": the
\* connection is closed now, or when lpac closes its end.
HandleDisconnect(p) ==
    /\ Handle(p, "disconnect", "ok")
    /\ channel' = FALSE /\ buffer' = <<>>
    /\ serving' \in {p, None}
    /\ UNCHANGED executed

\* apdu_handle_transmit refuses a segment when no channel is open.  One that is
\* not the last is buffered.
HandleSegment(p) ==
    /\ ~request[p].last
    /\ Handle(p, "transmit", IF channel THEN "ok" ELSE "error")
    /\ buffer' = IF channel THEN Append(buffer, Of(p, request[p])) ELSE buffer
    /\ UNCHANGED <<serving, channel, executed>>

\* The last segment: what was buffered and the segment are one command, which
\* is executed and answered, or fails.
HandleLast(p, answer) ==
    /\ request[p].last
    /\ Handle(p, "transmit", IF channel THEN answer ELSE "error")
    /\ executed' = IF channel THEN Append(buffer, Of(p, request[p])) ELSE executed
    /\ buffer' = IF channel THEN <<>> ELSE buffer
    /\ UNCHANGED <<serving, channel>>

\* Mutant of Drop: only a process that has disconnected is noticed to be gone.
DropDisconnected(p) ==
    /\ serving = p /\ life[p] = "gone" /\ ~unread[p]
    /\ request[p].func = "disconnect"
    /\ serving' = None
    /\ UNCHANGED <<lpacVars, unread, reply, queue, channel, buffer, executed>>

\* The process has closed its end: recv_line fails and handle_client returns.
Drop(p) ==
    /\ serving = p /\ life[p] = "gone" /\ ~unread[p]
    /\ serving' = None
    /\ UNCHANGED <<lpacVars, unread, reply, queue, channel, buffer, executed>>

\* The daemon ends, by a signal (SIGPIPE of the second send of an answer to a
\* dead client among them), and is started again: every process fails.
Restart ==
    /\ life' = [p \in Procs |-> IF life[p] = "running" THEN "gone" ELSE life[p]]
    /\ unread' = [p \in Procs |-> FALSE]
    /\ reply' = [p \in Procs |-> "none"]
    /\ queue' = <<>> /\ serving' = None
    /\ channel' = FALSE /\ buffer' = <<>>
    /\ UNCHANGED <<request, executed>>

-----------------------------------------------------------------------------
Serve(p) ==
    \/ HandleConnect(p) \/ HandleClose(p) \/ HandleDisconnect(p)
    \/ \E isdr \in BOOLEAN : HandleOpen(p, isdr)
    \/ HandleSegment(p)
    \/ \E answer \in {"ok", "error"} : HandleLast(p, answer)
    \/ Drop(p)

Next ==
    \/ \E p \in Procs : Start(p) \/ Continue(p) \/ Exit(p) \/ Kill(p) \/ Serve(p)
    \/ Accept
    \/ Restart

\* The daemon goes on with the client it serves, and a running lpac, which does
\* nothing but call, wait for the answer and call again, goes on when it has one.
Fairness ==
    /\ WF_vars(Accept)
    /\ \A p \in Procs : WF_vars(Serve(p)) /\ WF_vars(Continue(p) \/ Exit(p))

Spec == Init /\ [][Next]_vars

LiveSpec == Spec /\ Fairness

-----------------------------------------------------------------------------
(* Properties. *)

\* All segments of one command of one process, in order, and nothing else.
IsWhole(s) ==
    \A k \in 1 .. Len(s) :
        /\ s[k].proc = s[1].proc
        /\ s[k].req.cmd = s[1].req.cmd
        /\ s[k].req.seg = k
        /\ s[k].req.last <=> k = Len(s)

\* The card executes only commands that one lpac process sent as they are, from
\* the first to the last segment, although segments of a process that died stay
\* in the buffer (apdu_handle_transmit, apdu_handle_connect).
WholeCommands == IsWhole(executed)

\* No segment is refused for want of a channel: no process finds the channel it
\* opened closed by the close, the disconnect or the death of another one, which
\* all act on the one logic_channel (apdu_handle_transmit).
NoneRefused ==
    serving # None /\ request[serving].func = "transmit" => channel

\* What makes it inductive.  The requests are what the code can send ...
RequestOK(r) ==
    r.func = "transmit" => /\ r.seg \in 1 .. MaxSegs
                           /\ ~r.last => r.seg < MaxSegs

Requests ==
    \A p \in Procs :
        /\ RequestOK(request[p])
        /\ life[p] = "new" => /\ p # serving /\ reply[p] = "none"
                              /\ request[p] = Call("connect")
        /\ request[p].func = "transmit" /\ reply[p] = "error" => request[p].last
        /\ unread[p] => reply[p] = "none"

\* ... a connection in the queue is there once, and begins with "connect" ...
Waiting ==
    /\ \A i \in 1 .. Len(queue) :
          LET p == queue[i]
          IN  /\ p # serving /\ life[p] # "new"
              /\ request[p] = Call("connect") /\ unread[p] /\ reply[p] = "none"
    /\ \A i, j \in 1 .. Len(queue) : queue[i] = queue[j] => i = j

\* ... and once the daemon has read that, the buffer holds the segments of the
\* served process's command that precede its next one.
Expected(p) ==
    IF request[p].func # "transmit" THEN 0
    ELSE IF unread[p] THEN request[p].seg - 1
    ELSE IF request[p].last THEN 0
    ELSE request[p].seg

Holds(p, n) ==
    /\ Len(buffer) = n
    /\ \A k \in 1 .. n : buffer[k] = Of(p, Segment(request[p].cmd, k, FALSE))

Buffered ==
    serving # None =>
        \/ request[serving].func = "connect" /\ unread[serving]
        \/ Holds(serving, Expected(serving))

\* The channel a process was told to be open is open.
Opened ==
    serving # None /\ request[serving].func = "open" /\ reply[serving] = "ok" => channel

LinkInv == Requests /\ Waiting /\ Buffered /\ Opened /\ NoneRefused /\ WholeCommands

\* Every lpac process that connected ends, whichever processes before it were
\* killed, and wherever: the daemon does not stay with a dead client, and no two
\* sides wait for each other (handle_client, recv_line).
EveryoneEnds == \A p \in Procs : life[p] = "running" ~> life[p] = "gone"

=============================================================================
