--------------------------- MODULE SecureChannel ---------------------------
(***************************************************************************)
(* GlobalPlatform secure channels of the shell: pySim/global_platform/     *)
(* scp.py (SCP02 and SCP03), secure_channel.py, and the commands of        *)
(* global_platform/__init__.py that go through them.  Host and card each   *)
(* count the commands they have authenticated, and under SCP03 the ones    *)
(* they have encrypted; a command is accepted only when the counts agree.  *)
(* A reader error leaves the two apart, and so does an exception raised    *)
(* between two counts.  Lengths are real, keys and contents are names.     *)
(* The card is external: it follows the GlobalPlatform specification.      *)
(***************************************************************************)
EXTENDS Integers, Sequences, FiniteSets

CONSTANTS
    Lengths,      \* data lengths of single commands, 0 to 255
    Contents,     \* lengths of what LOAD and STORE DATA carry
    MaxSessions,  \* bound: secure channels tried
    MaxFaults,    \* bound: reader errors
    MaxMac        \* bound: authenticated commands of a channel

Protocols == {"scp02", "scp03s8", "scp03s16"}

\* security_level, as the set of its bits.
Levels == {{}, {"cmac"}, {"cmac", "cenc"}, {"cmac", "rmac"}, {"cmac", "cenc", "rmac", "renc"}}

NoScp == [proto |-> "none"]
NoJob == [op |-> "none"]
NoWire == [kind |-> "none"]
NoSession == [sid |-> 0]

VARIABLES
    scp,       \* lchan.scc.scp
    trial,     \* the SCP instance of an establish_scp that is going on
    card,      \* the card's session
    wire,      \* a command on its way to the card, or its answer
    asked,     \* the command the shell is waiting for
    executed,  \* what the card has executed and the shell has no answer to yet
    job,       \* the LOAD or STORE DATA that is going on
    received,  \* octets of its content the card has
    sessions, faults,
    lost,      \* a command was lost or refused since the channel was established
    half       \* a command was given up with its counts half taken

vars == <<scp, trial, card, wire, asked, executed, job, received, sessions, faults, lost, half>>

Init ==
    /\ scp = NoScp /\ trial = NoScp /\ card = NoSession
    /\ wire = NoWire /\ asked = NoWire /\ executed = NoWire
    /\ job = NoJob /\ received = 0
    /\ sessions = 0 /\ faults = 0 /\ lost = FALSE /\ half = FALSE

\* self.overhead, s_mode.
MacLen(s) == IF s.proto = "scp03s16" THEN 16 ELSE 8
BlockSize(s) == IF s.proto = "scp02" THEN 8 ELSE 16

\* max_cmd_len of commands.py.
CmdLen == IF scp = NoScp THEN 255 ELSE 255 - MacLen(scp)

\* pad80: 80, then zeros to a multiple of the block size; at least one octet.
Pad80(n, bs) == n + bs - (n % bs)

-----------------------------------------------------------------------------
(* Establishing: INITIALIZE UPDATE, EXTERNAL AUTHENTICATE.                  *)

Free == wire = NoWire /\ asked = NoWire /\ trial = NoScp

Bounded == scp # NoScp => scp.mac < MaxMac /\ scp.nr < MaxMac

\* do_establish_scp02, do_establish_scp03: the key version has to be in the
\* range of the protocol (or 0), and there must be no channel yet.
EstablishScp(proto, level, kvnInRange) ==
    /\ Free /\ job = NoJob /\ scp = NoScp
    /\ kvnInRange
    /\ sessions < MaxSessions
    /\ sessions' = sessions + 1
    /\ trial' = [proto |-> proto, level |-> level, sid |-> sessions + 1, mac |-> 0, nr |-> 0]
    /\ wire' = [kind |-> "init", sid |-> sessions + 1, proto |-> proto]
    /\ UNCHANGED <<scp, card, asked, executed, job, received, faults, lost, half>>

\* External: the card starts a new session, whatever it had before.
CardInitUpdate ==
    /\ wire.kind = "init"
    /\ card' = [sid |-> wire.sid, proto |-> wire.proto, level |-> {}, mac |-> 0, nr |-> 0, auth |-> FALSE]
    /\ wire' = [kind |-> "initrsp", sid |-> wire.sid]
    /\ UNCHANGED <<scp, trial, asked, executed, job, received, sessions, faults, lost, half>>

\* parse_init_update_resp, gen_ext_auth_apdu.  sameKeys: the card's cryptogram is
\* the one computed.  R-MAC and R-ENC are not implemented for SCP02.  SCP03 sends
\* no MAC when the level has none.
ParseInitUpdate(sameKeys) ==
    /\ wire.kind = "initrsp"
    /\ IF ~sameKeys \/ (trial.proto = "scp02" /\ trial.level \cap {"rmac", "renc"} # {})
       THEN /\ trial' = NoScp /\ wire' = NoWire
       ELSE LET macs == trial.proto = "scp02" \/ "cmac" \in trial.level
            IN  /\ trial' = [trial EXCEPT !.mac = IF macs THEN 1 ELSE 0]
                /\ wire' = [kind |-> "auth", sid |-> trial.sid, level |-> trial.level, macs |-> macs]
    /\ UNCHANGED <<scp, card, asked, executed, job, received, sessions, faults, lost, half>>

\* External: EXTERNAL AUTHENTICATE needs its MAC.
CardExtAuth ==
    /\ wire.kind = "auth"
    /\ IF card.sid = wire.sid /\ wire.macs
       THEN /\ card' = [card EXCEPT !.level = wire.level, !.mac = 1, !.auth = TRUE]
            /\ wire' = [kind |-> "authrsp", ok |-> TRUE]
       ELSE /\ card' = NoSession
            /\ wire' = [kind |-> "authrsp", ok |-> FALSE]
    /\ UNCHANGED <<scp, trial, asked, executed, job, received, sessions, faults, lost, half>>

\* Mutant of Established: the reference is stored before the answer is known.
EstablishedEarly ==
    /\ wire.kind = "authrsp"
    /\ scp' = trial
    /\ trial' = NoScp /\ wire' = NoWire
    /\ lost' = FALSE /\ half' = FALSE
    /\ UNCHANGED <<card, asked, executed, job, received, sessions, faults>>

\* The reference to the SCP instance is stored last.
Established ==
    /\ wire.kind = "authrsp"
    /\ scp' = IF wire.ok THEN trial ELSE NoScp
    /\ trial' = NoScp /\ wire' = NoWire
    /\ lost' = FALSE /\ half' = FALSE
    /\ UNCHANGED <<card, asked, executed, job, received, sessions, faults>>

\* do_release_scp: the host forgets the channel, the card does not.
ReleaseScp ==
    /\ Free /\ job = NoJob /\ scp # NoScp
    /\ scp' = NoScp
    /\ UNCHANGED <<trial, card, wire, asked, executed, job, received, sessions, faults, lost, half>>

\* A reset of the card; the shell forgets the channels of all logical channels.
ResetCard ==
    /\ Free /\ job = NoJob
    /\ scp' = NoScp /\ card' = NoSession
    /\ UNCHANGED <<trial, wire, asked, executed, job, received, sessions, faults, lost, half>>

-----------------------------------------------------------------------------
(* send_apdu_wrapper.                                                       *)

Cenc(s) == "cenc" \in s.level

\* Under SCP02 data that is absent is padded and encrypted too.
Padded(s, c) ==
    IF ~Cenc(s) \/ (s.proto # "scp02" /\ c.case <= 2) THEN c.lc
    ELSE Pad80(c.lc, BlockSize(s))

\* Where _wrap_cmd_apdu raises: SCP03 asks for the padded length, then for the
\* length with the MAC; SCP02 fails to write a length of 256 in one octet.
Raises(s, c) ==
    IF s.proto = "scp02" THEN Padded(s, c) + 8 > 255
    ELSE Padded(s, c) >= 256 \/ Padded(s, c) + MacLen(s) >= 256

\* The counts that have been taken when it raises: SCP02 has computed the MAC,
\* unless the length did not fit without padding either; SCP03 has encrypted, unless
\* the padded length was too long already.
HalfDone(s, c) ==
    IF s.proto = "scp02" THEN IF c.lc + 8 > 255 THEN s ELSE [s EXCEPT !.mac = @ + 1]
    ELSE IF Cenc(s) /\ (c.case <= 2 \/ Padded(s, c) < 256) THEN [s EXCEPT !.nr = @ + 1]
    ELSE s

\* Mutant of Counted: a command without data is not counted.
CountedWithData(s, c) ==
    [s EXCEPT !.mac = @ + 1,
              !.nr = IF s.proto # "scp02" /\ Cenc(s) /\ c.case > 2 THEN @ + 1 ELSE @]

\* The counts after a command: every one is authenticated; under SCP03 with C-ENC
\* the encryption counter advances without data as well.
Counted(s, c) ==
    [s EXCEPT !.mac = @ + 1, !.nr = IF s.proto # "scp02" /\ Cenc(s) THEN @ + 1 ELSE @]

Plain(c) == [kind |-> "cmd", sm |-> FALSE, cmd |-> c]

Wrapped(s, c) ==
    LET t == Counted(s, c)
    IN  [kind |-> "cmd", sm |-> TRUE, cmd |-> c, sid |-> s.sid, mac |-> t.mac, nr |-> t.nr]

\* wrap_cmd_apdu and the sending: only commands with CLA 8x are protected, and
\* only at a level with C-MAC.
Send(c) ==
    IF scp = NoScp \/ ~c.gp \/ "cmac" \notin scp.level
    THEN wire' = Plain(c) /\ asked' = c /\ UNCHANGED <<scp, half>>
    ELSE IF Raises(scp, c)
    THEN /\ scp' = HalfDone(scp, c)
         /\ half' = (half \/ scp' # scp)
         /\ wire' = NoWire /\ asked' = NoWire
    ELSE /\ scp' = Counted(scp, c)
         /\ wire' = Wrapped(scp, c) /\ asked' = c
         /\ UNCHANGED half

Command(gp, case, lc) == [gp |-> gp, case |-> case, lc |-> lc, last |-> TRUE, block |-> 0]

\* One command: PUT KEY, INSTALL, DELETE, SET STATUS, GET STATUS, GET DATA, or one
\* that is not GlobalPlatform's.
Single(gp, case, lc) ==
    /\ Free /\ Bounded /\ job = NoJob
    /\ (case <= 2) = (lc = 0)
    /\ Send(Command(gp, case, lc))
    /\ UNCHANGED <<trial, card, executed, job, received, sessions, faults, lost>>

\* do_put_key: encrypt_key pads a key by as many octets as its length is over a
\* multiple of the block size, and the cipher takes whole blocks only.
PutKey(len) ==
    /\ Free /\ Bounded /\ job = NoJob
    /\ scp # NoScp => (len + (len % BlockSize(scp))) % BlockSize(scp) = 0
    /\ Send(Command(TRUE, 4, len + 4))
    /\ UNCHANGED <<trial, card, executed, job, received, sessions, faults, lost>>

-----------------------------------------------------------------------------
\* External: what the card does with a command.  In a session with C-MAC it takes
\* nothing else; a wrong MAC ends the session.
Accepts(w) ==
    IF card.sid = 0 \/ ~card.auth \/ "cmac" \notin card.level THEN ~w.sm
    ELSE IF ~w.cmd.gp THEN TRUE
    ELSE /\ w.sm /\ w.sid = card.sid /\ w.mac = card.mac + 1

\* External: the card's counts after a command.
CardCounted(w) ==
    [card EXCEPT !.mac = @ + 1,
                 !.nr = IF card.proto # "scp02" /\ "cenc" \in card.level THEN @ + 1 ELSE @]

\* External: the text is what was sent when both used the same counter.
Understood(w) == ~w.sm \/ w.cmd.case <= 2 \/ w.nr = CardCounted(w).nr

CardExecutes(sw) ==
    /\ wire.kind = "cmd"
    /\ IF Accepts(wire)
       THEN /\ card' = IF wire.sm THEN CardCounted(wire) ELSE card
            /\ executed' = IF Understood(wire) THEN wire.cmd ELSE [wire.cmd EXCEPT !.lc = -1]
            /\ received' = IF job = NoJob \/ sw = "error" \/ ~Understood(wire) THEN received
                           ELSE received + wire.cmd.lc
            /\ wire' = [kind |-> "rsp", sw |-> sw, sm |-> wire.sm /\ sw # "error"]
       ELSE /\ card' = NoSession
            /\ wire' = [kind |-> "rsp", sw |-> "error", sm |-> FALSE]
            /\ UNCHANGED <<executed, received>>
    /\ UNCHANGED <<scp, trial, asked, job, sessions, faults, lost, half>>

\* Where unwrap_rsp_apdu raises: at an answer without an R-MAC, as one has that is
\* not to a GlobalPlatform command, and at an empty one, which it unpads as well.
\* An error answer is let through as it is.
Rejected(empty) ==
    /\ scp # NoScp /\ "rmac" \in scp.level /\ wire.sw # "error"
    /\ ~wire.sm \/ ("renc" \in scp.level /\ empty)

\* unwrap_rsp_apdu and the check of the status word.  A block's failure ends the
\* LOAD or STORE DATA.
Answer(empty) ==
    /\ wire.kind = "rsp"
    /\ job' = IF job = NoJob \/ wire.sw = "error" \/ Rejected(empty) THEN NoJob
              ELSE [job EXCEPT !.left = @ - asked.lc, !.block = @ + 1]
    /\ lost' = (lost \/ card = NoSession)
    /\ wire' = NoWire /\ asked' = NoWire /\ executed' = NoWire
    /\ received' = IF job' = NoJob THEN 0 ELSE received
    /\ UNCHANGED <<scp, trial, card, sessions, faults, half>>

\* The command or its answer is lost: send_fn raises, the instance stays as it is.
ReaderError ==
    /\ wire # NoWire /\ faults < MaxFaults
    /\ faults' = faults + 1
    /\ wire' = NoWire /\ asked' = NoWire /\ trial' = NoScp
    /\ job' = NoJob /\ received' = 0 /\ executed' = NoWire
    /\ lost' = TRUE
    /\ UNCHANGED <<scp, card, sessions, half>>

-----------------------------------------------------------------------------
\* load and store_data: the content in blocks, the last one marked.
Begin(op, n) ==
    /\ Free /\ Bounded /\ job = NoJob
    /\ job' = [op |-> op, left |-> n, total |-> n, block |-> 0,
               chunk |-> IF op = "load" THEN 240 ELSE CmdLen]
    /\ received' = 0
    /\ UNCHANGED <<scp, trial, card, wire, asked, executed, sessions, faults, lost, half>>

BlockLen == IF job.left < job.chunk THEN job.left ELSE job.chunk

\* One block.  An exception in wrapping it ends the job.
SendBlock ==
    /\ Free /\ job # NoJob /\ job.left > 0
    /\ LET c == [Command(TRUE, 4, BlockLen) EXCEPT !.last = (job.left = BlockLen),
                                                    !.block = job.block % 256]
       IN  Send(c)
    /\ job' = IF asked' = NoWire THEN NoJob ELSE job
    /\ received' = IF asked' = NoWire THEN 0 ELSE received
    /\ UNCHANGED <<trial, card, executed, sessions, faults, lost>>

\* "Loaded a total of ... bytes".
Loaded ==
    /\ Free /\ job # NoJob /\ job.left <= 0
    /\ job' = NoJob /\ received' = 0
    /\ UNCHANGED <<scp, trial, card, wire, asked, executed, sessions, faults, lost, half>>

Next ==
    \/ \E p \in Protocols, l \in Levels, k \in BOOLEAN : EstablishScp(p, l, k)
    \/ CardInitUpdate \/ CardExtAuth \/ Established \/ ReleaseScp \/ ResetCard
    \/ \E same \in BOOLEAN : ParseInitUpdate(same)
    \/ \E gp \in BOOLEAN, case \in 1..4, lc \in Lengths : Single(gp, case, lc)
    \/ \E len \in {16, 24} : PutKey(len)
    \/ \E sw \in {"ok", "error"} : CardExecutes(sw)
    \/ \E empty \in BOOLEAN : Answer(empty)
    \/ ReaderError
    \/ \E op \in {"load", "store"}, n \in Contents : Begin(op, n)
    \/ SendBlock \/ Loaded

Spec == Init /\ [][Next]_vars

-----------------------------------------------------------------------------
(* Properties. *)

\* As long as no command was lost and none was given up half done, the counts of
\* the shell and of the card agree whenever nothing is on its way (send_apdu_wrapper).
InStep ==
    ~lost /\ ~half /\ scp # NoScp /\ wire = NoWire
        => card.sid = scp.sid /\ card.auth /\ card.mac = scp.mac /\ card.nr = scp.nr

\* An exception has left only the encryption counter advanced, and there is no way
\* back: every further command of the session is encrypted with another counter
\* than the card decrypts it with (SCP03._wrap_cmd_apdu).
Garbling == half /\ scp # NoScp /\ scp.proto # "scp02" /\ Cenc(scp)

\* A LOAD or STORE DATA that reaches its end has left all of the content with the
\* card, in a channel or not, unless the session garbles (load, store_data).
LoadedWhole ==
    job # NoJob /\ job.left <= 0 /\ wire = NoWire => received = job.total \/ Garbling

\* What the card executes in a session is what the shell meant, after losses and
\* after exceptions: the MAC is counted with every command the encryption counter
\* is (_wrap_cmd_apdu).  The exception is a command with data in a session that
\* garbles: the card accepts its MAC and executes something else.
ExecutedAsAsked ==
    /\ wire.kind = "rsp" /\ wire.sm /\ (asked.case <= 2 \/ ~Garbling) => executed = asked
    /\ LoadedWhole

\* What one would expect instead.
NeverGarbled == wire.kind = "rsp" /\ wire.sm => executed = asked

\* What the docstring of max_cmd_len says: "Maximum length of the command apdu
\* data section. Depends on secure channel protocol used."
AllowedIsSent ==
    \A lc \in 1..CmdLen :
        scp # NoScp => ~Raises(scp, Command(TRUE, 3, lc))

=============================================================================
