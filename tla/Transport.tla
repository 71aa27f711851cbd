----------------------------- MODULE Transport -----------------------------
(***************************************************************************)
(* One command to the card through pySim/transport/__init__.py: the T=0    *)
(* procedure (GET RESPONSE, the repeat with the right length), the check   *)
(* of the status word, and the commands the card itself sends (91xx):      *)
(* FETCH, the handler, TERMINAL RESPONSE, until the card has no more.      *)
(* Octets of an answer are numbered, a status word is its first octet.     *)
(***************************************************************************)
EXTENDS Naturals, Sequences

CONSTANTS
    MaxAnswer,   \* bound: octets of an answer
    Block,       \* octets the card sends at a time
    MaxPro,      \* bound: proactive commands the card has
    HasHandler   \* is a proactive_handler set?

VARIABLES
    pc,        \* next step of the host
    cmd,       \* the command: case, Le, the answer it has, its result
    strict,    \* apdu_strict
    data, sw,  \* answer so far, last status word
    dropped,   \* octets that were got and then replaced by a repeat
    rv,        \* answer and status of the command, as the loop keeps it
    sent,      \* card: octets of the answer sent
    pro,       \* card: proactive commands waiting
    fetched    \* card: one was fetched and not answered

vars == <<pc, cmd, strict, data, sw, dropped, rv, sent, pro, fetched>>

NoCmd == [case |-> 1, le |-> 0, n |-> 0, res |-> "90"]
Commands ==
    {c \in [case : 1..4, le : 0..MaxAnswer, n : 0..MaxAnswer, res : {"90", "62", "63", "6f"}] :
       /\ c.case \in {1, 3} => c.le = 0
       /\ c.case = 1 => c.n = 0
       /\ c.case \in {2, 4} => c.le > 0 /\ c.n > 0}
NoAnswer == [data |-> <<>>, sw |-> "none"]

Init ==
    /\ pc = "idle" /\ cmd = NoCmd /\ strict \in BOOLEAN
    /\ data = <<>> /\ sw = "none" /\ dropped = 0 /\ rv = NoAnswer
    /\ sent = 0 /\ pro = 0 /\ fetched = FALSE

-----------------------------------------------------------------------------
(* The card (external). *)

\* The commands the card carried out, with or without a warning (62xx).
Good == {"90", "62"}

\* How a command ends: with success it may announce a proactive command.
Final(res, waiting) == IF res = "90" /\ waiting > 0 THEN "91" ELSE res
Piece(from) ==
    [i \in 1..(IF cmd.n - from < Block THEN cmd.n - from ELSE Block) |-> from + i]

\* send_tpdu of the command: case 2 is answered when Le is right, else with
\* the right one (6c); a longer or a case 4 answer is announced (61, 9f, or the
\* warning alone).
CardExecutes(c, waiting) ==
    CASE c.res \notin Good -> [data |-> <<>>, sw |-> c.res, sent |-> 0]
      [] c.res \in Good /\ c.case = 2 /\ c.le = c.n /\ c.n <= Block ->
           [data |-> [i \in 1..c.n |-> i], sw |-> Final(c.res, waiting), sent |-> c.n]
      [] c.res \in Good /\ c.case = 2 /\ c.le # c.n /\ c.n <= Block ->
           [data |-> <<>>, sw |-> "6c", sent |-> 0]
      [] c.res \in Good /\ c.n > 0 /\ (c.case # 2 \/ c.n > Block) ->
           [data |-> <<>>, sw |-> IF c.res = "62" THEN "62" ELSE "61", sent |-> 0]
      [] OTHER -> [data |-> <<>>, sw |-> Final(c.res, waiting), sent |-> 0]

\* It has something to give to a GET RESPONSE.
Has == cmd.res \in Good /\ sent < cmd.n

\* With a piece it says whether there is more, or warns instead.
AfterPiece(s) == {"62", IF s < cmd.n THEN "61" ELSE Final("90", pro)}

-----------------------------------------------------------------------------
(* The host. *)

\* send_apdu_checksw begins: the card has `waiting` commands of its own.
Send(c, waiting) ==
    /\ pc = "idle"
    /\ ~fetched
    /\ LET a == CardExecutes(c, waiting)
       IN  data' = a.data /\ sw' = a.sw /\ sent' = a.sent
    /\ cmd' = c
    /\ pro' = waiting
    /\ pc' = "t0"
    /\ rv' = NoAnswer
    /\ UNCHANGED <<strict, dropped, fetched>>

More == {"61", "62", "63", "9f"}

\* Mutant of GetResponse: the data of the last GET RESPONSE replace the rest.
GetResponseLast ==
    /\ pc = "t0" /\ sw \in More
    /\ \/ ~Has /\ sw' = "6f" /\ UNCHANGED <<data, sent>>
       \/ Has /\ sw' = "6c" /\ UNCHANGED <<data, sent>>
       \/ /\ Has
          /\ data' = Piece(sent)
          /\ sent' = sent + Len(Piece(sent))
          /\ sw' \in AfterPiece(sent')
    /\ UNCHANGED <<pc, cmd, strict, dropped, rv, pro, fetched>>

\* __send_apdu_T0: while the status word says (or seems to say) there is more.
\* A card that has nothing to give refuses; one that has may ask for another
\* length.
GetResponse ==
    /\ pc = "t0" /\ sw \in More
    /\ \/ ~Has /\ sw' = "6f" /\ UNCHANGED <<data, sent>>
       \/ Has /\ sw' = "6c" /\ UNCHANGED <<data, sent>>
       \/ /\ Has
          /\ data' = data \o Piece(sent)
          /\ sent' = sent + Len(Piece(sent))
          /\ sw' \in AfterPiece(sent')
    /\ UNCHANGED <<pc, cmd, strict, dropped, rv, pro, fetched>>

\* Mutant of Resend: the length the card asks for is not taken.
ResendSame == pc = "t0" /\ sw = "6c" /\ UNCHANGED vars

\* __send_apdu_T0: the last TPDU, the command or a GET RESPONSE, once more with
\* the length the card asks for.  What it returns replaces all that was got
\* before, and its status word is looked at no more: the card may announce more
\* or ask again.
Resend ==
    /\ pc = "t0" /\ sw = "6c"
    /\ \/ sw' \in {"61", "6c"} /\ data' = <<>> /\ UNCHANGED sent
       \/ /\ data' = Piece(sent)
          /\ sent' = sent + Len(Piece(sent))
          /\ sw' \in AfterPiece(sent')
    /\ dropped' = Len(data)
    /\ pc' = "resent"
    /\ UNCHANGED <<cmd, strict, rv, pro, fetched>>

\* send_apdu: data that the case does not allow are an error if strict.
Unexpected == data # <<>> /\ cmd.case \in {1, 3} /\ strict

T0Done ==
    /\ pc = "resent" \/ (pc = "t0" /\ sw \notin More \union {"6c"})
    /\ pc' = IF Unexpected THEN "raised" ELSE "check"
    /\ UNCHANGED <<cmd, strict, data, sw, dropped, rv, sent, pro, fetched>>

\* send_apdu_checksw: the command itself was successful, the rest is FETCHed.
Proactive ==
    /\ pc = "check" /\ sw = "91"
    /\ rv' = IF rv.sw = "none" THEN [data |-> data, sw |-> "90"] ELSE rv
    /\ pc' = "fetch"
    /\ UNCHANGED <<cmd, strict, data, sw, dropped, sent, pro, fetched>>

\* FETCH goes the same way; refused, it raises in the middle.
Fetch ==
    /\ pc = "fetch"
    /\ \/ pro' = pro - 1 /\ fetched' = TRUE /\ sw' = "90" /\ pc' = "handle"
       \/ sw' = "6f" /\ pc' = "raised" /\ UNCHANGED <<pro, fetched>>
    /\ UNCHANGED <<cmd, strict, data, dropped, rv, sent>>

\* The handler answers or raises; without one the answer cannot be made, for
\* it is the handler's method that makes it.
Handle(raises) ==
    /\ pc = "handle"
    /\ pc' = IF raises \/ ~HasHandler THEN "raised" ELSE "respond"
    /\ UNCHANGED <<cmd, strict, data, sw, dropped, rv, sent, pro, fetched>>

\* Mutant of TerminalResponse: its status word is not looked at.
TerminalResponseLast ==
    /\ pc = "respond"
    /\ fetched' = FALSE
    /\ sw' = "90"
    /\ pc' = "check"
    /\ UNCHANGED <<cmd, strict, data, dropped, rv, sent, pro>>

\* The card takes the answer and may have a further command, or refuses it, or
\* takes it with a warning, which a refused GET RESPONSE replaces.
TerminalResponse ==
    /\ pc = "respond"
    /\ \/ fetched' = FALSE /\ sw' \in {Final("90", pro), "6f"}
       \/ sw' = "6f" /\ UNCHANGED fetched
    /\ pc' = "check"
    /\ UNCHANGED <<cmd, strict, data, dropped, rv, sent, pro>>

\* The status word of the command is checked against 9000; the one of a TERMINAL
\* RESPONSE is not.
Check ==
    /\ pc = "check" /\ sw # "91"
    /\ rv' = IF rv.sw = "none" THEN [data |-> data, sw |-> sw] ELSE rv
    /\ pc' = IF rv'.sw = "90" THEN "returned" ELSE "raised"
    /\ UNCHANGED <<cmd, strict, data, sw, dropped, sent, pro, fetched>>

\* The caller goes on; a card left in the middle is reset.
Again ==
    /\ pc \in {"returned", "raised"}
    /\ pc' = "idle" /\ cmd' = NoCmd
    /\ data' = <<>> /\ sw' = "none" /\ dropped' = 0 /\ rv' = NoAnswer
    /\ sent' = 0 /\ pro' = 0 /\ fetched' = FALSE
    /\ UNCHANGED strict

Step == GetResponse \/ Resend \/ T0Done \/ Proactive \/ Fetch \/ TerminalResponse \/ Check
        \/ \E raises \in BOOLEAN : Handle(raises)

Next == (\E c \in Commands, w \in 0..MaxPro : Send(c, w)) \/ Step \/ Again

Fairness == WF_vars(Step)

Spec == Init /\ [][Next]_vars /\ Fairness

\* What is returned is the answer of the command itself, in its order, to its
\* last octet, however many GET RESPONSE and FETCH there were; octets are missing
\* only at its beginning, and only those a GET RESPONSE repeated with another
\* length has replaced.
AnswerWhole ==
    pc = "returned" => /\ rv.data = [i \in 1..(cmd.n - dropped) |-> dropped + i]
                       /\ cmd.res \in Good

\* A command that returns leaves no proactive command waiting or unanswered,
\* unless its last TERMINAL RESPONSE was not answered with 9000.
AllAnswered == pc = "returned" /\ (pro > 0 \/ fetched) => sw = "6f"

\* Nothing of an answer is lost: not so where a GET RESPONSE in the middle of one is
\* repeated.
NothingDropped == pc = "returned" => dropped = 0

\* Every command ends.
Ends == pc = "t0" ~> pc \in {"returned", "raised"}

\* A refused PIN is reported with the status word that tells the tries left
\* (_chv_process_sw); over T=0 the GET RESPONSE it causes hides it.
StatusReported == pc = "raised" /\ cmd.res = "63" => sw = "63"

=============================================================================
