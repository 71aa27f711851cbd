------------------------------- MODULE MCSafe -------------------------------
(***************************************************************************)
(* For TLC: small instances of parts that keep two records of one thing,   *)
(* side by side.  The files of a card (FileAccess), a stack of cards that  *)
(* is programmed (Programming), a secure channel (SecureChannel), the      *)
(* device with its two masters (Device), the reader's commands (Transport) *)
(* and the processes (Processes).  A behaviour is one of one part, which   *)
(* `at' names; the others stay as they are in the beginning.               *)
(***************************************************************************)
EXTENDS Integers, Sequences, FiniteSets, TLC

CONSTANTS
    Octets, Size, RecLen, MaxCmdLen, MaxData,
    Cards, Types, MaxNum, MaxDeaths, None,
    Lengths, Contents, MaxSessions, MaxMac,
    Mids, Demo, MaxLog, MaxStarts,
    MaxFaults,
    MaxAnswer, Block, MaxPro, HasHandler

\* The demo script's log is a file.
ASSUME DeviceAssumption == IsFiniteSet(Demo)

\* Contents are lengths, in octets.
ASSUME ChannelAssumption == Contents \subseteq Nat

\* A command carries something.
ASSUME FilesAssumption ==
    /\ Size \in Nat
    /\ RecLen \in Nat
    /\ MaxCmdLen \in Nat \ {0}
    /\ MaxData \in Nat

\* The types of cards that have a program.
CardTypes ==
    {"magicsim", "fakemagicsim", "grcardsim", "sysmousim-gr1", "sysmosim-gr2", "sysmousim-sjs1",
     "fairwaves", "opencells", "wavemobile", "sja2", "gialersim"}

\* A number, or a card, is never taken for none.
ASSUME StackAssumption ==
    /\ None \notin Nat \cup Cards
    /\ Types \subseteq CardTypes

\* An answer is not longer than MaxAnswer octets and comes in blocks of Block.
ASSUME ReaderAssumption ==
    /\ MaxAnswer \in Nat
    /\ Block \in Nat \ {0}
    /\ MaxPro \in Nat

VARIABLES
    at,
    ef, bin, rec, tlv, part, job, last, faults,
    ctype, source, given, erase, num, state, pc, todo, reader, holds, csv, good, bad, deaths,
    scp, trial, sd, wire, asked, executed, block, received, sessions, errors, lost, half,
    daemon, log, oldLog, db, work, download, seen, starts, failures, installed, ever,
    phase, cmd, strict, reply, word, dropped, rv, sent, pro, fetched,
    gui, child, stray, light, bar, crashed

F == INSTANCE FileAccess
P == INSTANCE Programming
C == INSTANCE SecureChannel WITH card <- sd, job <- block, faults <- errors
D == INSTANCE Device WITH job <- work, faults <- failures
T == INSTANCE Transport WITH pc <- phase, sw <- word, data <- reply
R == INSTANCE Processes

files == <<ef, bin, rec, tlv, part, job, last, faults>>
stack == <<ctype, source, given, erase, num, state, pc, todo, reader, holds, csv, good, bad, deaths>>
channel == <<scp, trial, sd, wire, asked, executed, block, received, sessions, errors, lost, half>>
device == <<daemon, log, oldLog, db, work, download, seen, starts, failures, installed, ever>>
answer == <<phase, cmd, strict, reply, word, dropped, rv, sent, pro, fetched>>
processes == <<gui, child, stray, light, bar, crashed>>

vars == <<at, files, stack, channel, device, answer, processes>>

\* Of a part that stays one initial state is enough.
Init ==
    /\ at \in {"files", "stack", "channel", "device", "answer", "processes"}
    /\ F!Init /\ P!Init /\ C!Init /\ D!Init /\ T!Init /\ R!Init
    /\ at # "files" => ef = "tlv"
    /\ at # "stack" => ctype = "sja2" /\ source = "csv" /\ given = {"iccid", "imsi", "ki", "adm", "isim", "usim"} /\ ~erase
    /\ at # "device" => oldLog = {}
    /\ at # "answer" => ~strict

Next ==
    \/ at = "files" /\ F!Next /\ UNCHANGED <<at, stack, channel, device, answer, processes>>
    \/ at = "stack" /\ P!Next /\ UNCHANGED <<at, files, channel, device, answer, processes>>
    \/ at = "channel" /\ C!Next /\ UNCHANGED <<at, files, stack, device, answer, processes>>
    \/ at = "device" /\ D!Next /\ UNCHANGED <<at, files, stack, channel, answer, processes>>
    \/ at = "answer" /\ T!Next /\ UNCHANGED <<at, files, stack, channel, device, processes>>
    \/ at = "processes" /\ R!Next /\ UNCHANGED <<at, files, stack, channel, device, answer>>

Spec == Init /\ [][Next]_vars

\* The cards of the stack are alike.
Symmetry == Permutations(Cards)

-----------------------------------------------------------------------------
(* Properties: those of the parts. *)

\* The outcome a file command reports is what has become of the file: an update
\* that returns wrote all of its data and nothing else, one that raises a
\* beginning of it, of a record all or nothing, also when only the answer or the
\* verify after it was lost; and what is read is what is there (update_binary,
\* update_record, read_binary).
TrueOutcome == at = "files" => F!TrueOutcome

\* The stored object is the one before or the new one, never a mix of the
\* pieces of two SET DATA, one of which was interrupted (set_data).
ObjectWhole == at = "files" => F!ObjectWhole

\* A card in the good bin holds every field its type's program() writes with a
\* checked command from what is given, all from one set of parameters, which is
\* in the CSV file if one is to be written (process_card).
GoodComplete == at = "stack" => P!GoodComplete

\* No two cards of the good bin were given one IMSI, whatever failed between the
\* card, the record and the state file, within a run of pySim-prog and, if there
\* is a state file, over several (process_card, init_batch, save_batch).
NumbersUnique == at = "stack" => P!NumbersUnique

\* As long as no command was lost and none was given up half done, the counters
\* of the shell's and the card's end of a secure channel agree whenever nothing
\* is on its way (SCP.wrap_cmd_apdu, unwrap_rsp_apdu).
InStep == at = "channel" => C!InStep

\* What the card executes in a secure channel is what the shell meant, and a LOAD
\* or STORE DATA that ends has left all of its content, also after losses; except
\* for what is encrypted after an exception advanced the encryption counter alone
\* (_wrap_cmd_apdu, load, store_data).
ExecutedAsAsked == at = "channel" => C!ExecutedAsAsked

\* The store has no profile that no card ever installed, save those of the demo
\* script's old log: not after a failed download, a timeout or a restart of the
\* daemon (DownloadWorker.run, ProfileSelector._on_download_complete).
OnlyInstalled == at = "device" => D!OnlyInstalled

\* After a download that the control centre reports as done, the store has every
\* profile the card installed since it was started: those of both masters, those
\* whose download was reported as failed, and those deleted meanwhile
\* (ProfileSelector._sync_all_profiles_from_logs).
SyncComplete == D!SyncComplete

\* What send_apdu returns is the answer of the command itself to its last octet,
\* however many GET RESPONSE and FETCH there were; only a GET RESPONSE repeated
\* with another length replaces what came before (LinkBase.__send_apdu_T0).
AnswerWhole == T!AnswerWhole

\* A command that returns leaves no proactive command waiting or unanswered,
\* unless its last TERMINAL RESPONSE was refused (LinkBase.send_apdu_checksw).
AllAnswered == T!AllAnswered

\* As long as every GUI closed its window, no service runs that the process
\* table does not name (ProcessManager.stop_veuicc, stop_smdp, stop_all).
NothingLeftRunning == R!NothingLeftRunning

=============================================================================
