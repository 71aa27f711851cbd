------------------------------- MODULE MCLive -------------------------------
(***************************************************************************)
(* For TLC: small instances of the parts that have to come to an end, side *)
(* by side.  The reader's commands (Transport), the processes (Processes), *)
(* the device and its two masters (Device), and the profile store with one *)
(* writer alone (ProfileStore).  A behaviour is one of one part, which     *)
(* `at' names; the others stay as they are in the beginning.               *)
(***************************************************************************)
EXTENDS Integers, Sequences

CONSTANTS
    MaxAnswer, Block, MaxPro, HasHandler,
    Mids, Demo, MaxLog, MaxStarts, MaxFaults,
    Writers, StoreMids, Iccids, None, MaxEntries

VARIABLES
    at,
    pc, cmd, strict, data, sw, dropped, rv, sent, pro, fetched,
    gui, child, stray, light, bar, crashed,
    daemon, log, oldLog, db, job, download, seen, starts, faults, installed, ever,
    exists, file, up, target, pending

T == INSTANCE Transport
P == INSTANCE Processes
D == INSTANCE Device
S == INSTANCE ProfileStore WITH Mids <- StoreMids, db <- file

reader == <<pc, cmd, strict, data, sw, dropped, rv, sent, pro, fetched>>
processes == <<gui, child, stray, light, bar, crashed>>
device == <<daemon, log, oldLog, db, job, download, seen, starts, faults, installed, ever>>
store == <<exists, file, up, target, pending>>

vars == <<at, reader, processes, device, store>>

Init ==
    /\ at \in {"reader", "processes", "device", "store"}
    /\ T!Init /\ P!Init /\ D!Init /\ S!Init
    /\ at = "reader" \/ ~strict

Next ==
    \/ at = "reader" /\ T!Next /\ UNCHANGED <<at, processes, device, store>>
    \/ at = "processes" /\ P!Next /\ UNCHANGED <<at, reader, device, store>>
    \/ at = "device" /\ D!Next /\ UNCHANGED <<at, reader, processes, store>>
    \/ at = "store" /\ S!Next /\ UNCHANGED <<at, reader, processes, device>>

\* The parts that stay have nothing to do, so their fairness asks nothing.
Spec == Init /\ [][Next]_vars /\ T!Fairness /\ P!Fairness /\ D!Fairness

-----------------------------------------------------------------------------
(* Properties: those of the parts. *)

\* Every command sent to the card ends, returned or raised, though the card
\* asks for another Le, more GET RESPONSE or more FETCH.
Ends == T!Ends

\* The status of a service that started, stopped or died is shown in the end
\* (MainWindow._refresh_status, ProcessControlPanel._update_service_status).
ShownInTheEnd == P!ShownInTheEnd

\* A download of the control centre gives its button back, also when lpac
\* hangs (ProfileSelector, DownloadWorker, the time limit of LPAService._run_lpac).
DownloadEnds == D!DownloadEnds

\* With one writer, whose calls come one after another, the store keeps what its
\* docstring says: "Cannot delete an enabled profile" (ProfileStore.delete_profile).
EnabledNotDeleted == S!EnabledNotDeleted

\* With one writer a profile leaves the file by a delete only, whatever crash or
\* reload came between reading the file and renaming its successor (_save).
LeavesByDelete == S!LeavesByDelete

=============================================================================
