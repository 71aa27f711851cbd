------------------------------ MODULE Device ------------------------------
(***************************************************************************)
(* One device and its two masters.  The control centre (gui/widgets/       *)
(* profile_manager.py, profile_selector.py over gui/services/              *)
(* lpa_service.py) asks the card through lpac and then changes the profile *)
(* store; the MNO console (mno/widgets/device_control_panel.py over        *)
(* mno/services/lpa_command.py) changes the store and then asks the card.  *)
(* Each operation is two steps, and the steps of the two, lpac's failures  *)
(* and restarts of the card's daemon come between them.  An operation on   *)
(* the store is atomic here: its races are in ProfileStore.  All profiles  *)
(* have one ICCID, the one the card gives them.                            *)
(*                                                                         *)
(* Every lpac connects first, which empties the card's list of profiles    *)
(* (see ProfilesSurviveReconnect of VEuicc).  So no command but a download *)
(* finds a profile: lpac fails, the control centre goes on with its "local *)
(* store" and the console does not look.  What the card has installed is   *)
(* known from its log alone.                                               *)
(***************************************************************************)
EXTENDS Integers, Sequences, FiniteSets, SequencesExt

CONSTANTS
    Mids,        \* matching ids
    Demo,        \* those the demo script may have left in /tmp/detailed-euicc.log
    MaxLog,      \* bound: downloads since the daemon was started
    MaxStarts,   \* bound: starts of the daemon
    MaxFaults    \* bound: lpac calls that fail or hang

Masters == {"gui", "console"}
NoJob == [op |-> "none"]

VARIABLES
    daemon,     \* v-euicc runs
    log,        \* the matching ids of data/veuicc.log, in order
    oldLog,     \* those of /tmp/detailed-euicc.log
    db,         \* the profile store, oldest first
    job,        \* what a master's GUI thread is in the middle of
    download,   \* the download thread of a master
    seen,       \* the profiles there have been: a table may still show them
    starts, faults,
    installed,  \* the matching ids installed since the daemon was started
    ever        \* those installed at any time

vars == <<daemon, log, oldLog, db, job, download, seen, starts, faults, installed, ever>>

Init ==
    /\ daemon = FALSE /\ log = <<>> /\ db = <<>> /\ seen = {}
    /\ job = [m \in Masters |-> NoJob]
    /\ download = [m \in Masters |-> NoJob]
    /\ starts = 0 /\ faults = 0
    /\ oldLog \in {{}, Demo}
    /\ installed = {} /\ ever = {}

ToSetOfMids(l) == {l[i].mid : i \in DOMAIN l}
Profile(mid) == [mid |-> mid, enabled |-> FALSE]

\* The list with one profile enabled and no other, with it disabled, without it.
EnabledAt(l, i) == [j \in DOMAIN l |-> [l[j] EXCEPT !.enabled = (j = i)]]
DisabledAt(l, i) == [l EXCEPT ![i].enabled = FALSE]

-----------------------------------------------------------------------------
\* What the store makes of it.  enable and disable name the ICCID, the control
\* centre's delete names the row's matching id.
StoreIndex(op, mid) ==
    IF op = "delete" THEN SelectInSeq(db, LAMBDA p : p.mid = mid)
    ELSE IF db = <<>> THEN 0 ELSE 1

StoreAgrees(op, mid) ==
    LET i == StoreIndex(op, mid)
    IN  i # 0 /\ (op = "disable" => db[i].enabled) /\ (op = "delete" => ~db[i].enabled)

Store(op, mid) ==
    LET i == StoreIndex(op, mid)
    IN  db' = IF ~StoreAgrees(op, mid) THEN db
              ELSE CASE op = "enable" -> EnabledAt(db, i)
                     [] op = "disable" -> DisabledAt(db, i)
                     [] op = "delete" -> RemoveAt(db, i)

\* The rows of the tables come from the store.  The control centre fills its own
\* after each of its operations and when asked, the console every three seconds.
Refill == seen' = seen \union ToSetOfMids(db')

\* The buttons of a row: disable, or enable and delete.  The other master may have
\* been at the store since, so a click may be any of them.
Offered(mid) == mid \in seen

-----------------------------------------------------------------------------
\* The control centre: lpac first, which has nothing to find ...
GuiAsk(op, mid) ==
    /\ job["gui"] = NoJob
    /\ Offered(mid)
    /\ job' = [job EXCEPT !["gui"] = [op |-> op, mid |-> mid]]
    /\ UNCHANGED <<seen, oldLog, daemon, log, db, download, starts, faults, installed, ever>>

\* ... then the store.
GuiRecord ==
    /\ job["gui"] # NoJob
    /\ Store(job["gui"].op, job["gui"].mid)
    /\ job' = [job EXCEPT !["gui"] = NoJob]
    /\ Refill
    /\ UNCHANGED <<oldLog, daemon, log, download, starts, faults, installed, ever>>

\* The console: the store first, and nothing more if it refuses.  Its delete
\* looks the matching id up by the ICCID.
ConsoleRecord(op, row) ==
    /\ job["console"] = NoJob
    /\ Offered(row)
    /\ LET mid == IF op = "delete" /\ db # <<>> THEN db[1].mid ELSE row
       IN  /\ Store(op, mid)
           /\ job' = [job EXCEPT !["console"] =
                         IF StoreAgrees(op, mid) THEN [op |-> op, mid |-> mid] ELSE NoJob]
    /\ Refill
    /\ UNCHANGED <<oldLog, daemon, log, download, starts, faults, installed, ever>>

\* ... then lpac, whatever its answer.
ConsoleAsk ==
    /\ job["console"] # NoJob
    /\ job' = [job EXCEPT !["console"] = NoJob]
    /\ UNCHANGED <<seen, oldLog, daemon, log, db, download, starts, faults, installed, ever>>

-----------------------------------------------------------------------------
(* Downloads run in a thread; the window's other buttons stay enabled.      *)

\* One at a time: the button is disabled until the thread has finished.
DownloadProfile(m, mid) ==
    /\ download[m] = NoJob
    /\ Len(log) + Cardinality({n \in Masters : download[n] # NoJob}) < MaxLog
    /\ download' = [download EXCEPT ![m] = [op |-> "running", mid |-> mid]]
    /\ UNCHANGED <<seen, oldLog, daemon, log, db, job, starts, faults, installed, ever>>

\* The card installs m's profile and logs it, or lpac does not come so far.
Installs(m, done) ==
    IF done THEN /\ daemon
                 /\ log' = Append(log, download[m].mid)
                 /\ installed' = installed \union {download[m].mid}
                 /\ ever' = ever \union {download[m].mid}
            ELSE UNCHANGED <<log, installed, ever>>

\* The thread's lpac ends: installed and reported; not installed; installed and
\* not reported, when the notification that comes after it fails.
LpacDownload(m) ==
    /\ download[m].op = "running"
    /\ \E done, ok \in BOOLEAN :
          /\ Installs(m, done)
          /\ ok => done
          /\ IF ok \/ ~daemon THEN UNCHANGED faults
             ELSE faults < MaxFaults /\ faults' = faults + 1
          /\ download' = [download EXCEPT ![m].op = IF ok THEN "ok" ELSE "failed"]
    /\ UNCHANGED <<seen, oldLog, daemon, db, job, starts>>

\* lpac waits for a server that does not answer, before or after.
LpacHangs(m) ==
    /\ download[m].op = "running" /\ faults < MaxFaults
    /\ faults' = faults + 1
    /\ \E done \in BOOLEAN : Installs(m, done)
    /\ download' = [download EXCEPT ![m].op = "hangs"]
    /\ UNCHANGED <<seen, oldLog, daemon, db, job, starts>>

\* Mutant of LpacTimesOut: nobody looks at the clock.
LpacNeverTimesOut == FALSE /\ UNCHANGED vars

\* The control centre gives its lpac 120 seconds.  (So does the console's worker,
\* but its wait(timeout=120) comes after reading lpac's output to the end, and a
\* hanging lpac never comes that far.)
LpacTimesOut ==
    /\ download["gui"].op = "hangs"
    /\ download' = [download EXCEPT !["gui"].op = "failed"]
    /\ UNCHANGED <<seen, oldLog, daemon, log, db, job, starts, faults, installed, ever>>

\* Mutant of InLogs: only the last profile of the log is looked at.
InLogsLast == IF log = <<>> THEN <<>> ELSE <<log[Len(log)]>>

\* _sync_all_profiles_from_logs: the profiles of the two logs, as they come.
InLogs == log \o SetToSeq(oldLog)

\* add_profile: a matching id that is there already is not added again.
AddProfile(l, mid) == IF mid \in ToSetOfMids(l) THEN l ELSE Append(l, Profile(mid))

\* One after the other.
AddProfiles(l, mids) ==
    LET Added[i \in 0..Len(mids)] ==
          IF i = 0 THEN l ELSE AddProfile(Added[i - 1], mids[i])
    IN  Added[Len(mids)]

\* _on_download_complete in the control centre's GUI thread.
GuiDownloaded ==
    /\ job["gui"] = NoJob
    /\ download["gui"].op \in {"ok", "failed"}
    /\ db' = IF download["gui"].op = "ok" THEN AddProfiles(db, InLogs) ELSE db
    /\ download' = [download EXCEPT !["gui"] = NoJob]
    /\ Refill
    /\ UNCHANGED <<oldLog, daemon, log, job, starts, faults, installed, ever>>

\* Mutant of ConsoleDownloaded: the profile is entered before the result is known.
ConsoleDownloadedAnyhow ==
    /\ download["console"].op \in {"ok", "failed"}
    /\ db' = AddProfile(db, download["console"].mid)
    /\ download' = [download EXCEPT !["console"] = NoJob]
    /\ Refill
    /\ UNCHANGED <<oldLog, daemon, log, job, starts, faults, installed, ever>>

\* The console's thread enters the one profile itself, then tells the window.
ConsoleDownloaded ==
    /\ download["console"].op \in {"ok", "failed"}
    /\ db' = IF download["console"].op = "ok" THEN AddProfile(db, download["console"].mid) ELSE db
    /\ download' = [download EXCEPT !["console"] = NoJob]
    /\ Refill
    /\ UNCHANGED <<oldLog, daemon, log, job, starts, faults, installed, ever>>

-----------------------------------------------------------------------------
\* start_veuicc: its log from the beginning.
StartDaemon ==
    /\ ~daemon /\ starts < MaxStarts
    /\ daemon' = TRUE /\ log' = <<>> /\ installed' = {}
    /\ starts' = starts + 1
    /\ UNCHANGED <<seen, oldLog, db, job, download, faults, ever>>

\* stop_veuicc, or its death: the log stays.
StopDaemon ==
    /\ daemon /\ daemon' = FALSE
    /\ installed' = {}
    /\ UNCHANGED <<seen, oldLog, log, db, job, download, starts, faults, ever>>

Next ==
    \/ StartDaemon \/ StopDaemon
    \/ \E op \in {"enable", "disable", "delete"}, mid \in Mids \union Demo :
          GuiAsk(op, mid) \/ ConsoleRecord(op, mid)
    \/ GuiRecord \/ ConsoleAsk
    \/ \E m \in Masters :
          \/ LpacDownload(m) \/ LpacHangs(m)
          \/ \E mid \in Mids : DownloadProfile(m, mid)
    \/ LpacTimesOut \/ GuiDownloaded \/ ConsoleDownloaded

\* lpac ends or is given up.  Qt's queue is in order, so the end of a download
\* has its turn however many clicks the GUI thread has to serve.
Fairness ==
    /\ WF_vars(GuiRecord) /\ SF_vars(GuiDownloaded)
    /\ WF_vars(LpacTimesOut) /\ WF_vars(LpacDownload("gui"))

Spec == Init /\ [][Next]_vars /\ Fairness

-----------------------------------------------------------------------------
(* Properties. *)

\* After a download that the control centre reports as done, the store has every
\* profile the card installed since it was started: those of both masters, those
\* whose download was reported as failed, and those deleted meanwhile
\* (ProfileSelector._sync_all_profiles_from_logs).
SyncComplete ==
    [][download["gui"].op = "ok" /\ download'["gui"] = NoJob
          => installed \subseteq ToSetOfMids(db')]_vars

\* The store has no profile that no card ever installed, save those of the demo
\* script's old log: not after a failed download, a timeout or a restart of the
\* daemon (DownloadWorker.run, ProfileSelector._on_download_complete).
OnlyInstalled == ToSetOfMids(db) \subseteq ever \union oldLog

\* A download of the control centre gives its button back, also when lpac hangs
\* (DownloadWorker.run, LPAService._run_lpac).
DownloadEnds == download["gui"] # NoJob ~> download["gui"] = NoJob

\* What the dialogs of both programs say: "Permanently delete profile? ... This
\* action cannot be undone."  A profile comes into the store by its own download.
DeletedForGood ==
    [][\A mid \in ToSetOfMids(db') \ ToSetOfMids(db) :
          mid \in {download[m].mid : m \in {n \in Masters : download[n] # NoJob}}]_vars

=============================================================================
