----------------------------- MODULE Processes -----------------------------
(***************************************************************************)
(* The processes behind the control centre: gui/services/                  *)
(* process_manager.py starts and stops the v-euicc daemon, the SM-DP+ and  *)
(* nginx, gui/widgets/process_panel.py and gui/main_window.py show which   *)
(* of them run.  Starting and stopping block the one GUI thread, so each   *)
(* is one step; the timers, the processes' own deaths and the death of the *)
(* GUI come between them.                                                  *)
(***************************************************************************)
EXTENDS Integers

Services == {"veuicc", "smdp", "nginx"}

\* The Popen objects of a running GUI.  A late process is one that has not yet
\* found its port taken.
Children == {"none", "live", "late", "dead"}

\* A process of the service that no Popen object stands for: it lost its GUI, or
\* it has been sent a signal and is about to end.
Strays == {"no", "up", "ending"}

VARIABLES
    gui,      \* there is a GUI
    child,    \* ProcessManager.processes
    stray,
    light,    \* the panel's indicators; Start is enabled when red, Stop when green
    bar,      \* the labels of the status bar
    crashed   \* a GUI has died without closing its window

vars == <<gui, child, stray, light, bar, crashed>>

All(v) == [s \in Services |-> v]

Init ==
    /\ gui = TRUE
    /\ child = All("none") /\ stray = All("no")
    /\ light = All("red") /\ bar = All("red")
    /\ crashed = FALSE

\* is_running: nginx is looked for among all processes, the others by their
\* Popen object alone.
Running(s) ==
    \/ child[s] \in {"live", "late"}
    \/ s = "nginx" /\ stray[s] # "no"

Shown(s) == IF Running(s) THEN "green" ELSE "red"

-----------------------------------------------------------------------------
\* What start_* does about processes that are there already: pkill for nginx.
\* For the other two `kill` is run without arguments, the list being given to a
\* shell, and nothing is killed.
KillOthers(s) == IF s = "nginx" THEN "no" ELSE stray[s]

\* What has become of the new process when it is polled after one or two
\* seconds.  With its port taken v-euicc has ended; the SM-DP+ may still be
\* loading.
Outcomes(s) ==
    IF KillOthers(s) = "no" THEN {"live", "dead"}
    ELSE IF s = "smdp" THEN {"late", "dead"}
    ELSE {"dead"}

\* start_veuicc, start_smdp, start_nginx: a process that did not survive the
\* wait is not entered.  On success the panel turns green.
Start(s, outcome) ==
    /\ gui /\ light[s] = "red"
    /\ ~Running(s)
    /\ outcome \in Outcomes(s)
    /\ stray' = [stray EXCEPT ![s] = KillOthers(s)]
    /\ IF outcome = "dead"
       THEN UNCHANGED <<child, light>>
       ELSE /\ child' = [child EXCEPT ![s] = outcome]
            /\ light' = [light EXCEPT ![s] = "green"]
    /\ UNCHANGED <<gui, bar, crashed>>

\* Mutant of Stopped: a process that outlives the five seconds is not killed.
StoppedPolitely(s) ==
    IF s = "nginx" THEN {"ending"}
    ELSE IF child[s] = "late" THEN {stray[s]} ELSE {"no", "up"}

\* What is left of a running service after stop_*.  terminate() is followed by
\* kill() after five seconds; nginx gets a signal and is not waited for.
Stopped(s) == IF s = "nginx" THEN {"ending"} ELSE {stray[s]}

\* stop_veuicc, stop_smdp, stop_nginx from the panel.
Stop(s) ==
    /\ gui /\ light[s] = "green"
    /\ Running(s)
    /\ child' = [child EXCEPT ![s] = "none"]
    /\ \E left \in Stopped(s) : stray' = [stray EXCEPT ![s] = left]
    /\ light' = [light EXCEPT ![s] = "red"]
    /\ UNCHANGED <<gui, bar, crashed>>

\* closeEvent: stop_all, one service after the other, whatever the panel shows.
Close ==
    /\ gui /\ gui' = FALSE
    /\ child' = All("none")
    /\ stray' \in [Services -> Strays]
    /\ \A s \in Services : IF Running(s) THEN stray'[s] \in Stopped(s) ELSE stray'[s] = stray[s]
    /\ UNCHANGED <<light, bar, crashed>>

\* Mutant of Refresh: a service that is no longer running is left green.
RefreshOn ==
    /\ gui
    /\ light' = [s \in Services |-> IF Running(s) THEN "green" ELSE light[s]]
    /\ UNCHANGED <<gui, child, stray, bar, crashed>>

\* _refresh_status, every two seconds.
Refresh ==
    /\ gui
    /\ light' = [s \in Services |-> Shown(s)]
    /\ UNCHANGED <<gui, child, stray, bar, crashed>>

\* _update_service_status, every second.
UpdateServiceStatus ==
    /\ gui
    /\ bar' = [s \in Services |-> Shown(s)]
    /\ UNCHANGED <<gui, child, stray, light, crashed>>

-----------------------------------------------------------------------------
\* A service dies of itself.
Dies(s) ==
    /\ \/ /\ child[s] = "live"
          /\ child' = [child EXCEPT ![s] = "dead"]
          /\ UNCHANGED stray
       \/ /\ stray[s] = "up"
          /\ stray' = [stray EXCEPT ![s] = "no"]
          /\ UNCHANGED child
    /\ UNCHANGED <<gui, light, bar, crashed>>

\* A service that has to end does: after its signal, or when it has found its
\* port taken.
Ends(s) ==
    /\ \/ /\ child[s] = "late"
          /\ child' = [child EXCEPT ![s] = "dead"]
          /\ UNCHANGED stray
       \/ /\ stray[s] = "ending"
          /\ stray' = [stray EXCEPT ![s] = "no"]
          /\ UNCHANGED child
    /\ UNCHANGED <<gui, light, bar, crashed>>

\* The GUI dies without closeEvent; its services go on.
GuiDies ==
    /\ gui /\ gui' = FALSE
    /\ crashed' = TRUE
    /\ child' = All("none")
    /\ stray' = [s \in Services |-> IF child[s] = "live" THEN "up" ELSE stray[s]]
    /\ UNCHANGED <<light, bar>>

\* A new GUI knows of no process and shows all of them red.
GuiStarts ==
    /\ ~gui /\ gui' = TRUE
    /\ light' = All("red") /\ bar' = All("red")
    /\ UNCHANGED <<child, stray, crashed>>

Next ==
    \/ \E s \in Services :
          \/ Stop(s) \/ Dies(s) \/ Ends(s)
          \/ \E outcome \in {"live", "late", "dead"} : Start(s, outcome)
    \/ Close \/ Refresh \/ UpdateServiceStatus \/ GuiDies \/ GuiStarts

\* The timers of a GUI that lives fire again and again.
Fairness == WF_vars(Refresh) /\ WF_vars(UpdateServiceStatus) /\ \A s \in Services : WF_vars(Ends(s))

Spec == Init /\ [][Next]_vars /\ Fairness

-----------------------------------------------------------------------------
(* Properties. *)

\* As long as every GUI closed its window, no service runs that the process
\* table does not name: stopping and closing leave nothing behind
\* (stop_veuicc, stop_smdp, stop_all).
NothingLeftRunning == ~crashed => \A s \in Services : stray[s] # "up"

\* A service that died is not shown as running for ever, and one that runs is
\* offered to be stopped (_refresh_status, _update_service_status).
ShownInTheEnd ==
    \A s \in Services :
        /\ []<>(gui => light[s] = Shown(s))
        /\ []<>(gui => bar[s] = Shown(s))

\* What the comment of start_veuicc and of start_smdp says: "Kill any existing
\* process on the port".
PortFreed ==
    [][\A s \in Services :
          child[s] = "none" /\ child'[s] # "none" => stray'[s] # "up"]_vars

=============================================================================
