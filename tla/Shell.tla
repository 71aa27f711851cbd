------------------------------- MODULE Shell -------------------------------
(***************************************************************************)
(* pySim-shell over one card: the model of the card's files the host       *)
(* keeps, its logical channels, selection with its error paths, the        *)
(* commands that a selected file installs in the shell, and the walk over  *)
(* the file system.  A file is the path of identifiers that leads to it:   *)
(* an FID, or an AID for an application.  The shell has one thread, so a   *)
(* command is one step; a walk is a step per file.                         *)
(***************************************************************************)
EXTENDS Naturals, Sequences, FiniteSets

CONSTANTS
    EfIds,       \* identifiers of elementary files
    DfIds,       \* identifiers of dedicated files below the MF
    Apps,        \* AIDs of applications
    AppsWithFs,  \* the ones whose ADF holds files
    HostFiles,   \* paths the card profile and its applications define
    CardFiles,   \* paths the card has
    Channels,    \* logical channels, 0 is the basic one
    MaxKnown,    \* bound: files in the host's model
    None

MF == <<"3f00">>
Ids == EfIds \cup DfIds \cup Apps \cup {"3f00"}

VARIABLES
    known,     \* files of the host's model
    lchans,    \* rs.lchan: open channel -> selected_file, selected_adf
    active,    \* number of the channel the shell uses
    loose,     \* its object when it is no longer one of rs.lchan, or None
    reg,       \* files whose command sets are installed in the shell
    walk,      \* the DFs the walk is in, with the files still to visit
    cur,       \* card: channel -> selected file, None when closed
    lost       \* a link error, or a failed return to the selected file, since
               \* the last reset

hostVars == <<known, lchans, active, loose, reg>>
cardVars == <<cur>>
vars == <<known, lchans, active, loose, reg, walk, cur,
          lost>>

-----------------------------------------------------------------------------
(* The file tree. *)

LastId(p) == p[Len(p)]
Parent(p) == IF Len(p) = 1 THEN p ELSE SubSeq(p, 1, Len(p) - 1)
Prefix(p, n) == SubSeq(p, 1, n)
IsEF(p) == LastId(p) \in EfIds
IsADF(p) == LastId(p) \in Apps
HasFs(p) == LastId(p) \in AppsWithFs
get_cwd(p) == IF IsEF(p) THEN Parent(p) ELSE p
Children(files, p) == {f \in files : Len(f) = Len(p) + 1 /\ Parent(f) = p}

\* The files of the two trees, and all the paths over their identifiers.
Files == HostFiles \cup CardFiles
Names == Ids \cup UNION {{f[i] : i \in 1..Len(f)} : f \in Files}
Paths == Seq(Names)

\* Every file hangs from the MF by DFs of the same tree.
Rooted(T) ==
    /\ MF \in T
    /\ \A f \in T : /\ f \in Paths /\ f # <<>> /\ f[1] = "3f00"
                    /\ \A n \in 1..Len(f) : Prefix(f, n) \in T

\* How files are numbered (TS 102 221 8.3, the tables of pySim, add_file): no
\* file has the FID of one above it or of a DF beside its parent; an EF has no
\* files, an application hangs from the MF and has files only when it says so.
Numbered(f) ==
    /\ \A i, j \in 1..Len(f) : f[i] = f[j] => i = j
    /\ \A i \in 1..Len(f) : f[i] \in EfIds => i = Len(f)
    /\ \A i \in 1..Len(f) : f[i] \in Apps => i = 2 /\ (i = Len(f) \/ f[i] \in AppsWithFs)
    /\ \A g \in Files : Len(f) > 2 /\ Len(g) = Len(f) - 1 /\ Parent(g) = Prefix(f, Len(f) - 2) /\ ~IsEF(g)
                       => LastId(g) # LastId(f)

\* What the model asks of the files and the channels.
FileRules ==
    /\ Rooted(HostFiles) /\ Rooted(CardFiles)
    /\ \A f \in Files : Numbered(f)
    /\ "3f00" \notin EfIds /\ EfIds \cap Apps = {}
    /\ 0 \in Channels
    /\ None \notin Paths /\ None \notin [sel : Paths, adf : Paths \cup {None}]

\* The host knows only applications the card has (_match_applications); where
\* some application has no files, another one has.
WayOut ==
    /\ \A f \in HostFiles : IsADF(f) => f \in CardFiles
    /\ (\E f \in Files : IsADF(f) /\ ~HasFs(f)) => \E f \in HostFiles : IsADF(f) /\ HasFs(f)

ASSUME ShellAssumption == FileRules
ASSUME WayOutAssumption == WayOut

\* get_selectables: what an identifier names where f is selected.  Children
\* hide the applications, these the ancestors.
Selectable(files, f, id) ==
    LET below == {g \in Children(files, get_cwd(f)) : LastId(g) = id}
        apps  == {g \in Children(files, MF) : IsADF(g) /\ LastId(g) = id}
        above == {g \in {Prefix(f, n) : n \in 1..Len(f)} : LastId(g) = id}
    IN  IF below # {} THEN CHOOSE g \in below : TRUE
        ELSE IF apps # {} THEN CHOOSE g \in apps : TRUE
        ELSE IF above # {} THEN CHOOSE g \in above : \A h \in above : Len(g) <= Len(h)
        ELSE None

\* The depth of the nearest ancestor of two files.
Common(from, to) ==
    CHOOSE n \in 1..Len(from) :
        /\ n < Len(to) /\ Prefix(from, n) = Prefix(to, n)
        /\ n + 1 \in 1..Len(from) /\ n + 1 < Len(to) => from[n + 1] # to[n + 1]

Up(from, c) == [i \in 1..(Len(from) - c) |-> Prefix(from, Len(from) - i)]
Down(to, c) == [i \in 1..(Len(to) - c) |-> Prefix(to, c + i)]

\* What is left of a way from its last application on.
FromLastADF(way) ==
    LET first == {i \in 1..Len(way) : \A j \in (i + 1)..Len(way) : ~IsADF(way[j])}
    IN  SubSeq(way, CHOOSE i \in first : i = 1 \/ i - 1 \notin first, Len(way))

\* Mutant of PathTo: straight down from the common ancestor.
PathToDown(from, to) ==
    IF to = MF THEN <<MF>> ELSE Down(to, Common(from, to))

\* build_select_path_to: up to the nearest common ancestor (which is part of
\* the way unless it is where we are), down to the target, and only from the
\* last application on.
PathTo(from, to) ==
    LET c == Common(from, to)
    IN  IF to = MF THEN <<MF>> ELSE FromLastADF(Up(from, c) \o Down(to, c))

-----------------------------------------------------------------------------
(* The card (external, as TS 102 221 8.4 has it and as the code counts on):  *)
(* an FID is looked for in the current DF, then it may be the current DF,    *)
(* its parent or a DF beside it; within an application without files no FID  *)
(* can be selected.                                                          *)

CardSelectFid(c, id) ==
    LET d == get_cwd(c)
        near == {f \in CardFiles : ~IsADF(f) /\ LastId(f) = id /\
                   (Parent(f) = d \/ f = d \/ f = Parent(d) \/
                    (Parent(f) = Parent(d) /\ ~IsEF(f)))}
    IN  IF c = None \/ (IsADF(d) /\ ~HasFs(d)) THEN None
        ELSE IF id = "3f00" THEN MF
        ELSE IF near = {} THEN None
        ELSE CHOOSE f \in near : \A g \in near : Len(g) <= Len(f)

CardSelect(c, f) ==
    IF ~IsADF(f) THEN CardSelectFid(c, LastId(f))
    ELSE IF c # None /\ <<"3f00", LastId(f)>> \in CardFiles THEN <<"3f00", LastId(f)>>
    ELSE None

-----------------------------------------------------------------------------
(* Selection.  s is the state it works on: the host's tree, the selected     *)
(* file and application, the installed command sets, the card's selected     *)
(* file; ok is FALSE once an exception is raised.                            *)

CmdType(f) == IF IsEF(f) THEN "EF" ELSE "DF"

\* register_cmds: cmd2 refuses a second command set of the same class.
Registered(s) ==
    IF \E f \in s.reg : CmdType(f) = CmdType(s.sel)
    THEN [s EXCEPT !.ok = FALSE]
    ELSE [s EXCEPT !.reg = @ \cup {s.sel}]

\* _select_post
SelectPost(s, f) ==
    Registered([s EXCEPT !.sel = f, !.adf = IF IsADF(f) THEN f ELSE @])

\* One file of the way of select_file: c is what the card answers.
OneStep(b, f, c) ==
    IF ~b.ok \/ c = None THEN [b EXCEPT !.ok = FALSE]
    ELSE [b EXCEPT !.card = c, !.sel = f]

\* The loop of select_file: a status word that is not 9000 ends it with what
\* is selected by then, a link error at command g leaves it without
\* _select_post, with the command executed by the card or not (late).
GoAlong(s, path, g, late) ==
    LET At[i \in 0..Len(path)] ==
          IF i = 0 THEN [s EXCEPT !.reg = @ \ {s.sel}]
          ELSE OneStep(At[i - 1], path[i], CardSelect(At[i - 1].card, path[i]))
    IN  IF g \in 1..Len(path)
        THEN [At[IF late THEN g ELSE g - 1] EXCEPT !.sel = s.sel, !.ok = FALSE]
        ELSE SelectPost(At[Len(path)], At[Len(path)].sel)

Go(s, f, g, late) == GoAlong(s, PathTo(s.sel, f), g, late)

\* On to f from the application r has selected; when that failed, back to
\* where select() began, and the exception goes on.
GoFrom(r, start, f, g, late) ==
    IF r.ok THEN Go(r, f, g, late)
    ELSE [Go([r EXCEPT !.ok = TRUE], start, 0, FALSE) EXCEPT !.ok = FALSE]

\* Mutant of SelectFile: nothing leads out of an application without files.
SelectFileTrapped(s, f, g, late) == Go(s, f, g, late)

\* select_file: out of an application without files through one that has.
SelectFile(s, f, g, late) ==
    LET ways == {a \in s.known : IsADF(a) /\ HasFs(a)}
    IN  IF IsADF(f) \/ s.adf = None \/ HasFs(s.adf) \/ ways = {}
        THEN Go(s, f, g, late)
        ELSE GoFrom(Go(s, CHOOSE w \in ways : TRUE, 0, FALSE), s.sel, f, g, late)

\* probe_file: a file the card has and the model has not becomes a child of
\* the selected file, wherever the card found it; an EF cannot have one.
Probe(s, id) ==
    LET c == CardSelectFid(s.card, id)
        f == Append(s.sel, id)
        s1 == [s EXCEPT !.reg = @ \ {s.sel}]
    IN  IF c = None \/ id \in Apps THEN [Registered(s1) EXCEPT !.ok = FALSE]
        ELSE IF IsEF(s.sel) THEN [s1 EXCEPT !.card = c, !.ok = FALSE]
        ELSE SelectPost([s1 EXCEPT !.card = c, !.known = @ \cup {f}], f)

\* Mutant of SelectId: a failed selection stays where it stopped.
SelectIdNoReturn(s, id, g, late) ==
    LET f == Selectable(s.known, s.sel, id)
    IN  IF f # None THEN SelectFile(s, f, g, late) ELSE Probe(s, id)

\* r, or back to the file where it began when it has failed.
OrBack(r, start) ==
    IF r.ok THEN r
    ELSE [SelectFile([r EXCEPT !.ok = TRUE], start, 0, FALSE) EXCEPT !.ok = FALSE]

\* select of one name
SelectId(s, id, g, late) ==
    LET f == Selectable(s.known, s.sel, id)
    IN  OrBack(IF f # None THEN SelectFile(s, f, g, late) ELSE Probe(s, id), s.sel)

\* select of a path of two names
Further(r, id) == IF r.ok THEN SelectId(r, id, 0, FALSE) ELSE r
SelectTwo(s, id1, id2) ==
    OrBack(Further(SelectId(s, id1, 0, FALSE), id2), s.sel)

-----------------------------------------------------------------------------
(* The shell. *)

NewChannel == [sel |-> MF, adf |-> None]
Object == IF loose # None THEN loose ELSE lchans[active]
\* What the shell's channel object finds on the card: an object whose channel
\* was closed meets a closed channel, on which none can be opened either.
State == [known |-> known, sel |-> Object.sel, adf |-> Object.adf, reg |-> reg,
          card |-> cur[active], ok |-> TRUE]

Idle == walk = <<>>
\* A bound: what is done between a link error and the next reset is left out.
Ready == Idle /\ ~lost

Put(s) ==
    /\ known' = s.known
    /\ reg' = s.reg
    /\ cur' = [cur EXCEPT ![active] = s.card]
    /\ IF loose # None
       THEN loose' = [sel |-> s.sel, adf |-> s.adf] /\ UNCHANGED lchans
       ELSE lchans' = [lchans EXCEPT ![active] = [sel |-> s.sel, adf |-> s.adf]]
            /\ UNCHANGED loose

Init ==
    /\ known = HostFiles
    /\ lchans = [c \in {0} |-> NewChannel]
    /\ active = 0
    /\ loose = None
    /\ reg = {MF}
    /\ walk = <<>>
    /\ cur = [c \in Channels |-> IF c = 0 THEN MF ELSE None]
    /\ lost = FALSE

\* do_select with a name; the link may fail at its g-th command.
Select(id, g, late) ==
    /\ Ready
    /\ \E s \in {SelectId(State, id, g, late)} :
          Cardinality(s.known) <= MaxKnown /\ Put(s)
    /\ lost' = (lost \/ g > 0)
    /\ UNCHANGED <<active, walk>>

\* do_select with a path
SelectPath(id1, id2) ==
    /\ Ready
    /\ \E s \in {SelectTwo(State, id1, id2)} :
          Cardinality(s.known) <= MaxKnown /\ Put(s)
    /\ UNCHANGED <<active, walk, lost>>

\* do_open_channel: a channel opened from the basic one starts in the MF, one
\* opened from another where that one is.  The card refuses an open channel.
OpenChannel(c) ==
    /\ Ready
    /\ c \in Channels \ {0}
    /\ cur[active] # None /\ cur[c] = None
    /\ c \notin DOMAIN lchans
    /\ cur' = [cur EXCEPT ![c] = IF active = 0 THEN MF ELSE get_cwd(cur[active])]
    /\ lchans' = [d \in DOMAIN lchans \cup {c} |->
                    IF d # c THEN lchans[d]
                    ELSE IF active = 0 THEN NewChannel
                    ELSE [sel |-> get_cwd(Object.sel), adf |-> Object.adf]]
    /\ UNCHANGED <<known, active, loose, reg, walk, lost>>

\* do_close_channel: the shell may still use the object of the channel.
CloseChannel(c) ==
    /\ Ready
    /\ c \in Channels \ {0}
    /\ cur[active] # None /\ cur[c] # None
    /\ cur' = [cur EXCEPT ![c] = None]
    /\ lchans' = [d \in DOMAIN lchans \ {c} |-> lchans[d]]
    /\ loose' = IF active = c THEN Object ELSE loose
    /\ UNCHANGED <<known, active, reg, walk, lost>>

\* do_switch_channel
SwitchChannel(c) ==
    /\ Ready
    /\ c \in DOMAIN lchans
    /\ LET s == Registered([State EXCEPT !.reg = @ \ {Object.sel},
                                         !.sel = lchans[c].sel])
       IN  reg' = s.reg
    /\ active' = c
    /\ loose' = None
    /\ UNCHANGED <<known, lchans, walk, cur, lost>>

\* The card after a reset.
CardReset ==
    cur' = [c \in Channels |-> IF c = 0 THEN MF ELSE None]

\* rs.reset(cmd_app): the basic channel becomes the shell's, and what another
\* one had installed stays installed.
Reset ==
    /\ Idle
    /\ LET s0 == [State EXCEPT !.sel = lchans[0].sel, !.adf = lchans[0].adf, !.card = MF]
           s1 == SelectFile(s0, MF, 0, FALSE)
           s == IF s1.ok THEN [s1 EXCEPT !.adf = None]
                ELSE SelectFile([s1 EXCEPT !.ok = TRUE], lchans[0].sel, 0, FALSE)
       IN  /\ lchans' = [c \in {0} |-> [sel |-> s.sel, adf |-> s.adf]]
           /\ reg' = s.reg
           /\ cur' = [c \in Channels |-> IF c = 0 THEN s.card ELSE None]
    /\ active' = 0
    /\ loose' = None
    /\ lost' = FALSE
    /\ UNCHANGED <<known, walk>>

\* Files of a runtime state that is gone: their command sets cannot be removed.
Orphans(files) == {IF f[1] = "old" THEN f ELSE <<"old">> \o f : f \in files}

\* do_equip: a new runtime state with the files of the profile; of the old one
\* only what the basic channel had installed is removed.
Equip ==
    /\ Idle
    /\ CardReset
    /\ LET s == SelectFile([State EXCEPT !.known = HostFiles, !.sel = MF, !.adf = None,
                              !.card = MF, !.reg = Orphans(reg \ {lchans[0].sel})],
                           MF, 0, FALSE)
       IN  reg' = s.reg
    /\ known' = HostFiles
    /\ lchans' = [c \in {0} |-> NewChannel]
    /\ active' = 0
    /\ loose' = None
    /\ lost' = FALSE
    /\ UNCHANGED <<walk>>

\* do_equip whose init_card ends with an exception after it has reset the card.
EquipFails ==
    /\ Ready
    /\ CardReset
    /\ lost' = TRUE
    /\ UNCHANGED <<known, lchans, active, loose, reg, walk>>

\* do_update_binary, do_update_record: the selected file is selected again by
\* its FID, and written.
Update ==
    /\ Ready
    /\ IsEF(Object.sel)
    /\ LET c == CardSelectFid(cur[active], LastId(Object.sel))
       IN  /\ c # None
           /\ cur' = [cur EXCEPT ![active] = c]
    /\ UNCHANGED <<known, lchans, active, loose, reg, walk, lost>>

\* do_create_ef, do_create_df, do_resize_ef: the card selects the new or the
\* resized file below the current DF, the shell its own selected file again.
\* From a new DF below a nested one that does not lead back.
Reselect(f) ==
    /\ Ready
    /\ cur[active] # None
    /\ Parent(f) = get_cwd(cur[active])
    /\ f \in CardFiles /\ ~IsADF(f)
    /\ LET s == SelectFile([State EXCEPT !.card = f], Object.sel, 0, FALSE)
       IN  /\ Put([s EXCEPT !.reg = reg])
           /\ lost' = (lost \/ ~s.ok)
    /\ UNCHANGED <<active, walk>>

-----------------------------------------------------------------------------
(* __walk: do_export, do_fsdump and do_tree visit the children of the        *)
(* selected DF in one fixed order.                                            *)

Below(f) == Children(known, f) \* the applications are children of the MF

WalkStart ==
    /\ Ready
    /\ ~IsEF(Object.sel)
    /\ walk' = <<[dir |-> Object.sel, todo |-> Below(Object.sel)]>>
    /\ UNCHANGED <<hostVars, cardVars, lost>>

Top == walk[Len(walk)]
First == CHOOSE f \in Top.todo : TRUE

\* An EF: its action selects it and the DF is selected again (__walk_action).
WalkEF ==
    /\ ~Idle
    /\ Top.todo # {} /\ IsEF(First)
    /\ LET s == SelectFile(State, First, 0, FALSE)
           b == SelectFile([s EXCEPT !.ok = TRUE], Object.sel, 0, FALSE)
       IN  Put(IF s.sel = Object.sel THEN s ELSE b)
    /\ walk' = [walk EXCEPT ![Len(walk)].todo = @ \ {First}]
    /\ UNCHANGED <<active, lost>>

\* A DF is entered, or skipped when it cannot be selected.
WalkDF ==
    /\ ~Idle
    /\ Top.todo # {} /\ ~IsEF(First)
    /\ LET s == SelectId(State, LastId(First), 0, FALSE)
           rest == [walk EXCEPT ![Len(walk)].todo = @ \ {First}]
       IN  /\ Put(s)
           /\ walk' = IF s.ok THEN Append(rest, [dir |-> First, todo |-> Below(First)]) ELSE rest
    /\ UNCHANGED <<active, lost>>

\* Out of a DF whose files are done.
WalkUp ==
    /\ ~Idle
    /\ Top.todo = {}
    /\ IF Len(walk) = 1 THEN UNCHANGED <<known, reg, cur, lchans, loose>>
       ELSE Put(SelectFile(State, Parent(Object.sel), 0, FALSE))
    /\ walk' = SubSeq(walk, 1, Len(walk) - 1)
    /\ UNCHANGED <<active, lost>>

-----------------------------------------------------------------------------

Next ==
    \/ \E id \in Ids : Select(id, 0, FALSE)
    \/ \E id \in Ids, g \in 1..2, late \in BOOLEAN : Select(id, g, late)
    \/ \E id1 \in DfIds \cup Apps, id2 \in Ids : SelectPath(id1, id2)
    \/ \E c \in Channels : OpenChannel(c) \/ CloseChannel(c) \/ SwitchChannel(c)
    \/ Reset
    \/ Equip
    \/ EquipFails
    \/ Update
    \/ \E f \in CardFiles : Reselect(f)
    \/ WalkStart
    \/ WalkEF \/ WalkDF \/ WalkUp

Spec == Init /\ [][Next]_vars

-----------------------------------------------------------------------------
(* Properties. *)

\* No link error and no failed return since the last reset, and no file the card found elsewhere
\* was taken into the model (see probe_file).
Undisturbed ==
    /\ ~lost
    /\ known \ HostFiles \subseteq CardFiles

\* The card and the host agree about the selected file of every channel the
\* host has, whatever was selected, failed, opened, closed or reset before:
\* the comment in select_file warns of the incoherence.
Coherent ==
    Undisturbed => \A c \in DOMAIN lchans : cur[c] = lchans[c].sel

\* A write, which selects the file again by its FID alone, changes the file
\* the shell has selected and no other of that FID.
NoStrayWrite ==
    Undisturbed /\ loose = None /\ IsEF(Object.sel)
    => CardSelectFid(cur[active], LastId(Object.sel)) = Object.sel

\* From wherever the shell is, MF can be selected: an application without
\* files does not hold it.  Only where the commands registered are those of the file
\* selected: after a switch of channels the other's may still be (see the README).
NeverTrapped ==
    Undisturbed /\ loose = None /\ reg = {Object.sel}
    => LET s == SelectFile(State, MF, 0, FALSE) IN s.ok /\ s.card = MF

=============================================================================
