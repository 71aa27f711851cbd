# Verification of virtual-rsp

TLA+ models, TLC runs and TLAPS proofs of the virtual Remote SIM Provisioning
system: the virtual eUICC (`v-euicc/`), the SM-DP+ (`pysim/osmo-smdpp.py`), the
link between lpac and the card, the two graphical programs (`gui/`, `mno/`) with
the services they run and the profile store they share, and the core of the pySim
library and tools (`pysim/pySim`, `pySim-shell.py`, `pySim-prog.py`). Paths are
relative to the repository.

## 1. The system

An operator downloads an eSIM profile to a software card. A Qt control centre
(`gui/`) and an MNO console (`mno/`) start `lpac`, one process per command, with
a time limit. lpac talks JSON lines over a TCP socket to `v-euicc-daemon`
(ES10x), and HTTP to the SM-DP+ (ES9+). Both programs keep their own list of
profiles in `data/profiles.json`, beside what the card holds.

| component | state | operations | talks to |
|---|---|---|---|
| v-euicc card (`v-euicc/src/apdu_handler.c`, `euicc_state.c`) | one global `struct euicc_state`: logic channel, challenges, transaction and matching id, one-time keys, session keys, collected package, linked list of profile metadata | connect, disconnect, channel open/close, ES10b download commands (BF2E, BF38, BF21, BF23, BF41, 86/87/88, A0..A3), ES10c management (BF2D, BF31, BF32, BF33) | its one client |
| v-euicc daemon (`main.c`, `protocol.c`) | the served connection, the listen queue, `segment_buffer` | accept, read a line, answer it, drop the client | lpac processes |
| SM-DP+ (`pysim/osmo-smdpp.py`, `pySim/esim/rsp.py`) | session store `rss` (shelf or memory), download history and its JSON file, directory of packages | initiateAuthentication, authenticateClient, getBoundProfilePackage, handleNotification, cancelSession; MNO upload, delete, lists | LPAs, console |
| lpac (`lpac/euicc`, `lpac/driver/apdu/socket.c`, `lpac/src/applet/profile`) | per process: the connection, the place in the download flow | cut a command into segments, wait for each answer; the download sequence with cancel on failure | card, SM-DP+ |
| ProfileStore (`gui/services/profile_store.py`) | `data/profiles.json` | add, enable, disable, delete, set_eid | both programs |
| ProcessManager (`gui/services/process_manager.py`) | the daemons' processes | start, stop, status | daemons |
| services and widgets (`gui/`, `mno/`) | what is shown, download threads | ask the card and change the store, in different orders; fill the store from the card's log | lpac, store, SM-DP+ |
| pySim transport (`pySim/transport/__init__.py`) | the command under way, the proactive command pending | send a command with its GET RESPONSE, corrected length, FETCH, TERMINAL RESPONSE | reader, card |
| pySim commands and files (`pySim/commands.py`, `filesystem.py`) | a write or read in pieces | read, update, compare, verify, records, objects | transport |
| pySim runtime and shell (`pySim/runtime.py`, `pySim-shell.py`) | tree of files, per channel the selected file | select, probe, open and close channels, reset, equip, walk the tree | card |
| pySim card profiles (`pySim/profile.py`, `ts_*.py`, ...) | tables of DFs and EFs | assemble a tree, decode and encode, service tables | runtime |
| pySim secure channels (`pySim/global_platform`) | keys, counters | SCP02, SCP03, the GlobalPlatform commands | card |
| pySim programming (`pySim-prog.py`, `pySim/legacy/cards.py`) | number, state file, CSV and HLR records | program a stack of cards | card |
| pySim eSIM (`pySim/esim/saip`, `bsp.py`, `es8p.py`) | a profile's elements and indexes; keys and counters of a package | edit and personalize a profile; protect a package and open it | SM-DP+, saip-tool |

What is hard here:

* **Shared card.** One global state serves a sequence of clients that may be
  killed anywhere (`subprocess.run(timeout=...)`), with requests still in the
  socket. What the dead client leaves (segments, keys, an open channel) must not
  meet the next one.
* **Shared identifiers.** Every profile the card installs has the same ICCID and
  the same AID, and management commands name profiles by them.
* **Sessions that repeat.** ES9+ calls of several LPAs interleave, calls are
  repeated, a session is authenticated twice, the MNO replaces packages between
  two calls, the process dies between the history and the session.
* **Whole-file updates.** The history file is truncated before it is written;
  the profile file is read, changed and replaced without a lock around it.
* **Two records of one thing.** The store and the card's log, the file selected
  and the file believed selected, the counters at the two ends of a secure
  channel, a list of profile elements and its indexes, a card in the good bin and
  its record: each pair is changed in two steps, of which one can fail.
* **Commands inside commands.** One APDU may need several on the wire, each with
  a status word of its own.
* **Undefined behaviour.** `handle_client` reads `func` after freeing it.

`PROJECT.json` lists these at their lines under "hazards", with the properties
aimed at each.

What makes each part correct:

* card: at most one enabled profile; an enabled profile is not deleted; session
  keys come from the one-time keys held, and fall behind them only where an answer
  says so; commands are executed whole;
* daemon: every client is served in the end, a dead one does not block it;
* SM-DP+: what is recorded was agreed by the eUICC it names; a bound session has
  a record; records survive; sessions end;
* store: at most one enabled profile, no matching id twice, no update lost, no
  enabled profile deleted;
* device: what the store shows was installed, and a synchronisation leaves nothing
  out; a download ends; no service runs that nobody knows of;
* pySim: an answer is the whole answer of its own command, an update reports what
  became of the file, a write goes to the selected file, both ends of a channel
  count alike, a programmed card is complete and has its number alone, indexes
  agree with their list, and a package is opened as it was closed or not at all.

## 2. Modules

| module | models | lines it stands for |
|---|---|---|
| `VEuicc` | the card and its one client | `v-euicc/src/apdu_handler.c`, `euicc_state.c`, `main.c` |
| `ProfileRegistry` | abstract: a list of profiles and one active position | what BF31/BF32/BF33/A3 promise |
| `VEuiccProofs` | proofs about VEuicc and its refinement of ProfileRegistry | |
| `CardLink` | lpac processes, the daemon's socket, segmentation | `lpac/euicc/euicc.c`, `lpac/driver/apdu/socket.c`, `main.c`, `apdu_handle_transmit` |
| `CardLinkProofs` | proofs about CardLink | |
| `SmDpp`, `MCSmDpp` | the server, its history file and its crashes | `pysim/osmo-smdpp.py`, `pySim/esim/rsp.py` |
| `SmDppProofs` | proofs about SmDpp | |
| `ProfileStore` | the profile file and its writers | `gui/services/profile_store.py`, `mno/services/lpa_command.py` |
| `ProfileStoreProofs` | proofs about ProfileStore | |
| `Processes` | the services, the table of processes, the indicators | `gui/services/process_manager.py`, `gui/widgets/process_panel.py`, `gui/main_window.py` |
| `Device` | both programs' operations on one device | `gui/widgets/profile_manager.py`, `profile_selector.py`, `gui/services/lpa_service.py`, `mno/services/lpa_command.py`, `mno/widgets/device_control_panel.py` |
| `Transport` | one command to a card | `pySim/transport/__init__.py` |
| `FileAccess` | reading and writing the selected EF | `pySim/commands.py`, `pySim/filesystem.py` |
| `Shell`, `MCShell` | selection, channels, equip, walks | `pySim/runtime.py`, `pySim-shell.py`, `pySim/cards.py` |
| `SecureChannel` | SCP02/SCP03, both ends | `pySim/global_platform/` |
| `Programming` | a stack of cards | `pySim-prog.py`, `pySim/legacy/cards.py`, `pySim/card_handler.py` |
| `CardFiles` | tables: one definition per EF and DF class | `pySim/ts_*.py`, `gsm_r.py`, `cdma_ruim.py`, `sysmocom_sja2.py` |
| `CardProfiles` | profiles, add-ons, models; when two files clash | `pySim/profile.py`, `pySim/filesystem.py` |
| `Equip` | a card's tree, decoders and encoders, service tables | `pySim/runtime.py`, `filesystem.py` |
| `SaipTemplates` | tables: one definition per template class | `pySim/esim/saip/templates.py` |
| `SaipElements` | profile elements, the indexes of a list | `pySim/esim/saip/__init__.py` |
| `SaipFs` | the file tree and contents a profile gives | the same, `validation.py` |
| `SaipProfile` | edits and personalization of a profile | the same, `personalization.py`, `contrib/saip-tool.py` |
| `Bsp` | protection of a bound package and its opening | `pySim/esim/bsp.py`, `es8p.py` |
| `MCLive`, `MCSafe`, `MCProfiles` | instances of several parts side by side | |
| `ShellProofs` | proofs about Shell | |
| `MCSafeProofs` | proofs about Transport, Processes, FileAccess, Programming, SecureChannel and Device | |
| `MCProfilesProofs` | proofs about the service tables, SaipProfile and Bsp | |
| `ListTheorems` | induction over a set of numbers, recursive functions, lists as functions; used by the proofs | |

`MCLive`, `MCSafe` and `MCProfiles` check several components in one run: a behaviour is one of
one part, named by the variable `at`, while the others keep their initial state.
This is a disjoint union of the parts' state graphs, not a product, so a property
of a part holds in it exactly if it holds of the part.

### VEuicc

The variables have the names of the fields of `struct euicc_state`. The daemon
has one thread and serves one client, so a request is one step; an action is one
`case` of `process_es10x_command` with its early returns. The client is
arbitrary: it sends any request in any order. A signature is the record of what
was signed, an ECKA pair a member of `OneTimeKeys`; `session_keys` is the pair of
the two parties' one-time keys, whatever X9.63 makes of it. `bpp` is the list of
pieces appended, each complete or cut: the code takes the octet after the tag for
the length, so the form of the length field decides (`LengthForms`). The profile
list is newest first, as the linked list is. Not in the model, because nothing
reads them: `installed_profiles`, `bpp_commands_received`,
`notification_seq_number`; constant: the EID and the addresses; never compared:
the eUICC challenge. Failing allocations are left out.

### CardLink

A process is new, running or gone; `request`, `unread` and `reply` are its last
line and whether either side has read its part: lpac always waits for the answer,
so there is one of each. `queue` is the listen queue and `serving` the connection
`handle_client` works on. A segment carries who sent it, which command it is of
and its number, so that the property can ask; the daemon reads only `last`.
`Kill` is the time limit of the programs that start lpac. `Restart` is the end of
the daemon by a signal, SIGPIPE included: the newline is sent by a second `send`.
After a disconnect the connection is closed or not, since the comparison reads
freed memory. A command's contents, and which command it is, do not matter here:
it succeeds or fails, and VEuicc says what it does.

### SmDpp

The handlers run in the reactor's thread and do not yield, so a request is one
step, except that the process may die inside `getBoundProfilePackage` where it
writes first the history and then the session (`CrashInGetBpp`). The server
challenge is represented by the transaction id, as fresh. `valid` is the verdict
on the certificate chain, the signature and the EID. `by` and `prep` are what the
eUICC signed; no guard reads them. `AllDigit` are the transaction ids without a
letter: the notification looks sessions up in lower case and finds only these.
A decoded `finalResult` is a tuple with bytes, which `json.dump` refuses after
`open(..., 'w')` has truncated the file; `cut` remembers that. A package somebody has
uploaded may be octets nobody can parse: `authenticateClient` needs to read it, but
`getBoundProfilePackage` opens the file again and only checks that it is there, for
`from_der` of the unprotected package keeps the octets as they are, so it binds and
records whatever is in it (`Bindable`). External: that the
shelf keeps what was assigned. Left out: a crash between the update and the
removal in `handleNotification`, `otherSignedNotification` (it changes nothing),
the endpoints that only read.

### ProfileStore

An operation is two steps: it reads the file and prepares a new list, then
renames. In between any other writer can do either. A writer can die at any
point. The console's delete reads twice (`LookUp`, `DeleteLookedUp`). There is no
file in the beginning; the shipped file is a state reached by adds. Callers give
a matching id that is not empty and install profiles disabled. A write that fails
without ending the process is the same as `Crash` and `Open`.

### Device

`job` is what a program's one GUI thread is in the middle of, `download` its
download thread. The control centre asks lpac and then changes the store, if lpac
failed as well; the console changes the store and then asks. Each lpac connects
first, which empties the card (`reconnect` below), so a management command finds
no profile and its answer makes no difference: the model has no card, only its
log, `log`, and what was installed, `installed` and `ever`, which no guard reads. An
operation on the store is one step here: its races are in ProfileStore. `seen`
lets a click name any profile a table has shown, since the other program may
have changed the store since.

### Processes

`child` is the table of processes (`ProcessManager.processes`), `stray` the
processes a dead GUI or a script has left, `light` and `bar` the two displays. A
start succeeds, fails at once, or dies within the second it waits; a stop waits
and kills. `crashed` remembers that a GUI died without closing its window: what
it leaves running nobody promised to end.

### Transport, FileAccess

Octets of an answer are numbered, a status word is its first octet, the card is
free to warn (62xx), to ask for another length, of the command or of any GET RESPONSE,
to announce more data or another proactive command, and to refuse FETCH and TERMINAL
RESPONSE, within bounds. What such a repeat returns replaces all that was got before
it; `dropped` counts what is gone, and `AnswerWhole` says that nothing else is. FileAccess cuts a transparent EF into pieces of `MaxCmdLen`, with
the compare before and the verify after, and a record the same way with one command
each; an object is sent in pieces or deleted. The link may fail at any of these, before
or after the card has executed it.

### Shell

A file is the path of identifiers leading to it. `HostFiles` are those of the
profile, `CardFiles` those the card really has: MCShell has a file the profile
lacks and one the card lacks, and an application without files. The runtime's
idea of what is selected and the card's are two variables, per channel. A command
is a step, a walk (`export`, `fscheck`) a step per file. `reg` is whose commands the
shell has registered; `NeverTrapped` is stated where these are the selected file's alone.
A file of another channel can leave its own there as well (`Orphans`: over an `equip`), cmd2 then
refuses a second set of the class, and nothing is claimed of the way out.

### SecureChannel

Host and card each count commands and, under SCP03, encrypted blocks. Lengths are
the real ones, because what is too long raises between two counts (`HalfDone`).
`lost` and `half` say that a reader error or such an exception has happened:
`InStep` is about sessions where neither did, `ExecutedAsAsked` about all of them: a
MAC that was counted alone makes the card refuse what follows, an encryption counter
that was advanced alone (S16, data of 224 to 239 octets) makes it execute what follows
as something else. That one case, `Garbling`, is its exception, and no other. An
answer may also raise on the way back (`Rejected`): one without an R-MAC, or an empty
one that is to be decrypted. The card
follows the GlobalPlatform specification; in a session whose level has no C-MAC it
takes commands as they are, which is also how the shell sends them.

### Programming

`Program` gives for each of eleven card types the sequence of its writes: which
fields, what must be given for the step to be there (`when`: a parameter, an
application or files of the card), what it raises without (`uses`), and whether its
status word is checked. `given` is all that is there: parameters, applications,
options. A step whose parameter is None is skipped (`SkipStep`); empty values, which
some of the guards take for none and some do not, are left out, and so are `--probe`
and `--dry-run`. A write fails, an exception ends the card's turn, the program dies
anywhere. A value is named by whose it is: the card's number, or with a CSV source
the row of the card's own ICCID, for in a batch nothing else can be looked for.

The CSV record and the state file are written only if they are asked for
(`--write-csv`, `--batch-state`). A key is never written to an HLR:
`_dbi_binary_quote` applies `ord` to the octets of a `bytearray`, so with
`--write-hlr` every card ends in the error bin. A run starts with the number on the
command line; it cannot start where a state file is left, which `init_batch` reads
with `iteritems`, and that raises. So without a state file two runs give out the same
numbers, and `NumbersUnique` is about one run, or runs with a state file.

### CardFiles, CardProfiles, Equip

CardFiles has every DF and EF class with its file identifier, short identifier,
name, services and the mechanisms it decodes and encodes with; these are the
code's own tables. `Cards` are the combinations of profile, add-ons, applications
and model the probe can find. `Equip` adds their files in the order of the code,
and a clash raises. `TransparentDecoder` and its companions are the order in which
a class's members are tried.

### SaipTemplates, SaipElements, SaipFs, SaipProfile

A template is its list of files with path, type, size and default pattern, and
`Misnamed` the files whose `pe_name` is not the name of a member in
PE_Definitions.asn, so that `pe2files` finds no template for them.
`SaipFs` reads up to four elements in any order the validation accepts and builds
the tree with the cursor the code keeps. An element leaves a file as the template
has it, gives it content, or a size without or with a file descriptor byte and a fill
or repeat pattern (`Descriptors`); `NbRec` and `RecLen` are what the code makes of that, `Unfit`
where it raises, and `Body` how many octets the contents then have. Bounds: the size of
the template, records two octets longer or one record more; one octet of content, two
of pattern; one EF looked at between two DFs; in the last of the four elements every
file comes with its size. A file without a template is known as what its
descriptor says, under the name of the member.

`SaipProfile` keeps the list of elements with the two indexes, the
identification numbers, the header's services, and saves and reads them between
commands as saip-tool does. `Gone` is what the index by application lists, which is
what an insertion or removal has ever listed there. `Belongs` says, of the list alone, which
elements an application has.

### Bsp

A MAC is what it was computed over and a cipher text its key, counter and clear
text, so opening with another counter gives garbage. Between the ends segments
are lost, doubled or moved.

## 3. Runs

| run | module, cfg | result | shows |
|---|---|---|---|
| `manage` | VEuicc, VEuiccManage | pass | type; at most one enabled; refinement of the registry, up to three profiles with one ICCID and one AID |
| `session` | VEuicc, VEuiccSession | pass | session keys come from the pair and point held, and are left behind them only by an answered BF21 or an error |
| `link` | CardLink, CardLink | pass | commands are executed whole; no channel is closed under its owner; every lpac process ends |
| `smdpp` | MCSmDpp, SmDpp | pass | the history is authentic, complete and kept, or lost as a whole after a file was cut short |
| `store` | ProfileStore, ProfileStore | pass | one enabled, matching ids once, with two writers |
| `shell` | MCShell, Shell | pass | what the shell believes selected is selected; a write reaches it; nobody is trapped |
| `live` | MCLive, MCLive | pass | a command to a card ends (Transport); a status is shown in the end (Processes); a download ends (Device); one writer alone loses nothing (ProfileStore) |
| `safe` | MCSafe, MCSafe | pass | reported outcomes are true and objects whole (FileAccess); good cards are complete and numbers unique (Programming); the ends of a channel are in step and execute what was meant (SecureChannel); the store has what was installed, no more, and after a synchronisation no less (Device); a command's answer is its own and goes to its last octet, and proactive commands are answered unless the card refuses the answer (Transport); nothing is left running (Processes) |
| `profiles` | MCProfiles, MCProfiles | pass | every card's tree can be built, what is decoded is encoded alike, service tables say what was asked (Equip); files are where their template puts them if their name finds it, and filled to the size that counts (SaipFs); indexes agree, of a removed application no element is left (SaipProfile); a package is opened as it was closed or gives a beginning (Bsp) |
| `reconnect` | VEuicc, VEuiccReconnect | violation | a (dis)connect empties the card, against docs/04-V-EUICC.md |
| `smdpp_success` | SmDpp, SmDppSuccess | violation | a success is recorded as 'failed' |
| `store_delete` | ProfileStore, ProfileStoreDelete | violation | two writers: an enabled profile is deleted |

Run one with `tlc -workers 2 -config <cfg>.cfg <module>`; the longest takes about
two minutes.

**Bounds.** `MaxProfiles = 3`: enabling one of three must disable the others, and
a delete can be before, at or after the enabled position. `MaxChunks = 1`: a
second piece is handled as the first. Two one-time key pairs and two server
points: the second replaces the first under derived keys, and a point the card does not
accept is stored beside the first. Three lpac processes: a
dead one that is served, one waiting behind it, a third that comes later; three
segments: a first, a middle and a last one; two commands: one after a failed one.
Two sessions, two eUICCs, two signatures and `MaxRecords = 2`: sessions mix, one is
authenticated twice, a transaction has two records. Two writers and two profiles
in `store`, one writer and three profiles in `live`: the races are between two
operations. `live` and `safe`: answers of up to five octets in blocks of two (a first, a
middle and a short last GET RESPONSE), three proactive commands, two downloads.
`safe`: files of three octets in pieces of two, so that the last piece is a short one; two cards and one death of the program, with few or all parameters, with and without a state file, a CSV file or an HLR; command lengths below, at
and above where padding and MAC pass 255; two matching ids, one of them perhaps in
an old log, two starts of the daemon and one failure. `profiles`: up to four
file-bearing elements of all 22 templates; three edits of a profile; packages of
up to five octets in segments that hold two; services at both ends of an octet and
beyond the table. `shell`: two channels, and files on either side the other does
not have.

Symmetry is used for eUICCs and signatures in `smdpp` and for the cards of the stack
in `safe`, which check no liveness.
Deadlock is checked except in `live`, `safe` and `profiles`, whose parts really may
stop: a program that is done, a bound that is reached.

**Fairness.** `link`: weak fairness of the daemon's accept and of its work on the
served client: it has one thread, which does nothing else; of a running lpac with
an answer: a sequential program that sends, waits and goes on. None of `Start`,
`Kill` and `Restart`. `live`: weak fairness of a step of the transport, a loop that
nothing else holds up; of the two timers of a GUI that lives, and of a terminated
service's end; of lpac's download and of its time limit, and of the GUI thread
that finishes an operation it has begun. Strong fairness only of the end of a
download in the GUI thread: Qt's queue is served in order, so a user who keeps
clicking cannot hold up the event for ever. Of the console's download nothing is
claimed: its worker calls `wait(timeout=120)` only after it has read lpac's output to
the end (`mno/widgets/device_control_panel.py:52`, `59`), which a hanging lpac never comes to.

**What the violations say** is quoted with file and line under "findings"; each
counterexample is a schedule of a few requests. Further disagreements, whose
definitions are kept in the modules (add one to the cfg of its module's run to see
the counterexample):

* `RemovedAfterNotification` (SmDpp): a session whose id has a letter is not found
  by the notification, which looks it up in lower case (`osmo-smdpp.py:848`),
  against the docstring of `rsp.py:33`.
* `DownloadsPersist` (SmDpp): a crash in `_save` loses the history
  (`osmo-smdpp.py:169`), against docs/05-MODIFICATIONS.md:68.
* `LeavesByDelete` with two writers (ProfileStore): an update is lost
  (`profile_store.py:87`), although the class says "Thread-safe".
* `DeletedForGood` (Device): a profile deleted in the control centre comes back
  with the next download, because the log still names it; the dialog says "This
  action cannot be undone" (`profile_manager.py:247`).
* `PortFreed` (Processes): the comment says "Kill any existing process on the
  port", but the list given to `subprocess.run` with `shell=True` runs `kill`
  without an argument.
* `NothingDropped` (Transport): a GET RESPONSE in mid-answer that the card wants with
  another length is repeated, and `data, sw =` replaces the pieces before it
  (`transport/__init__.py:321`, where line 317 appends), although `send_apdu` promises
  the "returned data".
* `StatusReported` (Transport): over T=0 the GET RESPONSE that 63xx provokes
  replaces the status word that tells the tries left.
* `GoodHasKey` (Programming): where the command that writes the key is not
  checked, a card without its key is put in the good bin.
* `AllowedIsSent` (SecureChannel): commands of a length `max_cmd_len` allows raise
  when padding and MAC are added, after a counter has advanced.
* `NeverGarbled` (SecureChannel): such a command leaves an SCP03 session with C-ENC in
  which the card accepts the further commands but deciphers their data with another
  counter (`scp.py:559`); only a new session ends it.
* `SegmentBound` (Bsp): a segment can be longer than the 1020 octets the head of
  `bsp.py` names.
* `IsimServices` (Equip): the check of services that exclude an ISIM never finds one,
  for it looks a name up among objects.
* `Readable` (SaipFs): the phonebook template's files name 5F3A, their own base DF,
  as the path below it; it is looked for below that DF and not found, so reading a
  profile with the element raises. So does a file whose name finds no template, if the
  element does not describe it in full.
* `AllPlaced` (SaipFs): described in full, such a file is put in the base DF; in
  DF.TELECOM these are `ef-ice-graphics`, `ef-mcs-config` and `ef-v2xp-Uu`
  (`saip/templates.py:347`), which belong below it.
* `SizeKept` (SaipFs): an efFileSize without a file descriptor byte is not looked at,
  and records beyond the template's number are not counted
  (`saip/__init__.py:298`, `310`); writing the profile again then declares the other size. A
  default without dots is neither lengthened nor cut to the size, which
  `FilledWhole` leaves out for that reason.
* `OnlyNaaGone` (SaipProfile): for the same misspelt name as in the next item, an ISIM
  inserted between the USIM and its PINs loses these when the USIM is removed.
* `ServicesRebuilt` (SaipProfile): `_rebuild_pes_by_naa` resets `pres_by_naa`, a
  misspelt name (`saip/__init__.py:1567`), so removed applications keep their
  mandatory services.

Others need no run to see. A PrepareDownload leaves the session keys of the pair it
replaces in place (`v-euicc/src/apdu_handler.c:1030`): `KeysFollow` says how far they
can fall behind, not that they never do. The comment at line 1502 of that file says
the transaction id is compared with "the one from PrepareDownload", but a later
AuthenticateServer replaces it. The comment beside the card's constant ICCID says it is
"based on matching_id" (`v-euicc/src/apdu_handler.c:1839`), and since the profiles
share it, enable and disable act on the first profile of the store, whichever row
was clicked. `/mno/sessions` shows sessions nobody has authenticated in, although
its docstring says otherwise (`pysim/osmo-smdpp.py:994`). docs/04-V-EUICC.md says
the daemon rebuilds its view from profiles.json; no code does. `pySim-prog.py:691`
calls `iteritems`, so reading a batch state raises. `ust_update` of a service past
the table raises instead of extending it.

Each property of a passing run has a mutant: an operator next to the definition
it replaces, named "Mutant of" in its comment, that breaks the code the way a slip
would, and under which TLC finds the property violated.

## 4. Proofs

All theorems hold for every value of the constants that satisfies the named
assumptions (`NoneAssumption`, `CommandAssumption`, `BoundAssumption`,
`LinkAssumption`, `SmDppAssumption`, `CorruptAssumption`, `StoreAssumption`,
`MarkAssumption`, `ReaderAssumption`, `DeviceAssumption`, `ChannelAssumption`,
`FilesAssumption`, `StackAssumption`, `ServicesAssumption`, `BspAssumption`,
`ShellAssumption`, `WayOutAssumption`): special values are not ordinary ones, bounds
and lengths are naturals, a block or command holds at least one octet, a segment
has room for data beside its tag, length and MAC, services are numbered from one,
the demo script's log is finite, and the types of cards are the eleven that have a
`program()`. TLC evaluates them in every run.

`ShellAssumption` (`FileRules`) is about how files are numbered: every file hangs
from the MF by DFs, an EF has no files below it, an application hangs from the MF and
has files only when it says so, and no file has the FID of one above it or of a DF
beside its parent. A SELECT by FID searches exactly these places (TS 102 221 8.4),
so a card that breaks the rule could not be navigated by anybody; on the host's side
`add_file` refuses 3f00 and a FID that its directory already has, and the tables of
CardFiles keep the rest. `WayOutAssumption` is used for `ShellIsNeverTrapped`
only: the host knows only applications the card answered for
(`_match_applications`), and if some application has no files, the host knows one that has.
The second half is a real condition on the card: with nothing but applications without
files no command of the shell but a reset would lead back to the MF.

**VEuiccProofs.** `TypeCorrect` is inductive as it stands. `OneEnabled` goes
through the kinds of change a step can make to the list (`ListStep`: none, a new
disabled profile in front, one enabled alone, one disabled, one taken out, all
gone), which is also what the refinement needs. `KeysFollowTheirPairs` needs no
invariant: it is shown for each request, BF21 and BF23 being those that replace a
secret. `CardImplementsRegistry`: with
`EnabledIndex` and `Listed` as the refinement mapping, each kind of change is a step
of `ProfileRegistry` or no step. Where more than one could be enabled the `CHOOSE`
of the mapping would be arbitrary: `AtMostOneEnabled` is what makes it a function
of the list.

**CardLinkProofs.** `WholeCommands` speaks of what was executed, so the invariant
must say what is waiting to be: `Buffered` says that the buffer holds the segments
of the served process's command before its next one, *unless* that process's
"connect" is still unread, since then it may hold a dead process's. `Waiting`
says that whoever is in the queue has sent "connect" and no more, `Requests` what
lpac can send and that it does not go on after an error in mid-command, `Opened`
that a channel reported open is open. From these `CommandsAreWhole` and
`ChannelsStayOpen` follow, for any number of processes and segments.

**SmDppProofs.** The invariant is `TypeOK`, `SessionsAgreed` (a session holds what
its eUICC signed for it, so a record made from it does), `HistoryAuthentic`,
`FileInv` (the file is the list in memory or cannot be read at all: never an older or
a shorter list; while it was never cut it is the list) and `BoundIsRecorded`.
`RecordsAreKept` is an action property that follows from it, step by step, with the
one way a history is lost, all of it, at a start from a file that was cut short.

**ProfileStoreProofs.** `StoreInv` extends the two properties of the file to every
list about to be written over it: a stale list is still a good list, which is why
`OneEnabledStored` and `MatchingIdsStoredOnce` survive the races. The two
properties that do not (`store_delete`) are proved for a writer that is alone
(`Alone`), with `AloneInv`: the list it will write was made from what the file
still holds (`AloneEnabledKept`, `AloneLeavesByDelete`; `live` checks the same two on
an instance). They say that the store's own order of steps is right, and nothing of the races.

**ShellProofs.** `ShellInv` is inductive; TLC agreed on the instance of the run `shell`
before it was proved. `ShellType` says that the files the host has learnt still hang
together (`Rooted`: a probe adds a file below the selected one), that every channel's
file is one of them, and what becomes of the object of a channel that is closed while it
is in use (`loose`, no longer in the runtime state): its channel has no selected file
on the card. `Agreed` says of each channel that card and host have the same file, and
`Settled` what the host remembers of the application it is in: an application without
files selects nothing below it. `Settled` is there for the path: whether `select_file`
goes by an application first depends on what the host remembers, and with a stale
memory it would send the card FIDs it cannot find. The argument:

* `CardAnswers`: the card answers an FID or AID with the file that is meant or with
  nothing. Here the numbering rules are needed: near a DF an identifier names one file.
* `PathLeads`, `PathConnected`, `FirstStep`: for any two files of one tree the way of
  `build_select_path_to` ends at the second, and each of its files is one the card looks
  for from the file before, except out of an application without files.
* `GoMoves`: a way whose first file the card answers leaves host and card at one
  file, also when the card stops answering on it; `GoStuck`: one whose first file it does not answer
  leads nowhere. This is an induction over the positions of a path of any length.
* For each piece of code that moves the selection there is a statement of what it leaves
  behind: `Posted` for `_select_post`, `Probed` for `probe_file`, `Answered` for the one
  SELECT to an application or the MF.
* Each action is a composition of these, and what an exception leaves is undone by the way
  back (`OrBack`), which is open: `WayBack` for a probe from an EF, `ReturnSound` for the rest.

Hence `SelectionStaysCoherent`. `WritesMeetTheirFile` needs the rules about FIDs once
more: the write selects by FID alone, and the card looks for it in the directory, then
among the directory's siblings. `ShellIsNeverTrapped` follows the one branch of `select`
that leads out of an application without files. All of it holds for any two trees,
any number of channels and any number of learnt files.

**MCSafeProofs.** Six parts, each with its inductive invariant, which was checked by
TLC before it was proved.

* *Transport:* `ReaderInv` says for each place in the loop what was
  received (`FromTo(0, sent)`, the beginning of the answer, while there is more; all that
no repeat has replaced with a last status word), that the answer kept before the first FETCH is the
  command's own, and that 91xx is answered exactly when a proactive command waits.
  From it `AnswersAreWhole` and `AllAreAnswered`, for answers, blocks and numbers of
  proactive commands of any size.
* *Processes:* `NothingIsLeftRunning`, inductive with the type of `stray`.

* *Device,* `DeviceInv`: what is in the log was installed, what was installed since
  the daemon started is in it, and a download counted as done did install. Hence
  `StoreHoldsOnlyInstalled`. `DownloadSyncsAll` needs what the loop over the log does:
  `AddProfilesAdds` says that afterwards the store has what it had and all that the
  log names. This is an induction over the log; the library's induction theorems
  take an operator, so `SetInduction` (ListTheorems) is stated for a set of numbers and
  proved from the least element of a well-founded relation (`WFMin`), and `Recursion`
  gives from it the values of a recursive function.
* *SecureChannel,* `ChannelInv`: what is on the wire carries the counters of its
  sender (`WireInv`); opening a session takes both ends to the same first MAC
  (`TrialInv`); each end's encryption counter is tied to its MAC counter (`Tied`), and
  while nothing was lost or given up the card is as far as the shell, or behind by
  the command under way (`CountInv`). The ties are what makes it inductive: an
  encrypted command advances two counters at two places of the code. `JobInv` counts
  the octets of a LOAD or STORE DATA. A command given up half done unties the shell's counters only where there is an
  encryption counter, so that all the rest holds in every session. Hence
  `EndsStayInStep` and `CardExecutesAsAsked`, for commands and contents of any length.
* *FileAccess,* `FileInv`: the file is the one before the command, overlaid with the
  beginning of the data that was written so far (`BinJob`); the card has collected
  the beginning of this object and of no other (`SetJob`); a record under way is the old
one before its write and the new one after it (`RecJob`). The lemmas about `Overlay`
  say that the next chunk makes the beginning longer and that an equal part may be
  left alone. Hence `OutcomesAreTrue` and `ObjectsStayWhole`, for files, data and
  command lengths of any size.
* *Programming,* `StackInv`: every field that has to be on the card is there or still
  to come in the program (`ToCome`), the number under way is above those in the good
  bin, and, if there is to be a state file, a number was counted only with one. Without that last part a
  restart could give a number again: `Restart` begins anew only where there is no state file, and then either none is asked for or no card is in the good bin. A card of the good bin has all from one number or row (`GoodCard`). Hence `GoodCardsAreComplete` and `NumbersAreUnique`, for any number
  of cards.

**MCProfilesProofs.** Three parts, again with an inductive invariant each.

* *Service tables,* `ServiceInv`: a bit is set for the services that are wanted and for
  no other number. What the proof needs is that number and bit determine each other in
  both tables (`UstBitOnce` and its like): that is what keeps a command from another
  service's bits. Hence `ServicesAreAsAsked`.
* *SaipProfile,* `SequenceInv`: the list has no number twice, `by_type` lists it by type,
  `by_naa` lists at least every element of every application, in one of its instances (it
  is never emptied, so it may list more), and the same of the encoding that may be parsed later. What a
  list without some elements is (`Keep`) is an induction over the list. Hence
  `NumbersAndIndexesAgree` and, an action property, `NaasGoWhole`.
* *Bsp,* `PackageInv`. `Sealed` is a sequence's segments, as a function of the keys and
  the profile, and `After` the instance after some of them. While the package is built
  it is the first of them (`Built`), and the SM-DP+ is where the next begins. On its way
  every segment stays one of its sequence (`LooseParts`). The other end is after i
  segments of the sequence at hand and has the beginning of the data that i pieces give
  (`Reached`), or the sequence that replaces the keys was lost and it can open nothing
  more (`KeysLost`). `ProtectSegments` says, by induction over the pieces, which instance
  made each segment; `Receives` that this state opens it; `Refuses` that the same state
  opens no other segment of the sequence, because a MAC is as long a chain as its place;
  `OtherKeys` that other keys open none. Hence `PackagesRoundTrip` and
  `DamageGivesBeginnings`, for profiles, segments and blocks of any size.

Two slips of the models came out of failing proofs and were corrected: a card in a
session without C-MAC had refused the plain commands the shell sends in it, and a
program was one list of steps chosen at its beginning where the code looks at each
parameter when it comes to it.

**Lengths.** tlapm 1.4.5 gives its SMT solver an axiom about lengths that is
right for sequences only (any value with domain `1..n` has length `n`, and the
reverse). All proofs were also run, from nothing, with the axiom restricted to
sequences; the few leaves that had leaned on the rest are stated so that
they pass both ways.

**Only model-checked:** liveness (`EveryoneEnds`, `Ends`, `ShownInTheEnd`,
`DownloadEnds`), which is beyond the prover. `EveryCardEquips`, `EncodedAsDecoded`,
`PlacedByTemplate` and `FilledWhole` are about tables of the code: TLC's answer is
already the answer for all of them, and a proof would have nothing to generalise. Every
other property of a passing run is a theorem.

## 5. Not modelled

The arithmetic of ECDSA, ECKA, X9.63, AES and DES; BER encodings except for the
length octet the card misreads; ASN.1 and X.509 parsing; what the octets of a
single EF mean; JSON text, logging, layout. The size of the 8192-octet line
buffers on both sides. lpac's other drivers and applets. pySim's OTA, CAT and
tracing code, its readers' drivers, and shell commands that only print: decoders
without state, for which a model would repeat their tables.

## 6. Plan

Done: all modules of section 2, model-checked; proofs about all of them except the
tables.

1. **Rsp**: lpac's download flow (`lpac/src/applet/profile/download.c`,
   `lpac/euicc/es10b.c`, `es9p.c`) as a process with a program counter that calls
   VEuicc and SmDpp; processes killed or cut off from the server, lost HTTP
   answers, cancel on failure. Properties: card and server hold the same pair of
   one-time keys when a package is loaded; an installed profile has a record for
   this card and this matching id; every download ends. Theorem: key agreement.
2. **Tlv**: BER-TLV and COMPREHENSION-TLV coding (`pySim/utils.py`, `cat.py`) as
   functions checked against one another over bounded octet strings.
3. **Iccid**: the card's digit order when it lists and when it parses ICCIDs.
