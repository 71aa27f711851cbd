---------------------------- MODULE Programming ----------------------------
(***************************************************************************)
(* pySim-prog over a stack of cards: detect, erase, find or generate the   *)
(* parameters, the sequence of writes of each card type's program()        *)
(* (pySim/legacy/cards.py), the record in the CSV file and the HLR, the    *)
(* card number and its state file, and the bins of the card handler.  What *)
(* a card holds is the set of its fields, each with the number, or the row *)
(* of the CSV file, it was written for.  The run may die anywhere and be   *)
(* started again.                                                          *)
(***************************************************************************)
EXTENDS Naturals, Sequences, FiniteSets, SequencesExt

CONSTANTS
    Cards,       \* the stack
    Types,       \* types of card in it, names of Program
    MaxNum,      \* bound: card numbers
    MaxDeaths,   \* bound: runs that die
    None

VARIABLES
    ctype,       \* type of the cards in the stack
    source,      \* "cmdline" or "csv"
    given,       \* parameters, applications, files and options that are there
    erase,       \* --erase
    num,         \* opts.num
    state,       \* number in the batch state file, None before the first save
    pc, todo,    \* what is to be done with the card in the reader
    reader,      \* that card, or None
    holds,       \* card -> field -> whose parameter it is, None
    csv,         \* for whom parameters are recorded there
    good, bad,   \* the bins
    deaths

vars == <<ctype, source, given, erase, num, state, pc, todo, reader, holds, csv, good, bad, deaths>>
runVars == <<ctype, source, given, erase, deaths>>

-----------------------------------------------------------------------------
(* program(): a step writes some fields with one command, or with a few that  *)
(* go together.  `when' and `uses' are alternatives of things given: without   *)
(* any of the first the step is skipped, without any of the second it raises.  *)
(* Its status word may go unchecked.  A parameter that is not given is None,   *)
(* the empty ones are left out.                                               *)

Params == {"iccid", "imsi", "ki", "opc", "plmn", "smsp", "name", "acc", "msisdn", "opmode", "fplmn", "adm"}
\* What the cards have besides, and the options: --write-csv, --write-hlr, --batch-state.
Options == {"isim", "usim", "files", "csv", "hlr", "state"}
Fields == Params \cup {"ad", "kialg", "isim ki", "isim opc", "ims", "usim ad", "usim ki", "usim opc", "ehplmn", "epdg"}

Step(w, when, uses, checked) == [w |-> w, when |-> when, uses |-> uses, checked |-> checked]
Always == {{}}
Do(fields) == Step(fields, Always, {fields \cap Params}, TRUE)
When(things, fields) == Step(fields, {things}, Always, TRUE)
If(param) == When({param}, {param})
Uses(things) == Step({}, Always, {things}, TRUE)
Verify == Uses({})
Ad == Step({"ad"}, {{"plmn"}, {"opmode"}}, Always, TRUE)

MagicSimBase == <<Uses({"plmn"}), Do({"name"}), Do({"iccid", "imsi", "ki", "plmn"} \cup ({"acc"} \cap given)), Do({"plmn"})>>
FakeMagicSim == <<Do({"plmn"}), Do({"name", "iccid", "imsi", "ki", "smsp"})>>
GrcardSim == <<Verify, Do({"iccid"}), Do({"imsi"}), If("acc"), If("smsp"), Step({"ki"}, Always, {{"ki"}}, FALSE), Do({"plmn"})>>
SysmoUSIMgr1 == <<Verify, Do({"ki", "opc", "iccid", "imsi"})>>
SysmoSIMgr2 == <<Verify, Step({"adm"}, Always, Always, FALSE), Verify, Do({"iccid"}), Do({"imsi"}), If("acc"),
                 Do({"plmn"}), Do({"kialg"}), Do({"ki"}), If("smsp")>>
SysmoUSIMSJS1 == <<Uses({"adm"}), Do({"iccid"}), Do({"ki"}), Do({"opc"}), If("name"), If("acc"), Do({"imsi"}),
                   If("plmn"), Ad, If("smsp"), If("msisdn")>>
FairwavesSIM == <<Uses({"adm"}), If("smsp"), If("plmn"), If("imsi"), If("ki"), If("opc"), If("acc")>>
OpenCellsSim == <<Uses({"adm"}), Do({"iccid"}), Do({"ki"}), Do({"opc"}), Do({"imsi"})>>
WavemobileSim == <<Uses({"adm"}), If("smsp"), If("imsi"), If("acc"), If("plmn"), Ad>>
SysmoISIMSJA2 == <<Uses({"adm"}), If("name"), If("imsi"), If("plmn"), Ad, If("smsp"), If("msisdn"), If("acc"), If("ki"), If("opc")>>
\* The files of its two applications, the keys again among them; EF.AD of the
\* second takes a name that is bound only if there was one before.
SysmoISIMSJA2Apps == <<
    When({"isim", "ki"}, {"isim ki"}), When({"isim", "opc"}, {"isim opc"}), When({"isim", "files"}, {"ims"}),
    Step({"usim ad"}, {{"usim"}}, {{"plmn"}, {"opmode"}}, TRUE),
    When({"usim", "ki"}, {"usim ki"}), When({"usim", "opc"}, {"usim opc"}),
    When({"usim", "files", "plmn"}, {"ehplmn"}), When({"usim", "files"}, {"epdg"})>>
GialerSim == <<Verify, If("iccid"), If("imsi"), If("acc"), If("smsp"), If("ki"), If("opc"), If("fplmn"), If("plmn"), Ad>>

Program(t) ==
    CASE t = "magicsim" -> MagicSimBase      [] t = "fakemagicsim" -> FakeMagicSim
      [] t = "grcardsim" -> GrcardSim        [] t = "sysmousim-gr1" -> SysmoUSIMgr1
      [] t = "sysmosim-gr2" -> SysmoSIMgr2   [] t = "sysmousim-sjs1" -> SysmoUSIMSJS1
      [] t = "fairwaves" -> FairwavesSIM     [] t = "opencells" -> OpenCellsSim
      [] t = "wavemobile" -> WavemobileSim   [] t = "sja2" -> SysmoISIMSJA2 \o SysmoISIMSJA2Apps
      [] t = "gialersim" -> GialerSim

Has(alternatives) == \E things \in alternatives : things \subseteq given
Written(t) == UNION {s.w : s \in {s \in ToSet(Program(t)) : Has(s.when) /\ s.checked}}

Blank == [f \in Fields |-> None]
\* erase() is there for two families of cards, for the others it only warns.
CanErase == {"magicsim", "fakemagicsim"}

-----------------------------------------------------------------------------
(* Parameters. *)

\* gen_parameters has a value for each of these, and no card is programmed from
\* a row without the ADM key (read_params_csv, print_parameters).
Required(src) ==
    IF src = "csv" THEN {"iccid", "adm"}
    ELSE {"iccid", "imsi", "ki", "opc", "plmn", "smsp", "name"}

\* Whose parameters they are: those of the card's number, or those in the row
\* of the ICCID the card has, there being none to look for by number in a batch.
Value == IF source = "csv" THEN reader ELSE num

-----------------------------------------------------------------------------

Init ==
    /\ ctype \in Types
    /\ source \in {"cmdline", "csv"}
    /\ \E more \in {{"imsi", "ki", "isim", "usim"}, Params \cup {"isim", "usim", "files"}},
          options \in {{}, {"hlr"}, {"csv", "state"}} :
            given = Required(source) \cup more \cup options
    /\ erase \in BOOLEAN
    /\ num = 0 /\ state = None
    /\ pc = "get" /\ todo = <<>> /\ reader = None
    /\ holds = [c \in Cards |-> Blank]
    /\ csv = {} /\ good = {} /\ bad = {} /\ deaths = 0

\* ch.get: the next card, or the one a run that died left in the reader
Get(c) ==
    /\ pc = "get"
    /\ c \notin good \cup bad
    /\ num < MaxNum
    /\ reader' = c
    /\ pc' = IF erase THEN "erase" ELSE "params"
    /\ UNCHANGED <<runVars, num, state, todo, holds, csv, good, bad>>

\* card_detect finds nothing, there is no row for the card, or another step
\* raises: the main loop sends the card to the error bin.
Fails ==
    /\ pc \in {"erase", "params", "record", "done"}
    /\ pc' = "error"
    /\ UNCHANGED <<runVars, num, state, todo, reader, holds, csv, good, bad>>

Erase ==
    /\ pc = "erase"
    /\ holds' = IF ctype \in CanErase THEN [holds EXCEPT ![reader] = Blank] ELSE holds
    /\ pc' = "params"
    /\ UNCHANGED <<runVars, num, state, todo, reader, csv, good, bad>>

\* gen_parameters or read_params_csv
GetParameters ==
    /\ pc = "params"
    /\ pc' = "program" /\ todo' = Program(ctype)
    /\ UNCHANGED <<runVars, num, state, reader, holds, csv, good, bad>>

\* What the card in the reader holds after a step.
Write(s) == [holds EXCEPT ![reader] = [f \in Fields |-> IF f \in s.w THEN Value ELSE @[f]]]

Advance ==
    /\ todo' = Tail(todo)
    /\ pc' = IF Tail(todo) = <<>> THEN "record" ELSE "program"

\* Mutant of ProgramStep: the exception of a refused command is caught.
ProgramStepCaught(executed) ==
    /\ pc = "program" /\ todo # <<>> /\ Has(Head(todo).when)
    /\ holds' = IF executed /\ Has(Head(todo).uses) THEN Write(Head(todo)) ELSE holds
    /\ Advance
    /\ UNCHANGED <<runVars, num, state, reader, csv, good, bad>>

\* A step whose parameter is not there: nothing is sent.
SkipStep ==
    /\ pc = "program" /\ todo # <<>> /\ ~Has(Head(todo).when)
    /\ Advance
    /\ UNCHANGED <<runVars, num, state, reader, holds, csv, good, bad>>

\* One step of program(): a refused command raises where it is checked, and a
\* value the step cannot do without raises before anything is sent.
ProgramStep(executed) ==
    /\ pc = "program" /\ todo # <<>> /\ Has(Head(todo).when)
    /\ LET s == Head(todo)
       IN  /\ executed => Has(s.uses)
           /\ holds' = IF executed THEN Write(s) ELSE holds
           /\ IF executed \/ (Has(s.uses) /\ ~s.checked) THEN Advance
              ELSE pc' = "error" /\ todo' = <<>>
    /\ UNCHANGED <<runVars, num, state, reader, csv, good, bad>>

\* write_parameters_to_csv_and_hlr: without a column for the name or the SMSP
\* there is no row to write (Fails).  A key is never written to an HLR:
\* _dbi_binary_quote takes its octets for characters, and raises.
Record ==
    /\ pc = "record"
    /\ csv' = IF "csv" \in given THEN csv \cup {Value} ELSE csv
    /\ pc' = IF "hlr" \in given THEN "error" ELSE "save"
    /\ UNCHANGED <<runVars, num, state, todo, reader, holds, good, bad>>

\* Mutant of Save: the number is counted only when the state is saved.
SaveUncounted ==
    /\ pc = "save"
    /\ num' = IF "state" \in given THEN num + 1 ELSE num
    /\ state' = IF "state" \in given THEN num + 1 ELSE state
    /\ pc' = "done"
    /\ UNCHANGED <<runVars, todo, reader, holds, csv, good, bad>>

\* The next number, and save_batch, if there is a state file to write
Save ==
    /\ pc = "save"
    /\ num' = num + 1
    /\ state' = IF "state" \in given THEN num + 1 ELSE state
    /\ pc' = "done"
    /\ UNCHANGED <<runVars, todo, reader, holds, csv, good, bad>>

\* The state file cannot be opened, or not be written once it is; what is in it
\* then makes no difference, no run can take it up.
SaveFails(opened) ==
    /\ pc = "save" /\ "state" \in given
    /\ num' = num + 1
    /\ state' = IF opened THEN num + 1 ELSE state
    /\ pc' = "error"
    /\ UNCHANGED <<runVars, todo, reader, holds, csv, good, bad>>

Done ==
    /\ pc = "done"
    /\ good' = good \cup {reader}
    /\ reader' = None /\ pc' = "get"
    /\ UNCHANGED <<runVars, num, state, todo, holds, csv, bad>>

Error ==
    /\ pc = "error"
    /\ bad' = bad \cup {reader}
    /\ reader' = None /\ pc' = "get" /\ todo' = <<>>
    /\ UNCHANGED <<runVars, num, state, holds, csv, good>>

\* The run dies; the card stays in the reader, in no bin.
Die ==
    /\ pc # "dead" /\ reader # None
    /\ deaths < MaxDeaths
    /\ deaths' = deaths + 1
    /\ pc' = "dead" /\ todo' = <<>>
    /\ UNCHANGED <<ctype, source, given, erase, num, state, reader, holds, csv, good, bad>>

\* A new run begins with the number on the command line, whatever was counted
\* before.  init_batch reads a state file if there is one, but cannot take it
\* up, iteritems being gone from Python 3: no run gets past it.
Restart(n) ==
    /\ pc = "dead"
    /\ state = None
    /\ pc' = "get" /\ reader' = None
    /\ num' = n
    /\ UNCHANGED <<runVars, state, todo, holds, csv, good, bad>>

Next ==
    \/ \E c \in Cards : Get(c)
    \/ Fails \/ Erase \/ GetParameters \/ SkipStep \/ Record \/ Save \/ Done \/ Error \/ Die
    \/ \E x \in BOOLEAN : ProgramStep(x) \/ SaveFails(x)
    \/ \E n \in 0..1 : Restart(n)

Spec == Init /\ [][Next]_vars

\* A card in the good bin holds every field its type's program() writes with
\* a checked command, all from one set of parameters, and these are recorded
\* if a record is asked for.
GoodComplete ==
    \A c \in good : \A f, g \in Written(ctype) :
       /\ holds[c][f] # None
       /\ holds[c][f] = holds[c][g]
       /\ "csv" \in given => holds[c][f] \in csv

\* No two cards of the good bin were given one IMSI, whatever failed between the
\* card, the record and the state file: in one run, and over several if there is
\* a state file, which a new run does not begin beside.  Without one the numbers
\* begin again.
NumbersUnique ==
    "imsi" \in Written(ctype) /\ ("state" \in given \/ deaths = 0) =>
      \A c, d \in good : c # d => holds[c]["imsi"] # holds[d]["imsi"]

\* A card in the good bin holds the key its type's program() writes; not so
\* where the command that writes it is not checked.
GoodHasKey ==
    \A c \in good, s \in ToSet(Program(ctype)) :
       "ki" \in s.w /\ Has(s.when) => holds[c]["ki"] # None

=============================================================================
