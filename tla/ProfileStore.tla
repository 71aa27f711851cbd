---------------------------- MODULE ProfileStore ----------------------------
(***************************************************************************)
(* The file data/profiles.json and its writers: gui/services/              *)
(* profile_store.py, used by the control centre and by the MNO console at  *)
(* the same time.  An operation reads the whole file under a shared lock,  *)
(* releases the lock, changes the list in memory and renames a new file    *)
(* over the old one.  Reading and renaming are atomic, the operation as a  *)
(* whole is not: it is two steps here, and the other writers' steps come   *)
(* between them.                                                           *)
(***************************************************************************)
EXTENDS Integers, Sequences

CONSTANTS
    Writers,     \* the processes that opened the store
    Mids,        \* matching ids, not empty
    Iccids,      \* ICCIDs; several profiles may have the same
    None,
    MaxEntries   \* bound: profiles in the file

ASSUME StoreAssumption ==
    /\ None \notin Mids
    /\ MaxEntries \in Nat

VARIABLES
    exists,      \* there is a file
    db,          \* the list in it
    up,          \* the writers that have constructed their ProfileStore
    target,      \* matching id a delete of the console has looked up
    pending      \* the list an operation is about to write

vars == <<exists, db, up, target, pending>>

-----------------------------------------------------------------------------
Entry == [mid : Mids, iccid : Iccids, enabled : BOOLEAN]

\* What an operation writes, and which operation it is.
Job == [op : {"create", "add", "enable", "disable", "delete", "eid"}, list : Seq(Entry)]

ASSUME MarkAssumption == None \notin Job

TypeOK ==
    /\ exists \in BOOLEAN
    /\ db \in Seq(Entry)
    /\ up \subseteq Writers
    /\ target \in [Writers -> Mids \cup {None}]
    /\ pending \in [Writers -> Job \cup {None}]

Init ==
    /\ exists = FALSE /\ db = <<>>
    /\ up = {}
    /\ target = [w \in Writers |-> None]
    /\ pending = [w \in Writers |-> None]

\* A writer between two operations.  It can read the file: nothing removes it.
Idle(w) == w \in up /\ pending[w] = None /\ target[w] = None /\ exists

Named(id) == {i \in 1 .. Len(db) : db[i].iccid = id}

\* The search stops at the first match.
First(i, S) == i \in S /\ \A j \in S : i <= j

Prepare(w, op, list) == pending' = [pending EXCEPT ![w] = [op |-> op, list |-> list]]

-----------------------------------------------------------------------------
\* Mutant of Open: the test for the file is missing.
OpenAnew(w) ==
    /\ w \notin up
    /\ up' = up \cup {w}
    /\ Prepare(w, "create", <<>>)
    /\ UNCHANGED <<exists, db, target>>

\* __init__: _ensure_db_exists tests for the file, then creates it.
Open(w) ==
    /\ w \notin up
    /\ up' = up \cup {w}
    /\ IF exists THEN UNCHANGED pending ELSE Prepare(w, "create", <<>>)
    /\ UNCHANGED <<exists, db, target>>

\* _write_atomic: the rename.
Write(w) ==
    /\ pending[w] # None
    /\ exists' = TRUE
    /\ db' = pending[w].list
    /\ pending' = [pending EXCEPT ![w] = None]
    /\ UNCHANGED <<up, target>>

\* The process dies; what it has not renamed is a temporary file.
Crash(w) ==
    /\ w \in up
    /\ up' = up \ {w}
    /\ target' = [target EXCEPT ![w] = None]
    /\ pending' = [pending EXCEPT ![w] = None]
    /\ UNCHANGED <<exists, db>>

\* Mutant of AddProfile: the loop over the matching ids is missing.
AddAgain(w, m, id) ==
    /\ Idle(w)
    /\ Len(db) < MaxEntries
    /\ Prepare(w, "add", Append(db, [mid |-> m, iccid |-> id, enabled |-> FALSE]))
    /\ UNCHANGED <<exists, db, up, target>>

\* add_profile, when no profile has the matching id; otherwise nothing happens.
AddProfile(w, m, id) ==
    /\ Idle(w)
    /\ Len(db) < MaxEntries
    /\ \A i \in 1 .. Len(db) : db[i].mid # m
    /\ Prepare(w, "add", Append(db, [mid |-> m, iccid |-> id, enabled |-> FALSE]))
    /\ UNCHANGED <<exists, db, up, target>>

\* The entry with the state enabled or disabled.
WithState(e, enabled) == [e EXCEPT !.enabled = enabled]

\* Mutant of Enabled: the loop over the other profiles is missing.
EnabledToo(i) == [j \in 1 .. Len(db) |-> IF j = i THEN WithState(db[j], TRUE) ELSE db[j]]

\* The list with the i-th profile enabled and no other.
Enabled(i) == [j \in 1 .. Len(db) |-> WithState(db[j], j = i)]

EnableProfile(w, id) ==
    \E i \in 1 .. Len(db) :
        /\ Idle(w) /\ First(i, Named(id))
        /\ Prepare(w, "enable", Enabled(i))
        /\ UNCHANGED <<exists, db, up, target>>

\* disable_profile; a profile that is disabled already is an error.
DisableProfile(w, id) ==
    \E i \in 1 .. Len(db) :
        /\ Idle(w) /\ First(i, Named(id))
        /\ db[i].enabled
        /\ Prepare(w, "disable", [db EXCEPT ![i] = WithState(@, FALSE)])
        /\ UNCHANGED <<exists, db, up, target>>

\* Mutant of Removable: the state of the profile is not asked for.
AnyRemovable(i) == TRUE

\* Only a profile that is not enabled is deleted.
Removable(i) == ~db[i].enabled

Without(i) == [j \in 1 .. Len(db) - 1 |-> IF j < i THEN db[j] ELSE db[j + 1]]

OfMid(m) == {i \in 1 .. Len(db) : db[i].mid = m}

\* delete_profile by matching id: the profile leaves the list that was read.  It
\* is an error when there is none, or when it is enabled.
Delete(w, m) ==
    \/ \E i \in 1 .. Len(db) :
          /\ First(i, OfMid(m)) /\ Removable(i)
          /\ Prepare(w, "delete", Without(i))
    \/ /\ \A i \in 1 .. Len(db) : First(i, OfMid(m)) => ~Removable(i)
       /\ UNCHANGED pending

\* The control centre deletes the profile of a row by its matching id.
DeleteProfile(w, m) ==
    /\ Idle(w)
    /\ Delete(w, m)
    /\ UNCHANGED <<exists, db, up, target>>

\* The console looks the matching id of an ICCID up first ...
LookUp(w, id) ==
    \E i \in 1 .. Len(db) :
        /\ Idle(w) /\ First(i, Named(id))
        /\ target' = [target EXCEPT ![w] = db[i].mid]
        /\ UNCHANGED <<exists, db, up, pending>>

\* ... and then deletes by it, in whatever the file holds by now.
DeleteLookedUp(w) ==
    /\ target[w] # None /\ exists
    /\ Delete(w, target[w])
    /\ target' = [target EXCEPT ![w] = None]
    /\ UNCHANGED <<exists, db, up>>

\* set_eid: the list is written back as it was read.
SetEid(w) ==
    /\ Idle(w)
    /\ Prepare(w, "eid", db)
    /\ UNCHANGED <<exists, db, up, target>>

Next ==
    \E w \in Writers :
        \/ Open(w) \/ Write(w) \/ Crash(w) \/ SetEid(w)
        \/ \E m \in Mids, id \in Iccids : AddProfile(w, m, id)
        \/ \E id \in Iccids : EnableProfile(w, id) \/ DisableProfile(w, id) \/ LookUp(w, id)
        \/ \E m \in Mids : DeleteProfile(w, m)
        \/ DeleteLookedUp(w)

Spec == Init /\ [][Next]_vars

-----------------------------------------------------------------------------
(* Properties. *)

OneEnabled(l) == \A i, j \in 1 .. Len(l) : l[i].enabled /\ l[j].enabled => i = j

\* At most one profile of the file is enabled, though an enable that works on
\* an old list is written over the enables of other processes (enable_profile).
OneEnabledInFile == OneEnabled(db)

UniqueMids(l) == \A i, j \in 1 .. Len(l) : l[i].mid = l[j].mid => i = j

\* No matching id is in the file twice, though two writers may add the same one
\* at the same time (add_profile).
MatchingIdsUnique == UniqueMids(db)

\* What makes both inductive: every list about to be written has them too.
StoreInv ==
    /\ OneEnabledInFile /\ MatchingIdsUnique
    /\ ~exists => db = <<>>
    /\ \A w \in Writers :
          pending[w] # None => OneEnabled(pending[w].list) /\ UniqueMids(pending[w].list)

InList(l, m) == \E i \in 1 .. Len(l) : l[i].mid = m
EnabledIn(l, m) == \E i \in 1 .. Len(l) : l[i].mid = m /\ l[i].enabled

\* The step renames the file of an operation op of a writer.
Renames(op) ==
    \E w \in Writers : pending[w] # None /\ pending[w].op = op /\ pending'[w] = None

\* What the docstring of ProfileStore says: "Cannot delete an enabled profile".
EnabledNotDeleted ==
    [][Renames("delete") => \A m \in Mids : EnabledIn(db, m) => InList(db', m)]_vars

\* What "Thread-safe JSON profile storage" says in the same docstring: a profile
\* leaves the file by a delete, not by another writer's other operation.
LeavesByDelete ==
    [][~Renames("delete") => \A m \in Mids : InList(db, m) => InList(db', m)]_vars

\* What makes the two inductive for a writer that is alone: the list it is about
\* to write was made from the list that is still in the file.
AloneInv ==
    \A w \in Writers :
        pending[w] # None =>
            \A m \in Mids :
                IF pending[w].op = "delete"
                THEN EnabledIn(db, m) => InList(pending[w].list, m)
                ELSE InList(db, m) => InList(pending[w].list, m)

=============================================================================
