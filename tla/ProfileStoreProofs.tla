------------------------- MODULE ProfileStoreProofs -------------------------
(***************************************************************************)
(* Proofs about ProfileStore for any number of writers, profiles and       *)
(* ICCIDs: what its file never holds, and what a writer that is alone      *)
(* never does to it.                                                       *)
(***************************************************************************)
EXTENDS ProfileStore, ListTheorems, TLAPS

-----------------------------------------------------------------------------
(* Lists. *)

\* A list the store may hold.
Good(l) == l \in Seq(Entry) /\ OneEnabled(l) /\ UniqueMids(l)

\* What the list of an operation keeps of the list in the file.
Follows(op, l) ==
    \A m \in Mids : IF op = "delete" THEN EnabledIn(db, m) => InList(l, m)
                    ELSE InList(db, m) => InList(l, m)

\* An entry of the file.
LEMMA EntryOf ==
    ASSUME db \in Seq(Entry), NEW i \in 1 .. Len(db)
    PROVE  db[i] \in Entry
BY ElementOfSeq

\* WithState keeps the identifiers and sets the state.
LEMMA WithStateType ==
    ASSUME NEW e \in Entry, NEW b \in BOOLEAN
    PROVE  /\ WithState(e, b) \in Entry
           /\ WithState(e, b).mid = e.mid
           /\ WithState(e, b).enabled = b
BY DEF WithState, Entry

\* The empty list of a new file.
LEMMA CreateList ==
    ASSUME db = <<>>
    PROVE  Good(<<>>) /\ Follows("create", <<>>)
BY EmptySeq DEF Good, OneEnabled, UniqueMids, Follows, InList

\* The list add_profile writes.
LEMMA AddList ==
    ASSUME Good(db), NEW m \in Mids, NEW id \in Iccids,
           \A i \in 1 .. Len(db) : db[i].mid # m
    PROVE  LET l == Append(db, [mid |-> m, iccid |-> id, enabled |-> FALSE])
           IN  Good(l) /\ Follows("add", l)
<1>. DEFINE e == [mid |-> m, iccid |-> id, enabled |-> FALSE]
            l == Append(db, e)
<1>1. e \in Entry /\ e.mid = m /\ e.enabled = FALSE
  BY DEF Entry
<1>. HIDE DEF e
<1>2. /\ l \in Seq(Entry) /\ Len(l) = Len(db) + 1
      /\ \A i \in 1 .. Len(db) : l[i] = db[i]
      /\ l[Len(db) + 1] = e
  BY <1>1, AppendProperties DEF Good
<1>. HIDE DEF l
<1>3. Len(db) \in Nat
  BY DEF Good
<1>4. OneEnabled(l)
  BY <1>1, <1>2, <1>3 DEF Good, OneEnabled
<1>5. UniqueMids(l)
  BY <1>1, <1>2, <1>3 DEF Good, UniqueMids
<1>6. Follows("add", l)
  BY <1>2, <1>3 DEF Follows, InList
<1>. QED  BY <1>2, <1>4, <1>5, <1>6 DEF Good, l, e

\* The list enable_profile writes.
LEMMA EnableList ==
    ASSUME Good(db), NEW i \in 1 .. Len(db)
    PROVE  Good(Enabled(i)) /\ Follows("enable", Enabled(i))
<1>. DEFINE l == [j \in 1 .. Len(db) |-> WithState(db[j], j = i)]
<1>1. Len(db) \in Nat /\ \A j \in 1 .. Len(db) : db[j] \in Entry
  BY EntryOf DEF Good
<1>2. \A j \in 1 .. Len(db) : WithState(db[j], j = i) \in Entry
  BY <1>1, WithStateType
<1>3. l \in [1 .. Len(db) -> Entry]
  BY <1>2
<1>4. l \in Seq(Entry) /\ Len(l) = Len(db)
  <2>. HIDE DEF l
  <2>. QED  BY <1>1, <1>3, FunctionIsSeq
<1>5. \A j \in 1 .. Len(db) : l[j].mid = db[j].mid /\ l[j].enabled = (j = i)
  BY <1>1, WithStateType
<1>6. Enabled(i) = l
  BY DEF Enabled
<1>. HIDE DEF l
<1>7. OneEnabled(l)
  BY <1>4, <1>5 DEF OneEnabled
<1>8. UniqueMids(l)
  BY <1>4, <1>5 DEF Good, UniqueMids
<1>9. Follows("enable", l)
  BY <1>4, <1>5 DEF Follows, InList
<1>. QED  BY <1>4, <1>6, <1>7, <1>8, <1>9 DEF Good

\* The list disable_profile writes.
LEMMA DisableList ==
    ASSUME Good(db), NEW i \in 1 .. Len(db)
    PROVE  LET l == [db EXCEPT ![i] = WithState(@, FALSE)]
           IN  Good(l) /\ Follows("disable", l)
<1>. DEFINE l == [db EXCEPT ![i] = WithState(@, FALSE)]
<1>1. Len(db) \in Nat /\ \A j \in 1 .. Len(db) : db[j] \in Entry
  BY EntryOf DEF Good
<1>2. WithState(db[i], FALSE) \in Entry
  BY <1>1, WithStateType
<1>3. db \in [1 .. Len(db) -> Entry]
  BY LenProperties DEF Good
<1>4. l \in [1 .. Len(db) -> Entry]
  BY <1>2, <1>3
<1>5. l \in Seq(Entry) /\ Len(l) = Len(db)
  BY <1>1, <1>4, FunctionIsSeq
<1>6. \A j \in 1 .. Len(db) : l[j] = IF j = i THEN WithState(db[i], FALSE) ELSE db[j]
  BY <1>3
<1>. HIDE DEF l
<1>7. \A j \in 1 .. Len(db) : l[j].mid = db[j].mid /\ (l[j].enabled => db[j].enabled)
  <2>1. WithState(db[i], FALSE).mid = db[i].mid /\ WithState(db[i], FALSE).enabled = FALSE
    BY <1>1, WithStateType
  <2>. TAKE j \in 1 .. Len(db)
  <2>2. CASE j = i
    BY <2>1, <2>2, <1>6
  <2>3. CASE j # i
    <3>1. l[j] = db[j]
      BY <2>3, <1>6
    <3>. QED  BY <3>1, Zenon
  <2>. QED  BY <2>2, <2>3
<1>8. OneEnabled(l)
  BY <1>5, <1>7 DEF Good, OneEnabled
<1>9. UniqueMids(l)
  BY <1>5, <1>7 DEF Good, UniqueMids
<1>10. Follows("disable", l)
  BY <1>5, <1>7 DEF Follows, InList
<1>. QED  BY <1>5, <1>8, <1>9, <1>10 DEF Good, l

\* The list delete_profile writes: only a profile that is not enabled is gone.
LEMMA DeleteList ==
    ASSUME Good(db), NEW i \in 1 .. Len(db), Removable(i)
    PROVE  Good(Without(i)) /\ Follows("delete", Without(i))
<1>. DEFINE n == Len(db) - 1
            l == [j \in 1 .. n |-> IF j < i THEN db[j] ELSE db[j + 1]]
<1>1. n \in Nat /\ Len(db) \in Nat /\ \A j \in 1 .. Len(db) : db[j] \in Entry
  BY EntryOf DEF Good
<1>2. \A j \in 1 .. n : (IF j < i THEN db[j] ELSE db[j + 1]) \in Entry
  BY <1>1
<1>3. l \in [1 .. n -> Entry]
  BY <1>2
<1>4. l \in Seq(Entry) /\ Len(l) = n
  BY <1>1, <1>3, FunctionIsSeq
<1>5. \A j \in 1 .. n : l[j] = IF j < i THEN db[j] ELSE db[j + 1]
  OBVIOUS
<1>6. Without(i) = l
  BY DEF Without
<1>. HIDE DEF l
<1>7. \A j \in 1 .. Len(db) : j # i => \E k \in 1 .. n : l[k] = db[j]
  <2>. TAKE j \in 1 .. Len(db)
  <2>. HAVE j # i
  <2>1. CASE j < i
    <3>1. j \in 1 .. n
      BY <2>1, <1>1
    <3>. QED  BY <2>1, <3>1, <1>5
  <2>2. CASE j > i
    <3>1. j - 1 \in 1 .. n /\ ~(j - 1 < i) /\ (j - 1) + 1 = j
      BY <2>2, <1>1
    <3>. QED  BY <3>1, <1>5
  <2>. QED  BY <2>1, <2>2
<1>. DEFINE q(j) == IF j < i THEN j ELSE j + 1
<1>11. \A j \in 1 .. n : q(j) \in 1 .. Len(db) /\ l[j] = db[q(j)]
  BY <1>1, <1>5
<1>12. \A j, k \in 1 .. n : q(j) = q(k) => j = k
  BY <1>1
<1>. HIDE DEF q, n
<1>8. OneEnabled(l)
  <2>. SUFFICES ASSUME NEW j \in 1 .. n, NEW k \in 1 .. n, l[j].enabled, l[k].enabled
                PROVE  j = k
    BY <1>4 DEF OneEnabled
  <2>1. q(j) = q(k)
    BY <1>11, Zenon DEF Good, OneEnabled
  <2>. QED  BY <2>1, <1>12
<1>9. UniqueMids(l)
  <2>. SUFFICES ASSUME NEW j \in 1 .. n, NEW k \in 1 .. n, l[j].mid = l[k].mid
                PROVE  j = k
    BY <1>4 DEF UniqueMids
  <2>1. q(j) = q(k)
    BY <1>11, Zenon DEF Good, UniqueMids
  <2>. QED  BY <2>1, <1>12
<1>10. Follows("delete", l)
  BY <1>4, <1>7 DEF Follows, InList, EnabledIn, Removable
<1>. QED  BY <1>4, <1>6, <1>8, <1>9, <1>10 DEF Good

-----------------------------------------------------------------------------
(* Steps. *)

Inv == TypeOK /\ StoreInv

Ops == {"create", "add", "enable", "disable", "delete", "eid"}

\* Only bookkeeping changes.
Quiet == db' = db /\ pending' = pending /\ exists' = exists

\* A writer has read the file and made the list it will write.
Makes(w, op, l) ==
    /\ op \in Ops /\ Good(l) /\ Follows(op, l)
    /\ db' = db /\ exists' = exists
    /\ pending' = [pending EXCEPT ![w] = [op |-> op, list |-> l]]

\* A writer renames its file, or dies before it does.
Ends(w) ==
    /\ pending' = [pending EXCEPT ![w] = None]
    /\ \/ db' = db /\ exists' = exists
       \/ pending[w] # None /\ db' = pending[w].list /\ exists' = TRUE

\* What a step is for the lists.
ListStep ==
    \/ Quiet
    \/ \E w \in Writers : \E op, l : Makes(w, op, l)
    \/ \E w \in Writers : Ends(w)

Frame == up' \subseteq Writers /\ target' \in [Writers -> Mids \cup {None}]

\* The list in the file is a good one.
LEMMA DbGood == Inv => Good(db) /\ (~exists => db = <<>>)
BY DEF Inv, TypeOK, StoreInv, OneEnabledInFile, MatchingIdsUnique, Good

\* delete_profile, by either caller.
LEMMA DeleteStep ==
    ASSUME Inv, NEW w \in Writers, NEW m, Delete(w, m), UNCHANGED <<exists, db>>
    PROVE  ListStep
<1>1. ASSUME NEW i \in 1 .. Len(db), Removable(i), Prepare(w, "delete", Without(i))
      PROVE  ListStep
  <2>1. Good(Without(i)) /\ Follows("delete", Without(i))
    BY <1>1, DbGood, DeleteList
  <2>2. Makes(w, "delete", Without(i))
    BY <1>1, <2>1 DEF Makes, Prepare, Ops
  <2>. QED  BY <2>2 DEF ListStep
<1>2. CASE UNCHANGED pending
  BY <1>2 DEF ListStep, Quiet
<1>. QED  BY <1>1, <1>2 DEF Delete

\* Every step is one of these.
LEMMA NextListStep == Inv /\ [Next]_vars => ListStep /\ Frame
<1>. SUFFICES ASSUME Inv, [Next]_vars PROVE ListStep /\ Frame
  OBVIOUS
<1>1. CASE UNCHANGED vars
  BY <1>1 DEF vars, ListStep, Quiet, Frame, Inv, TypeOK
<1>2. ASSUME NEW w \in Writers, Open(w) PROVE ListStep /\ Frame
  <2>1. Frame
    BY <1>2 DEF Open, Frame, Inv, TypeOK
  <2>2. CASE exists
    BY <1>2, <2>1, <2>2 DEF Open, ListStep, Quiet
  <2>3. CASE ~exists
    <3>1. Good(<<>>) /\ Follows("create", <<>>)
      BY <2>3, DbGood, CreateList
    <3>2. Makes(w, "create", <<>>)
      BY <1>2, <2>3, <3>1 DEF Open, Prepare, Makes, Ops
    <3>. QED  BY <2>1, <3>2 DEF ListStep
  <2>. QED  BY <2>2, <2>3
<1>3. ASSUME NEW w \in Writers, Write(w) PROVE ListStep /\ Frame
  BY <1>3 DEF Write, ListStep, Ends, Frame, Inv, TypeOK
<1>4. ASSUME NEW w \in Writers, Crash(w) PROVE ListStep /\ Frame
  BY <1>4 DEF Crash, ListStep, Ends, Frame, Inv, TypeOK
<1>5. ASSUME NEW w \in Writers, NEW m \in Mids, NEW id \in Iccids, AddProfile(w, m, id)
      PROVE  ListStep /\ Frame
  <2>. DEFINE l == Append(db, [mid |-> m, iccid |-> id, enabled |-> FALSE])
  <2>1. Good(l) /\ Follows("add", l)
    BY <1>5, DbGood, AddList DEF AddProfile
  <2>. HIDE DEF l
  <2>2. Makes(w, "add", l)
    BY <1>5, <2>1 DEF AddProfile, Prepare, Makes, Ops, l
  <2>. QED  BY <1>5, <2>2 DEF ListStep, AddProfile, Frame, Inv, TypeOK
<1>6. ASSUME NEW w \in Writers, NEW id \in Iccids, EnableProfile(w, id)
      PROVE  ListStep /\ Frame
  <2>1. PICK i \in 1 .. Len(db) : /\ Prepare(w, "enable", Enabled(i))
                                  /\ UNCHANGED <<exists, db, up, target>>
    BY <1>6 DEF EnableProfile
  <2>2. Good(Enabled(i)) /\ Follows("enable", Enabled(i))
    BY DbGood, EnableList
  <2>3. Makes(w, "enable", Enabled(i))
    BY <2>1, <2>2 DEF Prepare, Makes, Ops
  <2>. QED  BY <2>1, <2>3 DEF ListStep, Frame, Inv, TypeOK
<1>7. ASSUME NEW w \in Writers, NEW id \in Iccids, DisableProfile(w, id)
      PROVE  ListStep /\ Frame
  <2>1. PICK i \in 1 .. Len(db) :
            /\ Prepare(w, "disable", [db EXCEPT ![i] = WithState(@, FALSE)])
            /\ UNCHANGED <<exists, db, up, target>>
    BY <1>7 DEF DisableProfile
  <2>. DEFINE l == [db EXCEPT ![i] = WithState(@, FALSE)]
  <2>2. Good(l) /\ Follows("disable", l)
    BY DbGood, DisableList
  <2>3. Prepare(w, "disable", l) /\ UNCHANGED <<exists, db, up, target>>
    BY <2>1
  <2>. HIDE DEF l
  <2>4. Makes(w, "disable", l)
    BY <2>2, <2>3 DEF Prepare, Makes, Ops
  <2>. QED  BY <2>3, <2>4 DEF ListStep, Frame, Inv, TypeOK
<1>8. ASSUME NEW w \in Writers, NEW id \in Iccids, LookUp(w, id)
      PROVE  ListStep /\ Frame
  <2>1. PICK i \in 1 .. Len(db) : /\ target' = [target EXCEPT ![w] = db[i].mid]
                                  /\ UNCHANGED <<exists, db, up, pending>>
    BY <1>8 DEF LookUp
  <2>2. db[i].mid \in Mids
    BY EntryOf DEF Inv, TypeOK, Entry
  <2>. QED  BY <2>1, <2>2 DEF ListStep, Quiet, Frame, Inv, TypeOK
<1>9. ASSUME NEW w \in Writers, NEW m \in Mids, DeleteProfile(w, m)
      PROVE  ListStep /\ Frame
  BY <1>9, DeleteStep DEF DeleteProfile, Frame, Inv, TypeOK
<1>10. ASSUME NEW w \in Writers, DeleteLookedUp(w) PROVE ListStep /\ Frame
  BY <1>10, DeleteStep DEF DeleteLookedUp, Frame, Inv, TypeOK
<1>11. ASSUME NEW w \in Writers, SetEid(w) PROVE ListStep /\ Frame
  <2>1. Good(db) /\ Follows("eid", db)
    BY DbGood DEF Follows
  <2>2. Makes(w, "eid", db)
    BY <1>11, <2>1 DEF SetEid, Prepare, Makes, Ops
  <2>. QED  BY <1>11, <2>2 DEF ListStep, SetEid, Frame, Inv, TypeOK
<1>. QED
  BY <1>1, <1>2, <1>3, <1>4, <1>5, <1>6, <1>7, <1>8, <1>9, <1>10, <1>11 DEF Next

\* The invariant is kept by a step of each kind.
LEMMA InvStep == Inv /\ [Next]_vars => Inv'
<1>. SUFFICES ASSUME Inv, [Next]_vars PROVE Inv'
  OBVIOUS
<1>1. ListStep /\ Frame /\ Good(db)
  BY NextListStep, DbGood
<1>2. \A w \in Writers : pending[w] # None =>
          pending[w] \in Job /\ Good(pending[w].list)
  BY DEF Inv, TypeOK, StoreInv, Good, Job
<1>3. SUFFICES /\ db' \in Seq(Entry) /\ OneEnabled(db') /\ UniqueMids(db')
               /\ exists' \in BOOLEAN /\ (~exists' => db' = <<>>)
               /\ pending' \in [Writers -> Job \cup {None}]
               /\ \A w \in Writers : pending'[w] # None => Good(pending'[w].list)
  BY <1>1 DEF Inv, TypeOK, StoreInv, OneEnabledInFile, MatchingIdsUnique, Frame, Good
<1>. USE DEF Inv, TypeOK, StoreInv
<1>4. CASE Quiet
  BY <1>1, <1>2, <1>4 DEF Quiet, Good
<1>5. ASSUME NEW w \in Writers, NEW op, NEW l, Makes(w, op, l)
      PROVE  /\ db' \in Seq(Entry) /\ OneEnabled(db') /\ UniqueMids(db')
             /\ exists' \in BOOLEAN /\ (~exists' => db' = <<>>)
             /\ pending' \in [Writers -> Job \cup {None}]
             /\ \A v \in Writers : pending'[v] # None => Good(pending'[v].list)
  <2>1. [op |-> op, list |-> l] \in Job /\ [op |-> op, list |-> l].list = l
    BY <1>5 DEF Makes, Job, Ops, Good
  <2>2. pending' \in [Writers -> Job \cup {None}]
    BY <1>5, <2>1 DEF Makes
  <2>3. \A v \in Writers : pending'[v] # None => Good(pending'[v].list)
    BY <1>2, <1>5, <2>1 DEF Makes
  <2>. QED  BY <1>1, <1>5, <2>2, <2>3 DEF Makes, Good
<1>6. ASSUME NEW w \in Writers, Ends(w)
      PROVE  /\ db' \in Seq(Entry) /\ OneEnabled(db') /\ UniqueMids(db')
             /\ exists' \in BOOLEAN /\ (~exists' => db' = <<>>)
             /\ pending' \in [Writers -> Job \cup {None}]
             /\ \A v \in Writers : pending'[v] # None => Good(pending'[v].list)
  <2>1. /\ pending' \in [Writers -> Job \cup {None}]
        /\ \A v \in Writers : pending'[v] # None => Good(pending'[v].list)
    BY <1>2, <1>6 DEF Ends
  <2>2. Good(db') /\ exists' \in BOOLEAN /\ (~exists' => db' = <<>>)
    BY <1>1, <1>2, <1>6 DEF Ends
  <2>. QED  BY <2>1, <2>2 DEF Good
<1>. QED  BY <1>1, <1>4, <1>5, <1>6 DEF ListStep

\* It holds of the initial state.
LEMMA InvInit == Init => Inv
<1>. SUFFICES ASSUME Init PROVE Inv
  OBVIOUS
<1>1. TypeOK
  BY EmptySeq DEF Init, TypeOK
<1>2. OneEnabledInFile /\ MatchingIdsUnique
  BY DEF Init, OneEnabledInFile, MatchingIdsUnique, OneEnabled, UniqueMids
<1>3. \A w \in Writers : pending[w] = None
  BY DEF Init
<1>. QED  BY <1>1, <1>2, <1>3 DEF Inv, StoreInv, Init

\* So it is an invariant.
LEMMA Invariance == Spec => []Inv
BY InvInit, InvStep, PTL DEF Spec

\* The file, the lists about to be written and the bookkeeping have their types.
THEOREM TypeCorrect == Spec => []TypeOK
<1>1. Inv => TypeOK
  BY DEF Inv
<1>. QED  BY Invariance, <1>1, PTL

\* Whatever the writers do to one another's updates, the file never holds two
\* enabled profiles (enable_profile and the other operations).
THEOREM OneEnabledStored == Spec => []OneEnabledInFile
<1>1. Inv => OneEnabledInFile
  BY DEF Inv, StoreInv
<1>. QED  BY Invariance, <1>1, PTL

\* ... nor a matching id twice (add_profile).
THEOREM MatchingIdsStoredOnce == Spec => []MatchingIdsUnique
<1>1. Inv => MatchingIdsUnique
  BY DEF Inv, StoreInv
<1>. QED  BY Invariance, <1>1, PTL

-----------------------------------------------------------------------------
(* A writer that is alone. *)

Alone == \A v, w \in Writers : v = w

\* What a step of the only writer does to the file, and that it leaves the list
\* to be written in step with the file.
LEMMA AloneStep ==
    ASSUME Alone, Inv, AloneInv, [Next]_vars
    PROVE  /\ AloneInv'
           /\ Renames("delete") => \A m \in Mids : EnabledIn(db, m) => InList(db', m)
           /\ ~Renames("delete") => \A m \in Mids : InList(db, m) => InList(db', m)
<1>1. ListStep
  BY NextListStep
<1>2. \A m \in Mids : EnabledIn(db, m) => InList(db, m)
  BY DEF EnabledIn, InList
<1>3. CASE Quiet
  BY <1>2, <1>3 DEF Quiet, AloneInv
<1>4. ASSUME NEW w \in Writers, NEW op, NEW l, Makes(w, op, l)
      PROVE  /\ AloneInv'
             /\ db' = db
  <2>1. pending'[w] = [op |-> op, list |-> l] /\ db' = db /\ Follows(op, l)
    BY <1>4 DEF Makes, Inv, TypeOK
  <2>2. \A v \in Writers : v = w
    BY DEF Alone
  <2>. QED  BY <2>1, <2>2 DEF AloneInv, Follows
<1>5. ASSUME NEW w \in Writers, Ends(w)
      PROVE  /\ AloneInv'
             /\ Renames("delete") => \A m \in Mids : EnabledIn(db, m) => InList(db', m)
             /\ ~Renames("delete") => \A m \in Mids : InList(db, m) => InList(db', m)
  <2>1. \A v \in Writers : v = w
    BY DEF Alone
  <2>2. pending'[w] = None
    BY <1>5 DEF Ends, Inv, TypeOK
  <2>3. AloneInv'
    BY <2>1, <2>2 DEF AloneInv
  <2>4. CASE db' = db
    BY <1>2, <2>3, <2>4
  <2>5. CASE pending[w] # None /\ db' = pending[w].list
    <3>1. Renames("delete") <=> pending[w].op = "delete"
      BY <2>1, <2>2, <2>5 DEF Renames
    <3>2. \A m \in Mids : IF pending[w].op = "delete"
                          THEN EnabledIn(db, m) => InList(db', m)
                          ELSE InList(db, m) => InList(db', m)
      BY <2>5 DEF AloneInv
    <3>. QED  BY <2>3, <3>1, <3>2
  <2>. QED  BY <1>5, <2>4, <2>5 DEF Ends
<1>. QED  BY <1>1, <1>2, <1>3, <1>4, <1>5 DEF ListStep

\* Nothing is about to be written at first.
LEMMA AloneInvInit == Init => AloneInv
BY DEF Init, AloneInv

\* A writer that is alone keeps both promises of the docstring, whatever it does
\* and wherever it crashes: no delete removes an enabled profile ...
THEOREM AloneEnabledKept ==
    ASSUME Alone
    PROVE  Spec => EnabledNotDeleted
<1>1. Inv /\ AloneInv /\ [Next]_vars => AloneInv'
  BY AloneStep
<1>2. Inv /\ AloneInv /\ [Next]_vars
      => [Renames("delete") => \A m \in Mids : EnabledIn(db, m) => InList(db', m)]_vars
  BY AloneStep
<1>. QED  BY Invariance, AloneInvInit, <1>1, <1>2, PTL DEF Spec, EnabledNotDeleted

\* ... and only a delete removes a profile.
THEOREM AloneLeavesByDelete ==
    ASSUME Alone
    PROVE  Spec => LeavesByDelete
<1>1. Inv /\ AloneInv /\ [Next]_vars => AloneInv'
  BY AloneStep
<1>2. Inv /\ AloneInv /\ [Next]_vars
      => [~Renames("delete") => \A m \in Mids : InList(db, m) => InList(db', m)]_vars
  BY AloneStep
<1>. QED  BY Invariance, AloneInvInit, <1>1, <1>2, PTL DEF Spec, LeavesByDelete

=============================================================================
