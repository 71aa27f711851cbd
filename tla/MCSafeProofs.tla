---------------------------- MODULE MCSafeProofs ----------------------------
(***************************************************************************)
(* Proofs about the parts of MCSafe, for every value of the bounds: logs,  *)
(* files, contents and stacks of cards of any length. Each part has an     *)
(* inductive invariant of its own; a step of another part leaves its       *)
(* variables alone. The data that a loop goes through (the lines of a log) *)
(* need an induction of their own, by the lemmas of ListTheorems.          *)
(***************************************************************************)
EXTENDS MCSafe, ListTheorems, FiniteSetTheorems, TLAPS

-----------------------------------------------------------------------------
(* The device. *)

\* The matching ids a log can name.
Known == Mids \union Demo

\* An entry of the store, as far as the device operations see it.
Profiles == [mid : Known, enabled : BOOLEAN]

\* What is in a list.
Elems(s) == {s[i] : i \in DOMAIN s}

\* What the two programs ask of the card.
Ops == {"enable", "disable", "delete"}

\* Types of the logs, the store and the operations under way.
DeviceType ==
    /\ log \in Seq(Mids)
    /\ oldLog \in {{}, Demo}
    /\ db \in Seq(Profiles)
    /\ work \in [D!Masters -> {D!NoJob} \union [op : Ops, mid : Known]]
    /\ download \in [D!Masters -> {D!NoJob} \union [op : {"running", "hangs", "ok", "failed"}, mid : Mids]]

\* What makes OnlyInstalled and SyncComplete provable: what is in the log of
\* this run of the daemon was installed, what was installed since its start is
\* in that log, a download counted as done has installed its profile, and the
\* store is no further than the logs.
DeviceInv ==
    /\ DeviceType
    /\ Elems(log) \subseteq ever
    /\ installed \subseteq Elems(log)
    /\ \A m \in D!Masters : download[m].op = "ok" => download[m].mid \in ever
    /\ D!ToSetOfMids(db) \subseteq ever \union oldLog

\* The old log, read in any order, names what is in it and nothing else.
LEMMA OldLogListed ==
    ASSUME NEW S, IsFiniteSet(S)
    PROVE  D!SetToSeq(S) \in Seq(S)
<1>1. D!Cardinality(S) = Cardinality(S)
  BY DEF D!Cardinality, Cardinality
<1>2. Cardinality(S) \in Nat /\ ExistsBijection(1..Cardinality(S), S)
  BY FS_CardinalityType
<1>3. PICK f \in Bijection(1..Cardinality(S), S) : TRUE
  BY <1>2 DEF ExistsBijection
<1>4. f \in [1..Cardinality(S) -> S] /\ D!IsInjective(f)
  BY <1>3 DEF Bijection, Injection, Surjection, IsInjective, D!IsInjective
<1>5. D!SetToSeq(S) \in [1..Cardinality(S) -> S]
  BY <1>1, <1>4 DEF D!SetToSeq
<1>. QED  BY <1>2, <1>5, FunctionIsSeq

\* add_profile leaves a list of profiles, with the one that was asked for.
LEMMA AddProfileAdds ==
    ASSUME NEW l \in Seq(Profiles), NEW m \in Known
    PROVE  /\ D!AddProfile(l, m) \in Seq(Profiles)
           /\ D!ToSetOfMids(D!AddProfile(l, m)) = D!ToSetOfMids(l) \union {m}
<1>1. CASE m \in D!ToSetOfMids(l)
  BY <1>1 DEF D!AddProfile
<1>2. CASE m \notin D!ToSetOfMids(l)
  <2>. DEFINE k == Append(l, D!Profile(m))
  <2>1. D!Profile(m) \in Profiles /\ D!Profile(m).mid = m
    BY DEF D!Profile, Profiles
  <2>2. /\ k \in Seq(Profiles) /\ DOMAIN l = 1..Len(l) /\ DOMAIN k = 1..(Len(l) + 1) /\ Len(l) \in Nat
        /\ \A i \in 1..Len(l) : k[i] = l[i]
        /\ k[Len(l) + 1] = D!Profile(m)
    BY <2>1, AppendProperties, LenProperties
  <2>. HIDE DEF k
  <2>3. D!ToSetOfMids(k) = D!ToSetOfMids(l) \union {m}
    BY <2>1, <2>2 DEF D!ToSetOfMids
  <2>. QED  BY <1>2, <2>2, <2>3 DEF D!AddProfile, k
<1>. QED  BY <1>1, <1>2

\* The loop of _sync_all_profiles_from_logs adds all that the logs name, however
\* long they are and whatever is there already: by induction over the log.
LEMMA AddProfilesAdds ==
    ASSUME NEW l \in Seq(Profiles), NEW mids \in Seq(Known)
    PROVE  /\ D!AddProfiles(l, mids) \in Seq(Profiles)
           /\ D!ToSetOfMids(D!AddProfiles(l, mids)) = D!ToSetOfMids(l) \union Elems(mids)
<1>. DEFINE n == Len(mids)
            V == Seq(Profiles)
            G == [p \in V \X (1..n) |-> D!AddProfile(p[1], mids[p[2]])]
            Body(f) == [i \in 0..n |-> IF i = 0 THEN l ELSE D!AddProfile(f[i - 1], mids[i])]
            g == CHOOSE f : f = Body(f)
<1>1. n \in Nat /\ \A i \in 1..n : mids[i] \in Known
  BY LenProperties, ElementOfSeq
<1>2. G \in [V \X (1..n) -> V]
  BY <1>1, AddProfileAdds
<1>3. PICK f \in [0..n -> V] : f[0] = l /\ \A i \in 1..n : f[i] = G[<<f[i-1], i>>]
  <2>1. l \in V
    OBVIOUS
  <2>2. \E f : Unfolds(f, n, V, l, G)
    <3>. HIDE DEF G, V, n
    <3>. QED  BY <1>1, <1>2, <2>1, Recursion
  <2>. HIDE DEF G, V, n
  <2>. QED  BY <2>2 DEF Unfolds
<1>4. f = Body(f)
  <2>1. \A i \in 1..n : f[i] = D!AddProfile(f[i - 1], mids[i])
    <3>1. ASSUME NEW i \in 1..n
          PROVE  f[i - 1] \in V /\ G[<<f[i-1], i>>] = D!AddProfile(f[i - 1], mids[i])
      <4>1. i - 1 \in 0..n
        BY <1>1
      <4>2. f[i - 1] \in V
        BY <1>3, <4>1
      <4>. DEFINE p == <<f[i - 1], i>>
      <4>3. p \in V \X (1..n) /\ p[1] = f[i - 1] /\ p[2] = i
        BY <4>2
      <4>. HIDE DEF p
      <4>4. G[p] = D!AddProfile(p[1], mids[p[2]])
        BY <4>3
      <4>. QED  BY <4>2, <4>3, <4>4 DEF p
    <3>. HIDE DEF G
    <3>. QED  BY <1>3, <3>1
  <2>. QED  BY <1>3, <2>1
<1>5. g = Body(g)
  <2>. HIDE DEF Body
  <2>. QED  BY <1>4
<1>6. D!AddProfiles(l, mids) = g[n]
  BY DEF D!AddProfiles
<1>7. /\ g[0] = l
      /\ \A i \in 1..n : g[i] = D!AddProfile(g[i - 1], mids[i])
  <2>. HIDE DEF g
  <2>. QED  BY <1>1, <1>5
<1>. HIDE DEF g
<1>. DEFINE S == {k \in Nat : k <= n => /\ g[k] \in V
                                        /\ D!ToSetOfMids(g[k]) = D!ToSetOfMids(l) \union {mids[i] : i \in 1..k}}
<1>8. 0 \in S
  BY <1>7
<1>9. ASSUME NEW k \in Nat, k \in S
      PROVE  k + 1 \in S
  <2>1. CASE k + 1 <= n
    <3>1. k + 1 \in 1..n /\ k <= n /\ (k + 1) - 1 = k
      BY <1>1, <2>1
    <3>2. g[k + 1] = D!AddProfile(g[k], mids[k + 1]) /\ mids[k + 1] \in Known
      BY <1>1, <1>7, <3>1
    <3>3. g[k] \in V /\ D!ToSetOfMids(g[k]) = D!ToSetOfMids(l) \union {mids[i] : i \in 1..k}
      BY <1>9, <3>1
    <3>4. g[k + 1] \in V /\ D!ToSetOfMids(g[k + 1]) = D!ToSetOfMids(g[k]) \union {mids[k + 1]}
      BY <3>2, <3>3, AddProfileAdds
    <3>5. {mids[i] : i \in 1..(k + 1)} = {mids[i] : i \in 1..k} \union {mids[k + 1]}
      <4>1. 1..(k + 1) = (1..k) \union {k + 1}
        OBVIOUS
      <4>. HIDE DEF n
      <4>. QED  BY <4>1, Zenon
    <3>. QED  BY <3>3, <3>4, <3>5
  <2>2. CASE ~(k + 1 <= n)
    BY <2>2
  <2>. QED  BY <2>1, <2>2
<1>10. n \in S
  <2>. HIDE DEF S
  <2>. QED  BY <1>1, <1>8, <1>9, SetInduction
<1>11. Elems(mids) = {mids[i] : i \in 1..n}
  BY <1>1, LenProperties DEF Elems
<1>. QED  BY <1>6, <1>10, <1>11

\* The search of enable, disable and delete finds an entry or none.
LEMMA StoreIndexInStore ==
    ASSUME DeviceType, NEW op \in Ops, NEW mid
    PROVE  D!StoreIndex(op, mid) \in 0..Len(db)
<1>1. Len(db) \in Nat
  BY LenProperties DEF DeviceType
<1>2. CASE op = "delete"
  <2>. DEFINE I == {i \in 1..Len(db) : db[i].mid = mid}
  <2>1. D!StoreIndex(op, mid) = IF I # {} THEN D!Min(I) ELSE 0
    BY <1>2 DEF D!StoreIndex, D!SelectInSeq
  <2>3. I \subseteq Nat /\ I \subseteq 0..Len(db) /\ 0 \in 0..Len(db)
    BY <1>1
  <2>. HIDE DEF I
  <2>2. I # {} => \E x \in I : \A y \in I : x <= y
    BY <2>3, LeastNumber
  <2>4. I # {} => D!Min(I) \in I
    BY <2>2 DEF D!Min
  <2>5. CASE I = {}
    BY <2>1, <2>3, <2>5
  <2>6. CASE I # {}
    BY <2>1, <2>3, <2>4, <2>6
  <2>. QED  BY <2>5, <2>6
<1>3. CASE op # "delete"
  <2>1. db # <<>> => Len(db) >= 1
    BY <1>1, EmptySeq DEF DeviceType
  <2>. QED  BY <1>1, <1>3, <2>1 DEF D!StoreIndex
<1>. QED  BY <1>2, <1>3

\* enable_profile changes flags and no matching id ...
LEMMA EnabledAtKeeps ==
    ASSUME NEW l \in Seq(Profiles), NEW i
    PROVE  D!EnabledAt(l, i) \in Seq(Profiles) /\ D!ToSetOfMids(D!EnabledAt(l, i)) = D!ToSetOfMids(l)
<1>. DEFINE k == D!EnabledAt(l, i)
<1>1. Len(l) \in Nat /\ DOMAIN l = 1..Len(l) /\ \A j \in 1..Len(l) : l[j] \in Profiles
  BY LenProperties
<1>2. ASSUME NEW j \in 1..Len(l)
      PROVE  k[j] \in Profiles /\ k[j].mid = l[j].mid
  <2>1. k[j] = [l[j] EXCEPT !.enabled = (j = i)]
    BY <1>1 DEF D!EnabledAt
  <2>2. (j = i) \in BOOLEAN /\ l[j] \in Profiles
    BY <1>1
  <2>. QED  BY <2>1, <2>2, Zenon DEF Profiles
<1>3. DOMAIN k = 1..Len(l)
  BY <1>1 DEF D!EnabledAt
<1>4. k \in [1..Len(l) -> Profiles]
  BY <1>1, <1>2 DEF D!EnabledAt
<1>. HIDE DEF k
<1>5. k \in Seq(Profiles)
  BY <1>1, <1>4, FunctionIsSeq
<1>6. D!ToSetOfMids(k) = D!ToSetOfMids(l)
  BY <1>1, <1>2, <1>3 DEF D!ToSetOfMids
<1>. QED  BY <1>5, <1>6 DEF k

\* ... as does disable_profile ...
LEMMA DisabledAtKeeps ==
    ASSUME NEW l \in Seq(Profiles), NEW i \in 1..Len(l)
    PROVE  D!DisabledAt(l, i) \in Seq(Profiles) /\ D!ToSetOfMids(D!DisabledAt(l, i)) = D!ToSetOfMids(l)
<1>. DEFINE k == D!DisabledAt(l, i)
<1>1. Len(l) \in Nat /\ DOMAIN l = 1..Len(l) /\ \A j \in 1..Len(l) : l[j] \in Profiles
  BY LenProperties
<1>2. ASSUME NEW j \in 1..Len(l)
      PROVE  k[j] \in Profiles /\ k[j].mid = l[j].mid
  <2>1. k[j] = IF j = i THEN [l[j] EXCEPT !.enabled = FALSE] ELSE l[j]
    BY <1>1 DEF D!DisabledAt
  <2>. QED  BY <1>1, <2>1 DEF Profiles
<1>3. DOMAIN k = 1..Len(l)
  BY <1>1 DEF D!DisabledAt
<1>4. k \in [1..Len(l) -> Profiles]
  <2>1. k = [j \in 1..Len(l) |-> k[j]]
    BY <1>1, <1>3 DEF D!DisabledAt
  <2>. HIDE DEF k
  <2>. QED  BY <1>2, <2>1
<1>. HIDE DEF k
<1>5. k \in Seq(Profiles)
  BY <1>1, <1>4, FunctionIsSeq
<1>6. D!ToSetOfMids(k) = D!ToSetOfMids(l)
  BY <1>1, <1>2, <1>3 DEF D!ToSetOfMids
<1>. QED  BY <1>5, <1>6 DEF k

\* ... and delete_profile only takes one away.
LEMMA RemoveAtKeeps ==
    ASSUME NEW l \in Seq(Profiles), NEW i \in 1..Len(l)
    PROVE  D!RemoveAt(l, i) \in Seq(Profiles) /\ D!ToSetOfMids(D!RemoveAt(l, i)) \subseteq D!ToSetOfMids(l)
<1>. DEFINE a == SubSeq(l, 1, i - 1)
            b == SubSeq(l, i + 1, Len(l))
            E == Elems(l)
<1>1. Len(l) \in Nat /\ DOMAIN l = 1..Len(l) /\ \A j \in 1..Len(l) : l[j] \in Profiles /\ l[j] \in E
  BY LenProperties DEF Elems
<1>2. a \in Seq(E) /\ b \in Seq(E)
  <2>1. \A j \in 1..(i - 1) : l[j] \in E
    BY <1>1
  <2>2. \A j \in (i + 1)..Len(l) : l[j] \in E
    BY <1>1
  <2>3. 1 \in Int /\ i - 1 \in Int /\ i + 1 \in Int /\ Len(l) \in Int
    BY <1>1
  <2>. HIDE DEF E
  <2>. QED  BY <2>1, <2>2, <2>3, SubSeqProperties
<1>3. D!RemoveAt(l, i) \in Seq(E)
  <2>. HIDE DEF E, a, b
  <2>. QED  BY <1>2, ConcatProperties DEF D!RemoveAt, a, b
<1>4. E \subseteq Profiles
  BY <1>1 DEF Elems
<1>. HIDE DEF E
<1>. DEFINE k == D!RemoveAt(l, i)
<1>5. k \in Seq(Profiles)
  BY <1>3, <1>4, SeqMonotonic
<1>6. DOMAIN k = 1..Len(k) /\ \A j \in 1..Len(k) : k[j] \in E
  BY <1>3, LenProperties
<1>. HIDE DEF k
<1>7. D!ToSetOfMids(k) \subseteq D!ToSetOfMids(l)
  BY <1>6 DEF D!ToSetOfMids, E, Elems
<1>. QED  BY <1>5, <1>7 DEF k

\* So no operation other than a download brings a profile into the store.
LEMMA StoreKeeps ==
    ASSUME DeviceType, NEW op \in Ops, NEW mid, D!Store(op, mid)
    PROVE  db' \in Seq(Profiles) /\ D!ToSetOfMids(db') \subseteq D!ToSetOfMids(db)
<1>. DEFINE i == D!StoreIndex(op, mid)
<1>1. i \in 0..Len(db) /\ Len(db) \in Nat /\ db \in Seq(Profiles)
  BY StoreIndexInStore, LenProperties DEF DeviceType
<1>2. CASE ~D!StoreAgrees(op, mid)
  BY <1>1, <1>2 DEF D!Store
<1>3. CASE D!StoreAgrees(op, mid)
  <2>1. i \in 1..Len(db)
    BY <1>1, <1>3 DEF D!StoreAgrees
  <2>. HIDE DEF i
  <2>2. CASE op = "enable"
    <3>1. db' = D!EnabledAt(db, i)
      BY <1>3, <2>2 DEF D!Store, i
    <3>. QED  BY <1>1, <3>1, EnabledAtKeeps
  <2>3. CASE op = "disable"
    <3>1. db' = D!DisabledAt(db, i)
      BY <1>3, <2>3 DEF D!Store, i
    <3>. QED  BY <1>1, <2>1, <3>1, DisabledAtKeeps
  <2>4. CASE op = "delete"
    <3>1. db' = D!RemoveAt(db, i)
      BY <1>3, <2>4 DEF D!Store, i
    <3>. QED  BY <1>1, <2>1, <3>1, RemoveAtKeeps
  <2>. QED  BY <2>2, <2>3, <2>4 DEF Ops
<1>. QED  BY <1>2, <1>3

\* The logs are read one after another.
LEMMA ElemsOfConcat ==
    ASSUME NEW S, NEW s \in Seq(S), NEW t \in Seq(S)
    PROVE  Elems(s \o t) = Elems(s) \union Elems(t)
<1>. DEFINE u == s \o t
<1>1. /\ Len(s) \in Nat /\ Len(t) \in Nat /\ DOMAIN s = 1..Len(s) /\ DOMAIN t = 1..Len(t)
      /\ DOMAIN u = 1..(Len(s) + Len(t))
      /\ \A i \in 1..(Len(s) + Len(t)) : u[i] = IF i <= Len(s) THEN s[i] ELSE t[i - Len(s)]
  BY ConcatProperties, LenProperties
<1>. HIDE DEF u
<1>2. ASSUME NEW x \in Elems(u)
      PROVE  x \in Elems(s) \union Elems(t)
  <2>1. PICK i \in 1..(Len(s) + Len(t)) : x = u[i]
    BY <1>1, <1>2 DEF Elems
  <2>2. CASE i <= Len(s)
    BY <1>1, <2>1, <2>2 DEF Elems
  <2>3. CASE i > Len(s)
    <3>1. i - Len(s) \in 1..Len(t) /\ x = t[i - Len(s)]
      BY <1>1, <2>1, <2>3
    <3>. QED  BY <1>1, <3>1 DEF Elems
  <2>. QED  BY <1>1, <2>2, <2>3
<1>3. ASSUME NEW x \in Elems(s)
      PROVE  x \in Elems(u)
  <2>1. PICK i \in 1..Len(s) : x = s[i]
    BY <1>1, <1>3 DEF Elems
  <2>2. i \in 1..(Len(s) + Len(t)) /\ u[i] = s[i]
    BY <1>1
  <2>. QED  BY <1>1, <2>1, <2>2 DEF Elems
<1>4. ASSUME NEW x \in Elems(t)
      PROVE  x \in Elems(u)
  <2>1. PICK i \in 1..Len(t) : x = t[i]
    BY <1>1, <1>4 DEF Elems
  <2>2. Len(s) + i \in 1..(Len(s) + Len(t)) /\ u[Len(s) + i] = t[i]
    BY <1>1
  <2>. QED  BY <1>1, <2>1, <2>2 DEF Elems
<1>. QED  BY <1>2, <1>3, <1>4 DEF u

\* An installation adds its line to the log.
LEMMA AppendElems ==
    ASSUME NEW S, NEW s \in Seq(S), NEW x \in S
    PROVE  Append(s, x) \in Seq(S) /\ Elems(Append(s, x)) = Elems(s) \union {x}
<1>. DEFINE k == Append(s, x)
<1>1. /\ k \in Seq(S) /\ DOMAIN s = 1..Len(s) /\ DOMAIN k = 1..(Len(s) + 1) /\ Len(s) \in Nat
      /\ \A i \in 1..Len(s) : k[i] = s[i]
      /\ k[Len(s) + 1] = x
  BY AppendProperties, LenProperties
<1>. HIDE DEF k
<1>2. Elems(k) = Elems(s) \union {x}
  BY <1>1 DEF Elems
<1>. QED  BY <1>1, <1>2 DEF k

\* The daemon has not been started, the store is empty.
LEMMA DeviceInitial == D!Init => DeviceInv
<1>. SUFFICES ASSUME D!Init PROVE DeviceInv
  OBVIOUS
<1>1. log = <<>> /\ db = <<>> /\ log \in Seq(Mids) /\ db \in Seq(Profiles) /\ DOMAIN log = {} /\ DOMAIN db = {}
  BY EmptySeq DEF D!Init
<1>2. DeviceType
  BY <1>1 DEF D!Init, DeviceType
<1>. QED  BY <1>1, <1>2 DEF D!Init, DeviceInv, Elems, D!ToSetOfMids, D!Masters, D!NoJob

\* What the logs hold: the profiles of both.
LEMMA InLogsHold ==
    ASSUME DeviceInv
    PROVE  D!InLogs \in Seq(Known) /\ Elems(D!InLogs) = Elems(log) \union Elems(D!SetToSeq(oldLog))
           /\ Elems(D!SetToSeq(oldLog)) \subseteq oldLog
<1>1. IsFiniteSet(oldLog) /\ oldLog \subseteq Known
  BY DeviceAssumption, FS_EmptySet DEF DeviceInv, DeviceType, Known
<1>. DEFINE s == D!SetToSeq(oldLog)
<1>2. s \in Seq(oldLog)
  BY <1>1, OldLogListed
<1>. HIDE DEF s
<1>3. s \in Seq(Known) /\ log \in Seq(Known)
  BY <1>1, <1>2, SeqMonotonic DEF DeviceInv, DeviceType, Known
<1>4. Elems(s) \subseteq oldLog
  BY <1>2, LenProperties DEF Elems
<1>. QED  BY <1>3, <1>4, ConcatProperties, ElemsOfConcat DEF D!InLogs, s

\* A profile that is installed is logged, and stays one that was.
LEMMA InstallsLogs ==
    ASSUME DeviceInv, NEW m \in D!Masters, NEW done \in BOOLEAN, D!Installs(m, done),
           download[m].mid \in Mids
    PROVE  /\ log' \in Seq(Mids) /\ ever \subseteq ever'
           /\ Elems(log') \subseteq ever' /\ installed' \subseteq Elems(log')
           /\ done => download[m].mid \in ever'
<1>. DEFINE x == download[m].mid
<1>1. CASE done
  <2>1. log' = Append(log, x) /\ installed' = installed \union {x} /\ ever' = ever \union {x}
    BY <1>1 DEF D!Installs
  <2>2. log \in Seq(Mids) /\ x \in Mids
    BY DEF DeviceInv, DeviceType
  <2>. HIDE DEF x
  <2>3. log' \in Seq(Mids) /\ Elems(log') = Elems(log) \union {x}
    BY <2>1, <2>2, AppendElems
  <2>4. x \in ever'
    BY <2>1
  <2>. QED  BY <2>1, <2>3, <2>4 DEF DeviceInv, x
<1>2. CASE ~done
  BY <1>2 DEF D!Installs, DeviceInv, DeviceType
<1>. QED  BY <1>1, <1>2

\* Every step of the daemon, of lpac and of both programs keeps it.
LEMMA DeviceStep == DeviceInv /\ D!Next => DeviceInv'
<1>. SUFFICES ASSUME DeviceInv, D!Next PROVE DeviceInv'
  OBVIOUS
<1>. USE DEF DeviceInv
<1>1. CASE D!StartDaemon
  <2>1. log' = <<>> /\ log' \in Seq(Mids) /\ DOMAIN log' = {}
    BY <1>1, EmptySeq DEF D!StartDaemon
  <2>2. UNCHANGED <<oldLog, db, work, download, ever>> /\ installed' = {}
    BY <1>1 DEF D!StartDaemon
  <2>3. Elems(log') = {}
    BY <2>1 DEF Elems
  <2>. QED  BY <2>1, <2>2, <2>3 DEF DeviceType
<1>2. CASE D!StopDaemon
  BY <1>2 DEF D!StopDaemon, DeviceType
<1>3. ASSUME NEW op \in Ops, NEW mid \in Known, D!GuiAsk(op, mid)
      PROVE  DeviceInv'
  BY <1>3 DEF D!GuiAsk, DeviceType, D!Masters
<1>4. ASSUME NEW op \in Ops, NEW row \in Known, D!ConsoleRecord(op, row)
      PROVE  DeviceInv'
  <2>1. PICK mid \in Known :
          /\ D!Store(op, mid)
          /\ work' = [work EXCEPT !["console"] =
                         IF D!StoreAgrees(op, mid) THEN [op |-> op, mid |-> mid] ELSE D!NoJob]
    <3>. DEFINE m == IF op = "delete" /\ db # <<>> THEN db[1].mid ELSE row
    <3>1. m \in Known
      <4>1. db # <<>> => db[1] \in Profiles
        BY EmptySeq, LenProperties DEF DeviceType
      <4>. QED  BY <4>1 DEF Profiles
    <3>. HIDE DEF m
    <3>. QED  BY <1>4, <3>1 DEF D!ConsoleRecord, m
  <2>2. db' \in Seq(Profiles) /\ D!ToSetOfMids(db') \subseteq D!ToSetOfMids(db)
    BY <2>1, StoreKeeps
  <2>3. UNCHANGED <<oldLog, log, download, installed, ever>>
    BY <1>4 DEF D!ConsoleRecord
  <2>4. work' \in [D!Masters -> {D!NoJob} \union [op : Ops, mid : Known]]
    BY <2>1 DEF DeviceType
  <2>. QED  BY <2>2, <2>3, <2>4 DEF DeviceType
<1>5. CASE D!GuiRecord
  <2>1. work["gui"] # D!NoJob /\ D!Store(work["gui"].op, work["gui"].mid)
    BY <1>5 DEF D!GuiRecord
  <2>2. work["gui"].op \in Ops
    BY <2>1 DEF DeviceType, D!Masters
  <2>3. db' \in Seq(Profiles) /\ D!ToSetOfMids(db') \subseteq D!ToSetOfMids(db)
    BY <2>1, <2>2, StoreKeeps
  <2>. QED  BY <1>5, <2>3 DEF D!GuiRecord, DeviceType
<1>6. CASE D!ConsoleAsk
  BY <1>6 DEF D!ConsoleAsk, DeviceType
<1>7. ASSUME NEW m \in D!Masters, D!LpacDownload(m)
      PROVE  DeviceInv'
  <2>1. PICK done \in BOOLEAN, o \in {"ok", "failed"} :
          /\ D!Installs(m, done) /\ (o = "ok" => done)
          /\ download' = [download EXCEPT ![m].op = o]
    BY <1>7, Zenon DEF D!LpacDownload
  <2>2. download[m].op = "running" /\ UNCHANGED <<oldLog, db, work>>
    BY <1>7 DEF D!LpacDownload
  <2>3. download[m] \in [op : {"running", "hangs", "ok", "failed"}, mid : Mids]
    BY <2>2 DEF DeviceType, D!NoJob
  <2>4. download' \in [D!Masters -> {D!NoJob} \union [op : {"running", "hangs", "ok", "failed"}, mid : Mids]]
    BY <2>1, <2>3 DEF DeviceType
  <2>5. /\ \A n \in D!Masters : n # m => download'[n] = download[n]
        /\ download'[m].mid = download[m].mid /\ download'[m].op = o
    BY <2>1, <2>3 DEF DeviceType
  <2>6. /\ log' \in Seq(Mids) /\ ever \subseteq ever' /\ Elems(log') \subseteq ever' /\ installed' \subseteq Elems(log')
        /\ o = "ok" => download[m].mid \in ever'
    <3>1. download[m].mid \in Mids /\ D!Installs(m, done)
      BY <2>1, <2>3
    <3>. QED  BY <2>1, <3>1, InstallsLogs, Zenon
  <2>. QED  BY <2>2, <2>4, <2>5, <2>6 DEF DeviceType
<1>8. ASSUME NEW m \in D!Masters, D!LpacHangs(m)
      PROVE  DeviceInv'
  <2>1. PICK done \in BOOLEAN : D!Installs(m, done)
    BY <1>8 DEF D!LpacHangs
  <2>2. /\ download[m].op = "running" /\ UNCHANGED <<oldLog, db, work>>
        /\ download' = [download EXCEPT ![m].op = "hangs"]
    BY <1>8 DEF D!LpacHangs
  <2>3. download[m] \in [op : {"running", "hangs", "ok", "failed"}, mid : Mids]
    BY <2>2 DEF DeviceType, D!NoJob
  <2>4. download' \in [D!Masters -> {D!NoJob} \union [op : {"running", "hangs", "ok", "failed"}, mid : Mids]]
    BY <2>2, <2>3 DEF DeviceType
  <2>5. \A n \in D!Masters : n # m => download'[n] = download[n]
    BY <2>2 DEF DeviceType
  <2>6. download'[m].op = "hangs"
    BY <2>2, <2>3 DEF DeviceType
  <2>7. log' \in Seq(Mids) /\ ever \subseteq ever' /\ Elems(log') \subseteq ever' /\ installed' \subseteq Elems(log')
    BY <2>1, <2>3, InstallsLogs
  <2>. QED  BY <2>2, <2>4, <2>5, <2>6, <2>7 DEF DeviceType
<1>9. ASSUME NEW m \in D!Masters, NEW mid \in Mids, D!DownloadProfile(m, mid)
      PROVE  DeviceInv'
  BY <1>9 DEF D!DownloadProfile, DeviceType
<1>10. CASE D!LpacTimesOut
  <2>1. /\ UNCHANGED <<seen, oldLog, daemon, log, db, work, starts, failures, installed, ever>>
        /\ download["gui"].op = "hangs"
        /\ download' = [download EXCEPT !["gui"].op = "failed"]
    BY <1>10 DEF D!LpacTimesOut
  <2>2. "gui" \in D!Masters /\ download["gui"] \in [op : {"running", "hangs", "ok", "failed"}, mid : Mids]
    BY <2>1 DEF DeviceType, D!Masters, D!NoJob
  <2>3. download' \in [D!Masters -> {D!NoJob} \union [op : {"running", "hangs", "ok", "failed"}, mid : Mids]]
    BY <2>1, <2>2 DEF DeviceType
  <2>4. \A n \in D!Masters : n # "gui" => download'[n] = download[n]
    BY <2>1 DEF DeviceType
  <2>5. download'["gui"].op = "failed"
    BY <2>1, <2>2 DEF DeviceType
  <2>6. DeviceType'
    BY <2>1, <2>3 DEF DeviceType
  <2>. QED  BY <2>1, <2>4, <2>5, <2>6
<1>11. CASE D!GuiDownloaded
  <2>1. db' \in Seq(Profiles) /\ D!ToSetOfMids(db') \subseteq ever \union oldLog
    <3>1. CASE download["gui"].op = "ok"
      <4>1. db' = D!AddProfiles(db, D!InLogs)
        BY <1>11, <3>1 DEF D!GuiDownloaded
      <4>. QED  BY <4>1, InLogsHold, AddProfilesAdds DEF DeviceType
    <3>2. CASE download["gui"].op # "ok"
      BY <1>11, <3>2 DEF D!GuiDownloaded, DeviceType
    <3>. QED  BY <3>1, <3>2
  <2>. QED  BY <1>11, <2>1 DEF D!GuiDownloaded, DeviceType, D!Masters, D!NoJob
<1>12. CASE D!ConsoleDownloaded
  <2>1. db' \in Seq(Profiles) /\ D!ToSetOfMids(db') \subseteq ever \union oldLog
    <3>1. CASE download["console"].op = "ok"
      <4>1. db' = D!AddProfile(db, download["console"].mid)
        BY <1>12, <3>1 DEF D!ConsoleDownloaded
      <4>2. download["console"].mid \in Known /\ download["console"].mid \in ever
        BY <3>1 DEF DeviceType, D!Masters, D!NoJob, Known
      <4>. QED  BY <4>1, <4>2, AddProfileAdds DEF DeviceType
    <3>2. CASE download["console"].op # "ok"
      BY <1>12, <3>2 DEF D!ConsoleDownloaded, DeviceType
    <3>. QED  BY <3>1, <3>2
  <2>. QED  BY <1>12, <2>1 DEF D!ConsoleDownloaded, DeviceType, D!Masters, D!NoJob
<1>. HIDE DEF DeviceInv
<1>. QED  BY <1>1, <1>2, <1>3, <1>4, <1>5, <1>6, <1>7, <1>8, <1>9, <1>10, <1>11, <1>12 DEF D!Next, Ops, Known

\* ... so it holds in every state.
LEMMA DeviceInvariance == Spec => []DeviceInv
<1>1. Init => DeviceInv
  BY DeviceInitial DEF Init
<1>2. DeviceInv /\ [Next]_vars => DeviceInv'
  <2>1. DeviceInv /\ UNCHANGED device => DeviceInv'
    BY DEF DeviceInv, DeviceType, device, Elems, D!ToSetOfMids
  <2>. QED  BY <2>1, DeviceStep DEF Next, vars
<1>. QED  BY <1>1, <1>2, PTL DEF Spec

\* For any number of profiles, starts of the daemon and failures: the store holds
\* no profile that no card ever installed, save those of the demo script's log,
\* whether a download failed, timed out or raced a restart
\* (DownloadWorker.run, ProfileSelector._on_download_complete).
THEOREM StoreHoldsOnlyInstalled == Spec => []OnlyInstalled
<1>1. DeviceInv => OnlyInstalled
  BY DEF DeviceInv, OnlyInstalled, D!OnlyInstalled
<1>. QED  BY <1>1, DeviceInvariance, PTL

\* What a step of the device has to do for the synchronisation to be complete.
LEMMA SyncStep ==
    ASSUME DeviceInv, D!Next, download["gui"].op = "ok", download'["gui"] = D!NoJob
    PROVE  installed \subseteq D!ToSetOfMids(db')
<1>1. D!GuiDownloaded
  <2>1. download \in [D!Masters -> {D!NoJob} \union [op : {"running", "hangs", "ok", "failed"}, mid : Mids]]
    BY DEF DeviceInv, DeviceType
  <2>2. download["gui"] # D!NoJob
    BY DEF D!NoJob
  <2>3. UNCHANGED download => FALSE
    BY <2>2
  <2>4. \A m \in D!Masters : ~D!LpacDownload(m) /\ ~D!LpacHangs(m)
    <3>1. SUFFICES ASSUME NEW m \in D!Masters, NEW o,
                          download[m].op = "running", download' = [download EXCEPT ![m].op = o]
                   PROVE  FALSE
      BY Zenon DEF D!LpacDownload, D!LpacHangs
    <3>. QED  BY <2>1, <2>2, <3>1 DEF D!Masters
  <2>5. \A m \in D!Masters, mid \in Mids : ~D!DownloadProfile(m, mid)
    BY <2>1, <2>2 DEF D!DownloadProfile, D!Masters
  <2>6. ~D!LpacTimesOut
    BY DEF D!LpacTimesOut
  <2>7. ~D!ConsoleDownloaded
    BY <2>1, <2>2 DEF D!ConsoleDownloaded, D!Masters
  <2>8. D!StartDaemon \/ D!StopDaemon \/ D!GuiRecord \/ D!ConsoleAsk => FALSE
    BY <2>3 DEF D!StartDaemon, D!StopDaemon, D!GuiRecord, D!ConsoleAsk
  <2>9. \A op, mid : ~D!GuiAsk(op, mid) /\ ~D!ConsoleRecord(op, mid)
    BY <2>3 DEF D!GuiAsk, D!ConsoleRecord
  <2>. QED  BY <2>4, <2>5, <2>6, <2>7, <2>8, <2>9 DEF D!Next
<1>2. db' = D!AddProfiles(db, D!InLogs)
  BY <1>1 DEF D!GuiDownloaded
<1>. QED  BY <1>2, InLogsHold, AddProfilesAdds DEF DeviceInv, DeviceType

\* A download that the control centre reports as done leaves in the store every
\* profile the card installed since the daemon was started, those of the console
\* and those whose download was reported as failed too
\* (ProfileSelector._sync_all_profiles_from_logs).
THEOREM DownloadSyncsAll == Spec => SyncComplete
<1>1. DeviceInv /\ [Next]_vars
        => [download["gui"].op = "ok" /\ download'["gui"] = D!NoJob
              => installed \subseteq D!ToSetOfMids(db')]_(D!vars)
  <2>1. UNCHANGED vars => UNCHANGED D!vars
    BY DEF vars, device, D!vars
  <2>2. Next => D!Next \/ UNCHANGED D!vars
    BY DEF Next, device, D!vars
  <2>. QED  BY <2>1, <2>2, SyncStep
<1>. QED  BY <1>1, DeviceInvariance, PTL DEF Spec, SyncComplete, D!SyncComplete

-----------------------------------------------------------------------------
(* The secure channel. *)

\* The security level's bits ...
Bits == {"cmac", "cenc", "rmac", "renc"}

\* ... the shell's end of a session (class SCP) ...
Sessions == [proto : C!Protocols, level : SUBSET Bits, sid : Nat \ {0}, mac : Nat, nr : Nat]

\* ... the card's end ...
CardSessions == [sid : Nat \ {0}, proto : C!Protocols, level : SUBSET Bits, mac : Nat, nr : Nat, auth : BOOLEAN]

\* ... and a LOAD or STORE DATA in several blocks.
Jobs == [op : {"load", "store"}, left : Nat, total : Int, block : Nat, chunk : Int]

\* Types of the two ends and of what is sent in blocks.
ChannelType ==
    /\ scp \in {C!NoScp} \union Sessions
    /\ trial \in {C!NoScp} \union Sessions
    /\ sd \in {C!NoSession} \union CardSessions
    /\ block \in {C!NoJob} \union Jobs
    /\ received \in Int
    /\ sessions \in Nat

\* The messages of establish_scp.
Establishing == {"init", "initrsp", "auth", "authrsp"}

\* The encryption counter is behind the MAC by the one command that is not
\* encrypted, EXTERNAL AUTHENTICATE, or is not used.
Tied(s) == s.nr = IF s.proto # "scp02" /\ C!Cenc(s) THEN s.mac - 1 ELSE 0

\* Card and shell are in one session.
Together == sd.sid = scp.sid /\ sd.auth

\* What is on its way belongs to what the shell does: the messages of a session
\* being opened, or one command with the counters its sender had reached.
WireInv ==
    /\ wire.kind \in {"none", "cmd", "rsp"} \union Establishing
    /\ wire.kind = "none" => wire = C!NoWire
    /\ wire.kind \in Establishing <=> trial # C!NoScp
    /\ wire.kind \in Establishing => scp = C!NoScp /\ block = C!NoJob
    /\ wire.kind \in {"cmd", "rsp"} <=> asked # C!NoWire
    /\ wire.kind = "cmd" =>
         /\ wire.cmd = asked
         /\ wire.sm => /\ scp # C!NoScp
                       /\ wire.sid = scp.sid /\ wire.mac = scp.mac /\ wire.nr = scp.nr
                       /\ "cmac" \in scp.level /\ asked.gp

\* While a session is opened the card has the same one, and only a right EXTERNAL
\* AUTHENTICATE takes both ends to their first MAC.
TrialInv ==
    trial # C!NoScp =>
      /\ trial.nr = 0
      /\ wire.kind = "init" => wire.sid = trial.sid /\ wire.proto = trial.proto
      /\ wire.kind # "init" =>
           \/ /\ sd # C!NoSession
              /\ sd.sid = trial.sid /\ sd.proto = trial.proto /\ sd.nr = 0
           \/ wire.kind = "authrsp" /\ ~wire.ok
      /\ wire.kind = "initrsp" => ~sd.auth
      /\ wire.kind = "auth" =>
           wire.sid = trial.sid /\ wire.level = trial.level /\ (wire.macs => trial.mac = 1)
      /\ wire.kind = "authrsp" /\ wire.ok =>
           trial.mac = 1 /\ sd.mac = 1 /\ sd.level = trial.level /\ sd.auth

\* The counters: each end's two counters are tied; the ends of one session have
\* one protocol and level; and as long as nothing was lost or given up half done,
\* the card is as far as the shell, or behind by the one command on its way.
\* Without the ties the agreement of the MAC counters would say nothing of the
\* encryption counters, and it would not be inductive.  A command given up half
\* done unties the shell's only where there is an encryption counter.
CountInv ==
    /\ sd # C!NoSession /\ sd.auth => Tied(sd)
    /\ scp # C!NoScp /\ ~C!Garbling => Tied(scp)
    /\ scp # C!NoScp /\ Together => sd.proto = scp.proto /\ sd.level = scp.level
    /\ ~lost /\ ~half /\ scp # C!NoScp =>
         \/ wire.kind = "rsp" /\ sd = C!NoSession
         \/ /\ Together
            /\ sd.mac = IF wire.kind = "cmd" /\ wire.sm THEN scp.mac - 1 ELSE scp.mac
    /\ wire.kind = "rsp" /\ wire.sm /\ (asked.case <= 2 \/ ~C!Garbling) => executed = asked

\* What the card has received of a content is what was sent of it, unless the
\* session garbles.
JobInv ==
    block # C!NoJob =>
      /\ wire.kind \in {"none", "cmd"} => C!Garbling \/ received = block.total - block.left
      /\ wire.kind = "rsp" => C!Garbling \/ wire.sw = "error" \/ received = block.total - block.left + asked.lc
      /\ wire.kind \in {"cmd", "rsp"} => asked.lc = C!BlockLen

\* All of it.
ChannelInv == ChannelType /\ WireInv /\ TrialInv /\ CountInv /\ JobInv

\* No session, and nothing on its way.
LEMMA ChannelInitial == C!Init => ChannelInv
BY DEF C!Init, ChannelInv, ChannelType, WireInv, TrialInv, CountInv, JobInv, Establishing,
       C!NoWire, C!NoScp, C!NoSession, C!NoJob, Together

\* No session is mistaken for none.
LEMMA SessionsAreSome ==
    /\ C!NoScp \notin Sessions /\ C!NoSession \notin CardSessions /\ C!NoJob \notin Jobs
    /\ \A gp, case, lc, last_, b :
         [gp |-> gp, case |-> case, lc |-> lc, last |-> last_, block |-> b] # C!NoWire
<1>1. \A s \in Sessions : "mac" \in DOMAIN s
  BY DEF Sessions
<1>2. \A s \in CardSessions : "mac" \in DOMAIN s
  BY DEF CardSessions
<1>3. \A s \in Jobs : "left" \in DOMAIN s
  BY DEF Jobs
<1>4. DOMAIN C!NoScp = {"proto"} /\ DOMAIN C!NoSession = {"sid"} /\ DOMAIN C!NoJob = {"op"} /\ DOMAIN C!NoWire = {"kind"}
  BY DEF C!NoScp, C!NoSession, C!NoJob, C!NoWire
<1>5. \A gp, case, lc, last_, b :
         "gp" \in DOMAIN [gp |-> gp, case |-> case, lc |-> lc, last |-> last_, block |-> b]
  OBVIOUS
<1>. QED  BY <1>1, <1>2, <1>3, <1>4, <1>5

\* INITIALIZE UPDATE is sent for a new session ...
LEMMA EstablishScpStep ==
    ASSUME ChannelInv, NEW p \in C!Protocols, NEW l \in C!Levels, NEW k, C!EstablishScp(p, l, k)
    PROVE  ChannelInv'
<1>. DEFINE t == [proto |-> p, level |-> l, sid |-> sessions + 1, mac |-> 0, nr |-> 0]
<1>1. /\ C!Free /\ block = C!NoJob /\ scp = C!NoScp
      /\ sessions' = sessions + 1 /\ trial' = t
      /\ wire' = [kind |-> "init", sid |-> sessions + 1, proto |-> p]
      /\ UNCHANGED <<scp, sd, asked, executed, block, received, errors, lost, half>>
  BY DEF C!EstablishScp
<1>2. t \in Sessions
  BY DEF Sessions, ChannelInv, ChannelType, C!Levels, Bits
<1>3. ChannelType'
  BY <1>1, <1>2 DEF ChannelInv, ChannelType
<1>4. wire'.kind = "init" /\ wire'.sid = t.sid /\ wire'.proto = t.proto /\ t.nr = 0
  BY <1>1
<1>5. t # C!NoScp
  BY <1>2, SessionsAreSome
<1>. HIDE DEF t
<1>6. WireInv'
  BY <1>1, <1>4, <1>5 DEF ChannelInv, WireInv, Establishing, C!Free, C!NoWire
<1>7. TrialInv'
  BY <1>1, <1>4 DEF TrialInv
<1>8. CountInv' /\ JobInv'
  BY <1>1, <1>4 DEF ChannelInv, CountInv, JobInv, Together, C!Free, C!NoWire, Tied, C!Cenc
<1>. QED  BY <1>3, <1>6, <1>7, <1>8 DEF ChannelInv

\* ... the card opens its end ...
LEMMA CardInitUpdateStep == ASSUME ChannelInv, C!CardInitUpdate PROVE ChannelInv'
<1>. DEFINE s == [sid |-> wire.sid, proto |-> wire.proto, level |-> {}, mac |-> 0, nr |-> 0, auth |-> FALSE]
<1>1. /\ wire.kind = "init" /\ sd' = s
      /\ wire' = [kind |-> "initrsp", sid |-> wire.sid]
      /\ UNCHANGED <<scp, trial, asked, executed, block, received, sessions, errors, lost, half>>
  BY DEF C!CardInitUpdate
<1>2. /\ trial # C!NoScp /\ scp = C!NoScp /\ block = C!NoJob /\ asked = C!NoWire
      /\ wire.sid = trial.sid /\ wire.proto = trial.proto /\ trial \in Sessions
  BY <1>1 DEF ChannelInv, WireInv, TrialInv, Establishing, ChannelType
<1>3. s \in CardSessions /\ s # C!NoSession
  <2>1. /\ wire.sid \in Nat \ {0} /\ wire.proto \in C!Protocols /\ {} \in SUBSET Bits /\ 0 \in Nat
        /\ FALSE \in BOOLEAN
    BY <1>2 DEF Sessions
  <2>2. s \in CardSessions
    BY <2>1, Zenon DEF CardSessions
  <2>. QED  BY <2>2, SessionsAreSome
<1>4. s.sid = trial.sid /\ s.proto = trial.proto /\ s.nr = 0 /\ ~s.auth
  BY <1>2
<1>5. ChannelType'
  BY <1>1, <1>3 DEF ChannelInv, ChannelType
<1>. HIDE DEF s
<1>6. WireInv'
  BY <1>1, <1>2 DEF ChannelInv, WireInv, Establishing
<1>7. TrialInv'
  BY <1>1, <1>2, <1>3, <1>4 DEF ChannelInv, TrialInv
<1>8. CountInv' /\ JobInv'
  BY <1>1, <1>2, <1>4 DEF ChannelInv, CountInv, JobInv
<1>. QED  BY <1>5, <1>6, <1>7, <1>8 DEF ChannelInv

\* ... the shell checks the card's cryptogram and counts its first MAC ...
LEMMA ParseInitUpdateStep ==
    ASSUME ChannelInv, NEW same \in BOOLEAN, C!ParseInitUpdate(same) PROVE ChannelInv'
<1>1. /\ wire.kind = "initrsp"
      /\ UNCHANGED <<scp, sd, asked, executed, block, received, sessions, errors, lost, half>>
  BY DEF C!ParseInitUpdate
<1>2. /\ trial # C!NoScp /\ scp = C!NoScp /\ block = C!NoJob /\ asked = C!NoWire
      /\ trial \in Sessions
  BY <1>1 DEF ChannelInv, WireInv, TrialInv, Establishing, ChannelType
<1>3. CASE trial' = C!NoScp /\ wire' = C!NoWire
  BY <1>1, <1>2, <1>3 DEF ChannelInv, ChannelType, WireInv, TrialInv, CountInv, JobInv, Establishing,
       C!NoWire
<1>4. ASSUME NEW macs, trial' = [trial EXCEPT !.mac = IF macs THEN 1 ELSE 0],
             wire' = [kind |-> "auth", sid |-> trial.sid, level |-> trial.level, macs |-> macs]
      PROVE  ChannelInv'
  <2>1. /\ trial' \in Sessions /\ trial'.sid = trial.sid /\ trial'.level = trial.level
        /\ trial'.proto = trial.proto /\ trial'.nr = trial.nr
    BY <1>2, <1>4 DEF Sessions
  <2>2. macs => trial'.mac = 1
    BY <1>2, <1>4 DEF Sessions
  <2>3. wire'.kind = "auth" /\ wire'.sid = trial.sid /\ wire'.level = trial.level /\ wire'.macs = macs
    BY <1>4
  <2>4. ChannelType'
    BY <1>1, <2>1 DEF ChannelInv, ChannelType
  <2>5. WireInv'
    BY <1>1, <1>2, <2>1, <2>3, SessionsAreSome DEF ChannelInv, WireInv, Establishing
  <2>6. TrialInv'
    BY <1>1, <1>2, <2>1, <2>2, <2>3 DEF ChannelInv, TrialInv
  <2>7. CountInv' /\ JobInv'
    BY <1>1, <1>2, <2>3 DEF ChannelInv, CountInv, JobInv
  <2>. QED  BY <2>4, <2>5, <2>6, <2>7 DEF ChannelInv
<1>. QED  BY <1>3, <1>4, Zenon DEF C!ParseInitUpdate

\* ... the card checks the host's ...
LEMMA CardExtAuthStep == ASSUME ChannelInv, C!CardExtAuth PROVE ChannelInv'
<1>1. /\ wire.kind = "auth"
      /\ UNCHANGED <<scp, trial, asked, executed, block, received, sessions, errors, lost, half>>
  BY DEF C!CardExtAuth
<1>2. /\ trial # C!NoScp /\ scp = C!NoScp /\ block = C!NoJob /\ asked = C!NoWire
      /\ trial \in Sessions
      /\ wire.sid = trial.sid /\ wire.level = trial.level /\ (wire.macs => trial.mac = 1)
      /\ sd # C!NoSession /\ sd.sid = trial.sid /\ sd.proto = trial.proto /\ sd.nr = 0
      /\ trial.nr = 0
  BY <1>1 DEF ChannelInv, WireInv, TrialInv, Establishing, ChannelType
<1>3. CASE wire.macs
  <2>1. /\ sd' = [sd EXCEPT !.level = wire.level, !.mac = 1, !.auth = TRUE]
        /\ wire' = [kind |-> "authrsp", ok |-> TRUE]
    BY <1>1, <1>2, <1>3 DEF C!CardExtAuth
  <2>2. sd \in CardSessions /\ wire.level \in SUBSET Bits /\ 1 \in Nat /\ TRUE \in BOOLEAN
    BY <1>2 DEF ChannelInv, ChannelType, Sessions
  <2>3. sd' \in CardSessions
    BY <2>1, <2>2, Zenon DEF CardSessions
  <2>4. /\ sd'.sid = sd.sid /\ sd'.proto = sd.proto /\ sd'.nr = sd.nr
        /\ sd'.level = wire.level /\ sd'.mac = 1 /\ sd'.auth
    BY <2>1, <2>2 DEF CardSessions
  <2>5. wire'.kind = "authrsp"
    BY <2>1
  <2>6. ChannelType'
    BY <1>1, <2>3 DEF ChannelInv, ChannelType
  <2>7. WireInv'
    BY <1>1, <1>2, <2>5 DEF ChannelInv, WireInv, Establishing
  <2>8. TrialInv'
    <3>1. sd' # C!NoSession
      BY <2>3, SessionsAreSome
    <3>. QED  BY <1>1, <1>2, <1>3, <2>4, <2>5, <3>1 DEF TrialInv
  <2>9. Tied(sd)'
    BY <1>2, <2>4 DEF Tied
  <2>10. CountInv' /\ JobInv'
    BY <1>1, <1>2, <2>5, <2>9 DEF ChannelInv, CountInv, JobInv
  <2>. QED  BY <2>6, <2>7, <2>8, <2>10 DEF ChannelInv
<1>4. CASE ~wire.macs
  <2>1. sd' = C!NoSession /\ wire' = [kind |-> "authrsp", ok |-> FALSE]
    BY <1>1, <1>2, <1>4 DEF C!CardExtAuth
  <2>2. wire'.kind = "authrsp" /\ ~wire'.ok
    BY <2>1
  <2>3. ChannelType'
    BY <1>1, <2>1 DEF ChannelInv, ChannelType
  <2>4. WireInv'
    BY <1>1, <1>2, <2>2 DEF ChannelInv, WireInv, Establishing
  <2>5. TrialInv' /\ CountInv' /\ JobInv'
    BY <1>1, <1>2, <2>1, <2>2 DEF TrialInv, CountInv, JobInv
  <2>. QED  BY <2>3, <2>4, <2>5 DEF ChannelInv
<1>. QED  BY <1>3, <1>4

\* ... and the session is the shell's when it is the card's.
LEMMA EstablishedStep == ASSUME ChannelInv, C!Established PROVE ChannelInv'
<1>1. /\ wire.kind = "authrsp" /\ scp' = (IF wire.ok THEN trial ELSE C!NoScp)
      /\ trial' = C!NoScp /\ wire' = C!NoWire /\ ~lost' /\ ~half'
      /\ UNCHANGED <<sd, asked, executed, block, received, sessions, errors>>
  BY DEF C!Established
<1>2. /\ trial # C!NoScp /\ block = C!NoJob /\ asked = C!NoWire
      /\ trial \in Sessions /\ trial.nr = 0
  BY <1>1 DEF ChannelInv, WireInv, TrialInv, Establishing, ChannelType
<1>3. wire'.kind = "none"
  BY <1>1 DEF C!NoWire
<1>4. ChannelType'
  BY <1>1 DEF ChannelInv, ChannelType
<1>5. WireInv' /\ TrialInv' /\ JobInv'
  BY <1>1, <1>2, <1>3 DEF WireInv, TrialInv, JobInv, Establishing
<1>6. CountInv'
  <2>1. CASE ~wire.ok
    BY <1>1, <1>3, <2>1 DEF ChannelInv, CountInv, Tied, C!Cenc
  <2>2. CASE wire.ok
    <3>1. /\ scp' = trial /\ scp'.mac = 1 /\ scp'.nr = 0
          /\ sd # C!NoSession /\ sd.sid = trial.sid /\ sd.proto = trial.proto /\ sd.nr = 0
          /\ sd.mac = 1 /\ sd.level = trial.level /\ sd.auth
      BY <1>1, <1>2, <2>2 DEF ChannelInv, TrialInv
    <3>2. Tied(sd)' /\ Tied(scp)'
      BY <1>1, <3>1 DEF Tied
    <3>. QED  BY <1>1, <1>3, <3>1, <3>2 DEF CountInv, Together
  <2>. QED  BY <2>1, <2>2
<1>. QED  BY <1>4, <1>5, <1>6 DEF ChannelInv

\* release_scp, and a reset of the card, end sessions between commands.
LEMMA ReleaseStep == ASSUME ChannelInv, C!ReleaseScp \/ C!ResetCard PROVE ChannelInv'
<1>1. /\ C!Free /\ block = C!NoJob /\ scp' = C!NoScp /\ sd' \in {sd, C!NoSession}
      /\ UNCHANGED <<trial, wire, asked, executed, block, received, sessions, errors, lost, half>>
  BY DEF C!ReleaseScp, C!ResetCard
<1>2. wire.kind = "none" /\ trial = C!NoScp
  BY <1>1 DEF C!Free, C!NoWire
<1>3. ChannelType'
  BY <1>1 DEF ChannelInv, ChannelType
<1>4. WireInv' /\ TrialInv' /\ JobInv'
  BY <1>1, <1>2 DEF ChannelInv, WireInv, TrialInv, JobInv, Establishing
<1>5. CountInv'
  BY <1>1, <1>2 DEF ChannelInv, CountInv, Tied, C!Cenc
<1>. QED  BY <1>3, <1>4, <1>5 DEF ChannelInv

\* The counts stay tied to each other in a command that is sent; a command given
\* up half done is known to be one.
LEMMA SendStep ==
    ASSUME ChannelInv, NEW c, c # C!NoWire, C!Free, C!Send(c),
           UNCHANGED <<trial, sd, executed, lost>>
    PROVE  /\ scp' \in {C!NoScp} \union Sessions
           /\ wire'.kind \in {"none", "cmd"}
           /\ wire'.kind = "cmd" => asked' = c /\ C!Garbling' = C!Garbling
           /\ wire'.kind = "none" => asked' = C!NoWire
           /\ block' \in {block, C!NoJob} => WireInv' /\ TrialInv' /\ CountInv'
<1>1. wire.kind = "none" /\ asked = C!NoWire /\ trial = C!NoScp /\ trial' = C!NoScp
  BY DEF C!Free, C!NoWire
<1>2. TrialInv'
  BY <1>1 DEF TrialInv
<1>3. CASE wire' = C!Plain(c) /\ asked' = c /\ UNCHANGED <<scp, half>>
  <2>1. wire'.kind = "cmd" /\ ~wire'.sm /\ wire'.cmd = c
    BY <1>3 DEF C!Plain
  <2>2. WireInv'
    BY <1>1, <1>3, <2>1 DEF WireInv, Establishing
  <2>3. CountInv'
    BY <1>1, <1>3, <2>1 DEF C!Garbling, ChannelInv, CountInv, Tied, C!Cenc, Together
  <2>4. C!Garbling' = C!Garbling
    BY <1>3 DEF C!Garbling, C!Cenc
  <2>. QED  BY <1>2, <1>3, <2>1, <2>2, <2>3, <2>4 DEF ChannelInv, ChannelType
<1>4. CASE scp # C!NoScp /\ scp' = C!HalfDone(scp, c) /\ half' = (half \/ scp' # scp) /\ wire' = C!NoWire /\ asked' = C!NoWire
  <2>1. wire'.kind = "none" /\ scp \in Sessions
    BY <1>4 DEF C!NoWire, ChannelInv, ChannelType
  <2>2. scp' \in Sessions /\ scp'.sid = scp.sid /\ scp'.proto = scp.proto /\ scp'.level = scp.level
    BY <1>4, <2>1 DEF C!HalfDone, Sessions
  <2>3. WireInv'
    BY <1>1, <1>4, <2>1 DEF WireInv, Establishing
  <2>4. CountInv'
    <3>1. CASE half'
      <4>1. Together' = Together /\ Tied(sd)' = Tied(sd)
        BY <2>2 DEF Together, Tied, C!Cenc
      <4>2. ASSUME ~C!Garbling' PROVE Tied(scp)'
        <5>1. ~(scp.proto # "scp02" /\ C!Cenc(scp)) /\ ~C!Garbling
          BY <1>4, <2>2, <3>1, <4>2, SessionsAreSome DEF C!Garbling, C!Cenc
        <5>2. scp'.nr = scp.nr
          BY <1>4, <2>1, <5>1 DEF C!HalfDone, Sessions
        <5>3. Tied(scp)
          BY <1>4, <5>1 DEF ChannelInv, CountInv
        <5>. QED  BY <2>2, <5>1, <5>2, <5>3 DEF Tied, C!Cenc
      <4>. QED  BY <1>4, <2>1, <2>2, <3>1, <4>1, <4>2 DEF ChannelInv, CountInv
    <3>2. CASE ~half'
      <4>1. ~half /\ scp' = scp
        BY <1>4, <3>2
      <4>2. Together' = Together /\ Tied(sd)' = Tied(sd) /\ Tied(scp)' = Tied(scp)
        BY <4>1 DEF Together, Tied, C!Cenc
      <4>. QED  BY <1>1, <1>4, <2>1, <4>1, <4>2 DEF C!Garbling, C!Cenc, ChannelInv, CountInv
    <3>. QED  BY <3>1, <3>2
  <2>. QED  BY <1>2, <1>4, <2>1, <2>2, <2>3, <2>4
<1>5. CASE scp # C!NoScp /\ c.gp /\ "cmac" \in scp.level /\ scp' = C!Counted(scp, c) /\ wire' = C!Wrapped(scp, c) /\ asked' = c /\ UNCHANGED half
  <2>1. scp \in Sessions
    BY <1>5 DEF ChannelInv, ChannelType
  <2>2. /\ scp' \in Sessions /\ scp'.mac = scp.mac + 1 /\ scp'.sid = scp.sid /\ scp'.proto = scp.proto /\ scp'.level = scp.level
        /\ scp'.nr = IF scp.proto # "scp02" /\ C!Cenc(scp) THEN scp.nr + 1 ELSE scp.nr
    <3>. DEFINE n == IF scp.proto # "scp02" /\ C!Cenc(scp) THEN scp.nr + 1 ELSE scp.nr
    <3>1. n \in Nat /\ scp.mac + 1 \in Nat
      BY <2>1 DEF Sessions
    <3>2. scp' = [scp EXCEPT !.mac = scp.mac + 1, !.nr = n]
      BY <1>5 DEF C!Counted
    <3>. HIDE DEF n
    <3>3. /\ scp' \in Sessions /\ scp'.mac = scp.mac + 1 /\ scp'.sid = scp.sid /\ scp'.proto = scp.proto
          /\ scp'.level = scp.level /\ scp'.nr = n
      BY <2>1, <3>1, <3>2 DEF Sessions
    <3>. QED  BY <3>3 DEF n
  <2>3. wire'.kind = "cmd" /\ wire'.sm /\ wire'.cmd = c /\ wire'.sid = scp.sid /\ wire'.mac = scp'.mac /\ wire'.nr = scp'.nr
    BY <1>5 DEF C!Wrapped
  <2>4. scp' # C!NoScp
    BY <2>2, SessionsAreSome
  <2>5. WireInv'
    BY <1>1, <1>5, <2>2, <2>3, <2>4 DEF WireInv, Establishing
  <2>6. CountInv'
    <3>1. C!Cenc(scp)' = C!Cenc(scp)
      BY <2>2 DEF C!Cenc
    <3>2. Tied(scp) => Tied(scp)'
      BY <2>1, <2>2, <3>1 DEF Tied, Sessions
    <3>3. Together' = Together
      BY <2>2 DEF Together
    <3>4. Tied(sd)' = Tied(sd)
      BY DEF Tied, C!Cenc
    <3>5. scp.mac = scp'.mac - 1
      BY <2>1, <2>2 DEF Sessions
    <3>. QED  BY <1>1, <1>5, <2>2, <2>3, <2>4, <3>2, <3>3, <3>4, <3>5 DEF C!Garbling, C!Cenc, ChannelInv, CountInv
  <2>7. C!Garbling' = C!Garbling
    BY <1>5, <2>2, <2>4 DEF C!Garbling, C!Cenc
  <2>. QED  BY <1>2, <1>5, <2>2, <2>3, <2>5, <2>6, <2>7
<1>. QED  BY <1>3, <1>4, <1>5, Zenon DEF C!Send

\* A command that was executed or refused leaves the counters where the shell's are.
LEMMA AnsweredStep ==
    ASSUME ChannelInv, NEW sw, wire.kind = "cmd", wire.cmd = asked, UNCHANGED <<scp, trial, asked, block, sessions, half>>,
           sd' \in {sd} \union CardSessions, wire'.kind = "rsp", wire'.sw = sw,
           ~C!Understood(wire) => C!Garbling,
           received' = IF block = C!NoJob \/ sw = "error" \/ ~C!Understood(wire) THEN received
                       ELSE received + wire.cmd.lc
    PROVE  ChannelType' /\ JobInv'
<1>1. CASE block = C!NoJob
  BY <1>1 DEF ChannelInv, ChannelType, JobInv
<1>2. CASE block # C!NoJob
  <2>1. /\ block \in Jobs /\ asked.lc = C!BlockLen
        /\ C!Garbling \/ received = block.total - block.left
    BY <1>2 DEF ChannelInv, ChannelType, JobInv
  <2>2. C!BlockLen \in Int /\ C!BlockLen' = C!BlockLen
    BY <2>1 DEF C!BlockLen, Jobs
  <2>3. received' \in Int
    BY <1>2, <2>1, <2>2 DEF ChannelInv, ChannelType
  <2>4. ChannelType'
    BY <2>3 DEF ChannelInv, ChannelType
  <2>5. C!Garbling' = C!Garbling
    BY DEF C!Garbling, C!Cenc
  <2>6. JobInv'
    BY <1>2, <2>1, <2>2, <2>5 DEF JobInv
  <2>. QED  BY <2>4, <2>6
<1>. QED  BY <1>1, <1>2

\* No command is mistaken for none.
LEMMA CommandIsSome ==
    ASSUME NEW gp, NEW case, NEW lc PROVE C!Command(gp, case, lc) # C!NoWire
BY SessionsAreSome DEF C!Command

\* A command of its own is sent.
LEMMA SingleStep ==
    ASSUME ChannelInv, NEW c, c # C!NoWire, C!Free, block = C!NoJob, C!Send(c),
           UNCHANGED <<trial, sd, executed, block, received, sessions, errors, lost>>
    PROVE  ChannelInv'
<1>1. scp' \in {C!NoScp} \union Sessions /\ WireInv' /\ TrialInv' /\ CountInv'
  BY SendStep
<1>2. ChannelType'
  BY <1>1 DEF ChannelInv, ChannelType
<1>. QED  BY <1>1, <1>2 DEF ChannelInv, JobInv

\* The card checks the counters, executes or refuses, and may forget the session.
LEMMA CardExecutesStep ==
    ASSUME ChannelInv, NEW sw \in {"ok", "error"}, C!CardExecutes(sw)
    PROVE  ChannelInv'
<1>1. /\ wire.kind = "cmd" /\ trial = C!NoScp
      /\ UNCHANGED <<scp, trial, asked, block, sessions, errors, lost, half>>
  BY DEF C!CardExecutes, ChannelInv, WireInv, Establishing
<1>2. asked # C!NoWire /\ wire.cmd = asked
  BY <1>1 DEF ChannelInv, WireInv
<1>3. TrialInv'
  BY <1>1 DEF TrialInv
<1>4. CASE ~C!Accepts(wire)
  <2>1. /\ sd' = C!NoSession /\ wire' = [kind |-> "rsp", sw |-> "error", sm |-> FALSE]
        /\ UNCHANGED <<executed, received>>
    BY <1>4 DEF C!CardExecutes
  <2>2. wire'.kind = "rsp" /\ wire'.sw = "error" /\ ~wire'.sm
    BY <2>1
  <2>3. ChannelType'
    BY <1>1, <2>1 DEF ChannelInv, ChannelType
  <2>4. WireInv' /\ JobInv'
    BY <1>1, <1>2, <2>1, <2>2 DEF ChannelInv, WireInv, JobInv, Establishing, C!BlockLen
  <2>5. CountInv'
    <3>1. scp # C!NoScp => ~Together' /\ scp.sid # 0
      BY <1>1, <2>1 DEF Together, C!NoSession, ChannelInv, ChannelType, Sessions
    <3>. QED  BY <1>1, <2>1, <2>2, <3>1 DEF C!Garbling, ChannelInv, CountInv, Tied, C!Cenc
  <2>. QED  BY <1>3, <2>3, <2>4, <2>5 DEF ChannelInv
<1>5. CASE C!Accepts(wire) /\ ~wire.sm
  <2>1. /\ sd' = sd /\ wire' = [kind |-> "rsp", sw |-> sw, sm |-> wire.sm /\ sw # "error"]
        /\ received' = IF block = C!NoJob \/ sw = "error" \/ ~C!Understood(wire) THEN received
                       ELSE received + wire.cmd.lc
        /\ C!Understood(wire)
    BY <1>5 DEF C!CardExecutes, C!Understood
  <2>2. wire'.kind = "rsp" /\ wire'.sw = sw /\ ~wire'.sm
    BY <1>5, <2>1
  <2>3. ChannelType' /\ JobInv'
    BY <1>1, <1>2, <2>1, <2>2, AnsweredStep
  <2>4. WireInv'
    BY <1>1, <1>2, <2>2 DEF ChannelInv, WireInv, Establishing
  <2>5. CountInv'
    BY <1>1, <1>5, <2>1, <2>2 DEF C!Garbling, ChannelInv, CountInv, Tied, C!Cenc, Together
  <2>. QED  BY <1>3, <2>3, <2>4, <2>5 DEF ChannelInv
<1>6. CASE C!Accepts(wire) /\ wire.sm
  <2>1. /\ sd' = C!CardCounted(wire) /\ wire' = [kind |-> "rsp", sw |-> sw, sm |-> wire.sm /\ sw # "error"]
        /\ received' = (IF block = C!NoJob \/ sw = "error" \/ ~C!Understood(wire) THEN received
                        ELSE received + wire.cmd.lc)
        /\ executed' = IF C!Understood(wire) THEN wire.cmd ELSE [wire.cmd EXCEPT !.lc = -1]
    BY <1>6 DEF C!CardExecutes
  <2>2. wire'.kind = "rsp" /\ wire'.sw = sw
    BY <2>1
  <2>3. /\ scp # C!NoScp /\ wire.sid = scp.sid /\ wire.mac = scp.mac /\ wire.nr = scp.nr
        /\ "cmac" \in scp.level /\ asked.gp
    BY <1>1, <1>6 DEF ChannelInv, WireInv
  <2>4. Together /\ scp.mac = sd.mac + 1 /\ sd.sid # 0
    BY <1>2, <1>6, <2>3 DEF C!Accepts, Together
  <2>5. sd \in CardSessions /\ scp \in Sessions /\ sd # C!NoSession
    BY <2>3, <2>4 DEF ChannelInv, ChannelType, C!NoSession
  <2>6. /\ sd' \in CardSessions /\ sd'.sid = sd.sid /\ sd'.proto = sd.proto /\ sd'.level = sd.level /\ sd'.auth = sd.auth
        /\ sd'.mac = sd.mac + 1
        /\ sd'.nr = IF sd.proto # "scp02" /\ "cenc" \in sd.level THEN sd.nr + 1 ELSE sd.nr
    <3>. DEFINE n == IF sd.proto # "scp02" /\ "cenc" \in sd.level THEN sd.nr + 1 ELSE sd.nr
    <3>1. n \in Nat /\ sd.mac + 1 \in Nat
      BY <2>5 DEF CardSessions
    <3>2. sd' = [sd EXCEPT !.mac = sd.mac + 1, !.nr = n]
      BY <2>1 DEF C!CardCounted
    <3>. HIDE DEF n
    <3>3. sd' \in CardSessions
      BY <2>5, <3>1, <3>2, Zenon DEF CardSessions
    <3>4. /\ sd'.sid = sd.sid /\ sd'.proto = sd.proto /\ sd'.level = sd.level /\ sd'.auth = sd.auth
          /\ sd'.mac = sd.mac + 1 /\ sd'.nr = n
      BY <2>5, <3>2 DEF CardSessions
    <3>. QED  BY <3>3, <3>4 DEF n
  <2>7. Tied(sd)' /\ Together'
    <3>1. Tied(sd)
      BY <2>4, <2>5 DEF ChannelInv, CountInv, Together
    <3>2. C!Cenc(sd)' = C!Cenc(sd) /\ (C!Cenc(sd) <=> "cenc" \in sd.level)
      BY <2>6 DEF C!Cenc
    <3>3. Tied(sd)'
      BY <2>5, <2>6, <3>1, <3>2 DEF Tied, CardSessions
    <3>. QED  BY <1>1, <2>4, <2>6, <3>3 DEF Together
  <2>8. C!Understood(wire) \/ (C!Garbling /\ ~(asked.case <= 2))
    <3>1. SUFFICES ASSUME ~C!Garbling PROVE wire.nr = C!CardCounted(wire).nr
      BY <1>2 DEF C!Understood
    <3>2. Tied(scp) /\ sd.proto = scp.proto /\ sd.level = scp.level
      BY <2>3, <2>4, <3>1 DEF ChannelInv, CountInv
    <3>3. sd'.nr = scp.nr
      BY <2>4, <2>5, <2>6, <2>7, <3>2 DEF Tied, C!Cenc, Sessions, CardSessions
    <3>. QED  BY <2>1, <2>3, <3>3
  <2>9. ChannelType' /\ JobInv'
    BY <1>1, <1>2, <2>1, <2>2, <2>6, <2>8, AnsweredStep
  <2>10. WireInv'
    BY <1>1, <1>2, <2>2 DEF ChannelInv, WireInv, Establishing
  <2>11. CountInv'
    <3>1. asked.case <= 2 \/ ~C!Garbling => executed' = asked
      BY <1>2, <2>1, <2>8
    <3>2. Tied(scp)' = Tied(scp) /\ C!Garbling' = C!Garbling
      BY <1>1 DEF Tied, C!Cenc, C!Garbling
    <3>. QED  BY <1>1, <2>2, <2>3, <2>4, <2>6, <2>7, <3>1, <3>2 DEF ChannelInv, CountInv
  <2>. QED  BY <1>3, <2>9, <2>10, <2>11 DEF ChannelInv
<1>. QED  BY <1>4, <1>5, <1>6

\* The shell takes the answer; one without a session behind it counts as lost.
LEMMA AnswerStep == ASSUME ChannelInv, NEW empty \in BOOLEAN, C!Answer(empty) PROVE ChannelInv'
<1>1. /\ wire.kind = "rsp" /\ wire' = C!NoWire /\ asked' = C!NoWire
      /\ lost' = (lost \/ sd = C!NoSession)
      /\ block' = (IF block = C!NoJob \/ wire.sw = "error" \/ C!Rejected(empty) THEN C!NoJob
                  ELSE [block EXCEPT !.left = @ - asked.lc, !.block = @ + 1])
      /\ received' = (IF block' = C!NoJob THEN 0 ELSE received)
      /\ UNCHANGED <<scp, trial, sd, sessions, errors, half>>
  BY DEF C!Answer
<1>2. trial = C!NoScp /\ wire'.kind = "none"
  BY <1>1 DEF ChannelInv, WireInv, Establishing, C!NoWire
<1>3. WireInv' /\ TrialInv'
  BY <1>1, <1>2 DEF WireInv, TrialInv, Establishing
<1>4. CountInv'
  <2>1. /\ Tied(sd)' = Tied(sd) /\ Tied(scp)' = Tied(scp) /\ Together' = Together
        /\ C!Garbling' = C!Garbling
    BY <1>1 DEF Tied, C!Cenc, Together, C!Garbling
  <2>2. ~lost' => ~lost /\ sd # C!NoSession
    BY <1>1
  <2>. QED  BY <1>1, <1>2, <2>1, <2>2 DEF ChannelInv, CountInv
<1>5. CASE block' = C!NoJob
  BY <1>1, <1>3, <1>4, <1>5 DEF ChannelInv, ChannelType, JobInv
<1>6. CASE block' # C!NoJob
  <2>1. block # C!NoJob /\ wire.sw # "error" /\ block \in Jobs
    BY <1>1, <1>6 DEF ChannelInv, ChannelType
  <2>2. asked.lc = C!BlockLen /\ C!BlockLen \in Int /\ C!BlockLen <= block.left
    BY <1>1, <2>1 DEF ChannelInv, JobInv, C!BlockLen, Jobs
  <2>3. block' = [block EXCEPT !.left = block.left - asked.lc, !.block = block.block + 1]
    BY <1>1, <1>6, <2>1
  <2>4. block' \in Jobs /\ block'.left = block.left - asked.lc /\ block'.total = block.total
    <3>. DEFINE l == block.left - asked.lc
                b == block.block + 1
    <3>1. l \in Nat /\ b \in Nat
      BY <2>1, <2>2 DEF Jobs
    <3>2. block' = [block EXCEPT !.left = l, !.block = b]
      BY <2>3
    <3>. HIDE DEF l, b
    <3>3. block' \in Jobs /\ block'.left = l /\ block'.total = block.total
      BY <2>1, <3>1, <3>2 DEF Jobs
    <3>. QED  BY <3>3 DEF l
  <2>5. C!Garbling \/ received = block.total - block.left + asked.lc
    BY <1>1, <2>1 DEF ChannelInv, JobInv
  <2>6. received' = received /\ (C!Garbling' \/ received = block'.total - block'.left)
    <3>1. C!Garbling' = C!Garbling
      BY <1>1 DEF C!Garbling, C!Cenc
    <3>. QED  BY <1>1, <1>6, <2>1, <2>2, <2>4, <2>5, <3>1 DEF Jobs
  <2>. QED  BY <1>1, <1>2, <1>3, <1>4, <2>4, <2>6 DEF ChannelInv, ChannelType, JobInv
<1>. QED  BY <1>5, <1>6

\* A reader error loses what is on its way, and the loss is remembered.
LEMMA ReaderErrorStep == ASSUME ChannelInv, C!ReaderError PROVE ChannelInv'
<1>1. /\ wire' = C!NoWire /\ asked' = C!NoWire /\ trial' = C!NoScp /\ block' = C!NoJob /\ received' = 0
      /\ lost' /\ UNCHANGED <<scp, sd, sessions, half>>
  BY DEF C!ReaderError
<1>2. wire'.kind = "none"
  BY <1>1 DEF C!NoWire
<1>. QED  BY <1>1, <1>2 DEF C!Garbling, ChannelInv, ChannelType, WireInv, TrialInv, CountInv, JobInv, Establishing,
                         Tied, C!Cenc, Together

\* A LOAD or STORE DATA begins ...
LEMMA BeginStep ==
    ASSUME ChannelInv, NEW op \in {"load", "store"}, NEW n \in Contents, C!Begin(op, n)
    PROVE  ChannelInv'
<1>1. /\ C!Free /\ received' = 0
      /\ block' = [op |-> op, left |-> n, total |-> n, block |-> 0,
                   chunk |-> IF op = "load" THEN 240 ELSE C!CmdLen]
      /\ UNCHANGED <<scp, trial, sd, wire, asked, executed, sessions, errors, lost, half>>
  BY DEF C!Begin
<1>2. wire.kind = "none" /\ trial = C!NoScp /\ asked = C!NoWire
  BY <1>1 DEF C!Free, C!NoWire
<1>3. n \in Nat /\ (IF op = "load" THEN 240 ELSE C!CmdLen) \in Int
  BY ChannelAssumption DEF C!CmdLen, C!MacLen
<1>4. block' \in Jobs /\ block'.total = n /\ block'.left = n
  BY <1>1, <1>3 DEF Jobs
<1>. QED  BY <1>1, <1>2, <1>3, <1>4 DEF C!Garbling, ChannelInv, ChannelType, WireInv, TrialInv, CountInv, JobInv, Establishing,
                         Tied, C!Cenc, Together

\* ... its next block is sent ...
LEMMA SendBlockStep == ASSUME ChannelInv, C!SendBlock PROVE ChannelInv'
<1>. DEFINE c == [C!Command(TRUE, 4, C!BlockLen) EXCEPT !.last = (block.left = C!BlockLen),
                                                    !.block = block.block % 256]
<1>1. /\ C!Free /\ block # C!NoJob /\ C!Send(c)
      /\ block' = (IF asked' = C!NoWire THEN C!NoJob ELSE block)
      /\ received' = (IF asked' = C!NoWire THEN 0 ELSE received)
      /\ UNCHANGED <<trial, sd, executed, sessions, errors, lost>>
  BY DEF C!SendBlock
<1>2. c.lc = C!BlockLen /\ c # C!NoWire
  <2>. DEFINE r == C!Command(TRUE, 4, C!BlockLen)
              e == (block.left = C!BlockLen)
              b == block.block % 256
  <2>1. r.lc = C!BlockLen /\ DOMAIN r = {"gp", "case", "lc", "last", "block"}
    BY DEF C!Command
  <2>2. c = [r EXCEPT !.last = e, !.block = b]
    OBVIOUS
  <2>. HIDE DEF c, r, e, b
  <2>3. c.lc = r.lc /\ DOMAIN c = DOMAIN r
    BY <2>1, <2>2
  <2>4. "gp" \notin DOMAIN C!NoWire
    BY DEF C!NoWire
  <2>. QED  BY <2>1, <2>3, <2>4
<1>3. wire.kind = "none"
  BY <1>1 DEF C!Free, C!NoWire
<1>. HIDE DEF c
<1>4. /\ scp' \in {C!NoScp} \union Sessions
      /\ wire'.kind \in {"none", "cmd"}
      /\ wire'.kind = "cmd" => asked' = c /\ C!Garbling' = C!Garbling
      /\ wire'.kind = "none" => asked' = C!NoWire
      /\ block' \in {block, C!NoJob} => WireInv' /\ TrialInv' /\ CountInv'
  BY <1>1, <1>2, SendStep
<1>5. WireInv' /\ TrialInv' /\ CountInv'
  BY <1>1, <1>4
<1>6. ChannelType'
  BY <1>1, <1>4 DEF ChannelInv, ChannelType
<1>7. JobInv'
  BY <1>1, <1>2, <1>3, <1>4 DEF ChannelInv, JobInv, C!BlockLen
<1>. QED  BY <1>5, <1>6, <1>7 DEF ChannelInv

\* ... and it ends.
LEMMA LoadedStep == ASSUME ChannelInv, C!Loaded PROVE ChannelInv'
BY DEF C!Garbling, C!Loaded, ChannelInv, ChannelType, WireInv, TrialInv, CountInv, JobInv, Tied, C!Cenc, Together

\* Every step of the shell, the reader and the card keeps it.
LEMMA ChannelStep == ChannelInv /\ C!Next => ChannelInv'
<1>. SUFFICES ASSUME ChannelInv, C!Next PROVE ChannelInv'
  OBVIOUS
<1>1. ASSUME NEW gp, NEW case, NEW lc, C!Single(gp, case, lc) PROVE ChannelInv'
  BY <1>1, CommandIsSome, SingleStep DEF C!Single
<1>2. ASSUME NEW len, C!PutKey(len) PROVE ChannelInv'
  BY <1>2, CommandIsSome, SingleStep DEF C!PutKey
<1>. QED  BY <1>1, <1>2, EstablishScpStep, CardInitUpdateStep, CardExtAuthStep, EstablishedStep, ReleaseStep,
            ParseInitUpdateStep, CardExecutesStep, AnswerStep, ReaderErrorStep, BeginStep,
            SendBlockStep, LoadedStep, Zenon DEF C!Next

\* ... so it holds in every state.
LEMMA ChannelInvariance == Spec => []ChannelInv
<1>1. Init => ChannelInv
  BY ChannelInitial DEF Init
<1>2. ChannelInv /\ [Next]_vars => ChannelInv'
  <2>1. ChannelInv /\ UNCHANGED channel => ChannelInv'
    BY DEF C!Garbling, ChannelInv, ChannelType, WireInv, TrialInv, CountInv, JobInv, channel, Tied, C!Cenc, Together, C!BlockLen
  <2>. QED  BY <2>1, ChannelStep DEF Next, vars
<1>. QED  BY <1>1, <1>2, PTL DEF Spec

\* For commands and contents of any length and any number of sessions: as long as
\* no command was lost and none was given up half wrapped, both counters of the
\* two ends agree whenever nothing is on its way (SCP.wrap_cmd_apdu,
\* unwrap_rsp_apdu, Scp03SessionKeys).
THEOREM EndsStayInStep == Spec => []InStep
<1>1. ChannelInv => InStep
  <2>1. SUFFICES ASSUME ChannelInv, ~lost, ~half, scp # C!NoScp, wire = C!NoWire
                 PROVE  sd.sid = scp.sid /\ sd.auth /\ sd.mac = scp.mac /\ sd.nr = scp.nr
    BY DEF InStep, C!InStep
  <2>2. wire.kind = "none"
    BY <2>1 DEF C!NoWire
  <2>3. Together /\ sd.mac = scp.mac
    BY <2>1, <2>2 DEF ChannelInv, CountInv
  <2>4. sd # C!NoSession
    BY <2>1, <2>3 DEF ChannelInv, ChannelType, Sessions, C!NoSession, Together
  <2>5. sd.nr = scp.nr
    BY <2>1, <2>3, <2>4 DEF C!Garbling, ChannelInv, CountInv, Together, Tied, C!Cenc
  <2>. QED  BY <2>3, <2>5 DEF Together
<1>. QED  BY <1>1, ChannelInvariance, PTL

\* What the card executes in a session is what the shell asked, also after losses,
\* and a LOAD or STORE DATA that ends has left all of its content on the card
\* (load, store_data); except what is in the data after an exception in SCP03 with
\* C-ENC advanced the encryption counter alone (Garbling).
THEOREM CardExecutesAsAsked == Spec => []ExecutedAsAsked
<1>1. ChannelInv => C!LoadedWhole
  <2>1. SUFFICES ASSUME ChannelInv, block # C!NoJob, block.left <= 0, wire = C!NoWire
                 PROVE  received = block.total \/ C!Garbling
    BY DEF C!LoadedWhole
  <2>2. /\ wire.kind = "none" /\ block \in Jobs
        /\ C!Garbling \/ received = block.total - block.left
    BY <2>1 DEF C!NoWire, ChannelInv, ChannelType, JobInv
  <2>. QED  BY <2>1, <2>2 DEF Jobs
<1>2. ChannelInv => C!ExecutedAsAsked
  BY <1>1 DEF C!ExecutedAsAsked, ChannelInv, CountInv
<1>3. ChannelInv => ExecutedAsAsked
  BY <1>2 DEF ExecutedAsAsked
<1>. QED  BY <1>3, ChannelInvariance, PTL

-----------------------------------------------------------------------------
(* The files of a card. *)

\* The octets of a file, filled up with ff.
Bytes == Octets \union {255}

\* An object as it is sent: its length and its octets.
Objects == Seq(Octets \union Nat)

\* A name for the Booleans that the provers need not look into.
Flags == BOOLEAN

\* A READ or UPDATE BINARY under way ...
BinJobs ==
    [cmd : {"read", "update"}, kind : {"read", "compare", "write", "verify"}, off : Nat,
     data : Seq(Bytes), len : Nat, pos : Nat, out : Seq(Bytes), verify : Flags, before : Seq(Bytes)]

\* ... and a SET DATA.
SetJobs ==
    [cmd : {"set"}, kind : {"set"}, off : {0}, data : Objects, pos : Nat, len : Nat, before : Objects]

\* What a command on the transparent EF has done so far.
BinJob ==
    /\ job \in BinJobs
    /\ last = F!Nothing
    /\ Len(job.before) = Size
    /\ job.pos <= job.len /\ (job.pos > 0 => job.off + job.pos <= Size)
    /\ job.cmd = "read" => job.kind = "read"
    /\ job.cmd = "update" => job.kind # "read" /\ job.len = Len(job.data)
    /\ job.kind \in {"read", "compare"} =>
         bin = job.before /\ job.out = SubSeq(bin, job.off + 1, job.off + job.pos)
    /\ job.kind = "write" => bin = F!Overlay(job.before, job.off, SubSeq(job.data, 1, job.pos))
    /\ job.kind = "verify" => bin = F!Overlay(job.before, job.off, job.data)

\* What a SET DATA has done so far.
SetJob ==
    /\ job \in SetJobs
    /\ last = F!Nothing
    /\ tlv = job.before
    /\ Len(job.data) = job.len /\ job.len = job.data[1] + 1 /\ job.pos < job.len
    /\ job.pos > 0 => part = [got |-> SubSeq(job.data, 1, job.pos), need |-> job.len]

\* An update of a record under way ...
RecordJob(k, d, n, v, b) ==
    [cmd |-> "record", kind |-> k, off |-> 0, data |-> d, len |-> n, verify |-> v, before |-> b]

\* ... and what it has done so far.
RecJob ==
    \E k, d, n, v :
        /\ k \in {"compareRecord", "writeRecord", "verifyRecord"} /\ d \in Seq(Bytes)
        /\ job = RecordJob(k, d, n, v, job.before)
        /\ last = F!Nothing
        /\ rec = IF k = "verifyRecord" THEN d ELSE job.before
        /\ k = "verifyRecord" => Len(d) = RecLen

\* An object to be deleted.
DelJob ==
    /\ job = [cmd |-> "set", kind |-> "delete", off |-> 0, data |-> <<>>, pos |-> 0, len |-> 0,
              before |-> tlv]
    /\ last = F!Nothing

\* What makes both properties inductive: the command under way has read, or
\* written, a beginning, and nothing but that has happened to the file since
\* before it.
FileInv ==
    /\ bin \in Seq(Bytes) /\ Len(bin) = Size
    /\ tlv \in Objects
    /\ job = F!NoJob \/ BinJob \/ SetJob \/ RecJob \/ DelJob
    /\ F!TrueOutcome
    /\ F!ObjectWhole

\* Writing over a part of a file leaves a file of the same size ...
LEMMA OverlayType ==
    ASSUME NEW S, NEW s \in Seq(S), NEW d \in Seq(S), NEW off \in Nat
    PROVE  F!Overlay(s, off, d) \in Seq(S) /\ Len(F!Overlay(s, off, d)) = Len(s)
<1>. DEFINE o == F!Overlay(s, off, d)
<1>1. Len(s) \in Nat /\ Len(d) \in Nat
  BY LenProperties
<1>2. o \in [1..Len(s) -> S]
  <2>1. ASSUME NEW i \in 1..Len(s)
        PROVE  (IF i > off /\ i <= off + Len(d) THEN d[i - off] ELSE s[i]) \in S
    <3>1. CASE i > off /\ i <= off + Len(d)
      <4>1. i - off \in 1..Len(d)
        BY <1>1, <3>1
      <4>. QED  BY <3>1, <4>1, ElementOfSeq
    <3>2. CASE ~(i > off /\ i <= off + Len(d))
      BY <3>2, ElementOfSeq
    <3>. QED  BY <3>1, <3>2
  <2>. QED  BY <2>1 DEF F!Overlay
<1>. HIDE DEF o
<1>3. o \in Seq(S) /\ Len(o) = Len(s)
  BY <1>1, <1>2, FunctionIsSeq
<1>. QED  BY <1>3 DEF o

\* ... with the new octets there and the old elsewhere ...
LEMMA OverlayAt ==
    ASSUME NEW s, NEW d, NEW off \in Nat, NEW i \in 1..Len(s)
    PROVE  F!Overlay(s, off, d)[i] = IF i > off /\ i <= off + Len(d) THEN d[i - off] ELSE s[i]
BY DEF F!Overlay

\* ... no octets change nothing ...
LEMMA OverlayNothing ==
    ASSUME NEW S, NEW s \in Seq(S), NEW off \in Nat, NEW d \in Seq(S), Len(d) = 0
    PROVE  F!Overlay(s, off, d) = s
<1>. DEFINE o == F!Overlay(s, off, d)
<1>1. o \in Seq(S) /\ Len(o) = Len(s)
  BY OverlayType
<1>2. ASSUME NEW i \in 1..Len(s) PROVE o[i] = s[i]
  BY OverlayAt
<1>. HIDE DEF o
<1>3. o = s
  BY <1>1, <1>2, SeqEqual
<1>. QED  BY <1>3 DEF o

\* ... nor do those that are there already (conserve) ...
LEMMA OverlaySame ==
    ASSUME NEW S, NEW s \in Seq(S), NEW off \in Nat, NEW d \in Seq(S), off + Len(d) <= Len(s),
           SubSeq(s, off + 1, off + Len(d)) = d
    PROVE  F!Overlay(s, off, d) = s
<1>. DEFINE o == F!Overlay(s, off, d)
<1>0. Len(s) \in Nat /\ Len(d) \in Nat
  BY LenProperties
<1>1. o \in Seq(S) /\ Len(o) = Len(s)
  BY OverlayType
<1>2. \A j \in 1..Len(d) : d[j] = s[off + j]
  <2>1. \A j \in (off + 1)..(off + Len(d)) : s[j] \in S
    BY <1>0, ElementOfSeq
  <2>2. \A j \in 1..((off + Len(d)) - (off + 1) + 1) : d[j] = s[(off + 1) + j - 1]
    BY <1>0, <2>1, SubSeqProperties
  <2>3. \A j \in 1..Len(d) : j \in 1..((off + Len(d)) - (off + 1) + 1) /\ (off + 1) + j - 1 = off + j
    BY <1>0
  <2>. QED  BY <2>2, <2>3
<1>3. ASSUME NEW i \in 1..Len(s) PROVE o[i] = s[i]
  <2>1. o[i] = IF i > off /\ i <= off + Len(d) THEN d[i - off] ELSE s[i]
    BY OverlayAt
  <2>2. CASE i > off /\ i <= off + Len(d)
    <3>1. i - off \in 1..Len(d) /\ off + (i - off) = i
      BY <1>0, <2>2
    <3>2. d[i - off] = s[off + (i - off)]
      BY <1>2, <3>1
    <3>. QED  BY <2>1, <2>2, <3>1, <3>2
  <2>. QED  BY <2>1, <2>2
<1>. HIDE DEF o
<1>4. o = s
  BY <1>1, <1>3, SeqEqual
<1>. QED  BY <1>4 DEF o

\* A part of a list.
LEMMA SubSeqAt ==
    ASSUME NEW S, NEW d \in Seq(S), NEW p \in Nat, NEW q \in Nat, p <= q, q <= Len(d)
    PROVE  /\ SubSeq(d, p + 1, q) \in Seq(S) /\ Len(SubSeq(d, p + 1, q)) = q - p
           /\ \A i \in 1..(q - p) : SubSeq(d, p + 1, q)[i] = d[p + i]
<1>0. Len(d) \in Nat
  BY LenProperties
<1>1. \A j \in (p + 1)..q : d[j] \in S
  BY <1>0, ElementOfSeq
<1>2. /\ SubSeq(d, p + 1, q) \in Seq(S) /\ Len(SubSeq(d, p + 1, q)) = (IF p + 1 <= q THEN q - (p + 1) + 1 ELSE 0)
      /\ \A i \in 1..(q - (p + 1) + 1) : SubSeq(d, p + 1, q)[i] = d[(p + 1) + i - 1]
  BY <1>1, SubSeqProperties
<1>3. \A i \in 1..(q - p) : i \in 1..(q - (p + 1) + 1) /\ (p + 1) + i - 1 = p + i
  OBVIOUS
<1>4. \A i \in 1..(q - p) : SubSeq(d, p + 1, q)[i] = d[p + i]
  BY <1>2, <1>3
<1>. QED  BY <1>2, <1>4

\* Two overlays, one next to the other, are one.
Overlaid(s, off, d, p, q) ==
    F!Overlay(F!Overlay(s, off, SubSeq(d, 1, p)), off + p, SubSeq(d, p + 1, q))
      = F!Overlay(s, off, SubSeq(d, 1, q))

\* ... and the next chunk after a beginning gives a longer beginning.
LEMMA OverlayMore ==
    ASSUME NEW S, NEW s \in Seq(S), NEW off \in Nat, NEW d \in Seq(S),
           NEW p \in Nat, NEW q \in Nat, p <= q, q <= Len(d)
    PROVE  Overlaid(s, off, d, p, q)
<1>. DEFINE dp == SubSeq(d, 1, p)
            dq == SubSeq(d, 1, q)
            e == SubSeq(d, p + 1, q)
            o == F!Overlay(s, off, dp)
            l == F!Overlay(o, off + p, e)
            r == F!Overlay(s, off, dq)
<1>0. Len(s) \in Nat /\ Len(d) \in Nat /\ p <= Len(d) /\ 0 \in Nat /\ 0 + 1 = 1 /\ off + p \in Nat
  BY LenProperties
<1>1. dp \in Seq(S) /\ Len(dp) = p /\ \A i \in 1..p : dp[i] = d[i]
  <2>1. /\ SubSeq(d, 0 + 1, p) \in Seq(S) /\ Len(SubSeq(d, 0 + 1, p)) = p - 0
        /\ \A i \in 1..(p - 0) : SubSeq(d, 0 + 1, p)[i] = d[0 + i]
    BY <1>0, SubSeqAt
  <2>. QED  BY <1>0, <2>1
<1>2. dq \in Seq(S) /\ Len(dq) = q /\ \A i \in 1..q : dq[i] = d[i]
  <2>1. /\ SubSeq(d, 0 + 1, q) \in Seq(S) /\ Len(SubSeq(d, 0 + 1, q)) = q - 0
        /\ \A i \in 1..(q - 0) : SubSeq(d, 0 + 1, q)[i] = d[0 + i]
    BY <1>0, SubSeqAt
  <2>. QED  BY <1>0, <2>1
<1>3. e \in Seq(S) /\ Len(e) = q - p /\ \A i \in 1..(q - p) : e[i] = d[p + i]
  BY SubSeqAt
<1>. HIDE DEF dp, dq, e
<1>4. o \in Seq(S) /\ Len(o) = Len(s)
  BY <1>1, OverlayType
<1>5. \A i \in 1..Len(s) : o[i] = IF i > off /\ i <= off + p THEN dp[i - off] ELSE s[i]
  BY <1>1, OverlayAt
<1>. HIDE DEF o
<1>6. l \in Seq(S) /\ Len(l) = Len(s) /\ r \in Seq(S) /\ Len(r) = Len(s)
  BY <1>0, <1>2, <1>3, <1>4, OverlayType
<1>7. \A i \in 1..Len(s) : l[i] = IF i > off + p /\ i <= off + p + (q - p) THEN e[i - (off + p)] ELSE o[i]
  BY <1>0, <1>3, <1>4, OverlayAt
<1>8. \A i \in 1..Len(s) : r[i] = IF i > off /\ i <= off + q THEN dq[i - off] ELSE s[i]
  BY <1>2, OverlayAt
<1>. HIDE DEF l, r
<1>9. ASSUME NEW i \in 1..Len(s) PROVE l[i] = r[i]
  <2>1. CASE i <= off
    BY <1>0, <1>5, <1>7, <1>8, <2>1
  <2>2. CASE i > off /\ i <= off + p
    <3>1. i - off \in 1..p /\ i - off \in 1..q
      BY <2>2
    <3>2. dp[i - off] = dq[i - off]
      BY <1>1, <1>2, <3>1
    <3>. QED  BY <1>5, <1>7, <1>8, <2>2, <3>2
  <2>3. CASE i > off + p /\ i <= off + q
    <3>1. i - (off + p) \in 1..(q - p) /\ i - off \in 1..q /\ p + (i - (off + p)) = i - off
      BY <2>3
    <3>2. e[i - (off + p)] = d[i - off] /\ dq[i - off] = d[i - off]
      BY <1>2, <1>3, <3>1
    <3>3. l[i] = e[i - (off + p)]
      BY <1>7, <2>3
    <3>4. r[i] = dq[i - off]
      BY <1>8, <2>3
    <3>. QED  BY <3>2, <3>3, <3>4
  <2>4. CASE i > off + q
    BY <1>0, <1>5, <1>7, <1>8, <2>4
  <2>. QED  BY <1>0, <2>1, <2>2, <2>3, <2>4
<1>10. l = r
  BY <1>6, <1>9, SeqEqual
<1>. QED  BY <1>10, Zenon DEF Overlaid, l, r, o, dp, dq, e

\* The whole of the data is a beginning of it, and so is nothing.
LEMMA Beginnings ==
    ASSUME NEW S, NEW d \in Seq(S), NEW s \in Seq(S), NEW off \in Nat
    PROVE  /\ Len(d) \in Nat /\ SubSeq(d, 1, Len(d)) = d
           /\ F!Overlay(s, off, SubSeq(d, 1, 0)) = s
<1>1. Len(d) \in Nat /\ SubSeq(d, 1, Len(d)) = d
  BY LenProperties, SubSeqFull
<1>2. SubSeq(d, 1, 0) = <<>> /\ <<>> \in Seq(S) /\ Len(<<>>) = 0
  BY SubSeqEmpty, EmptySeq
<1>. QED  BY <1>1, <1>2, OverlayNothing

\* While a command goes on nothing is said of its outcome.
LEMMA NothingSaid ==
    ASSUME last' = F!Nothing PROVE F!TrueOutcome' /\ (tlv' = tlv /\ F!ObjectWhole => F!ObjectWhole')
<1>1. last'.kind = "none"
  BY DEF F!Nothing
<1>. QED  BY <1>1 DEF F!TrueOutcome, F!UpdateOutcome, F!ReadOutcome, F!ObjectWhole

\* An update that ends.
LEMMA UpdateEnds ==
    ASSUME FileInv, BinJob, job.cmd = "update", NEW ok, NEW out, F!End(job, ok, out),
           NEW n \in 0..Len(job.data), ok => n = Len(job.data),
           bin' = F!Overlay(job.before, job.off, SubSeq(job.data, 1, n)), tlv' = tlv
    PROVE  FileInv'
<1>1. job \in BinJobs /\ job.data \in Seq(Bytes) /\ job.before \in Seq(Bytes) /\ job.off \in Nat /\ Len(job.before) = Size
  BY DEF BinJob, BinJobs
<1>2. Len(job.data) \in Nat /\ SubSeq(job.data, 1, n) \in Seq(Bytes)
  <2>1. Len(job.data) \in Nat
    BY <1>1, LenProperties
  <2>2. \A i \in 1..n : job.data[i] \in Bytes
    BY <1>1, <2>1, ElementOfSeq
  <2>. QED  BY <2>1, <2>2, SubSeqProperties
<1>3. bin' \in Seq(Bytes) /\ Len(bin') = Size
  BY <1>1, <1>2, OverlayType
<1>4. /\ job' = F!NoJob /\ last'.kind = "update" /\ last'.off = job.off /\ last'.data = job.data
      /\ last'.before = job.before
  BY DEF F!End
<1>5. last'.ok => ok
  BY DEF F!End
<1>6. F!TrueOutcome' /\ F!ObjectWhole'
  BY <1>4, <1>5 DEF F!TrueOutcome, F!UpdateOutcome, F!ReadOutcome, F!ObjectWhole, FileInv
<1>. QED  BY <1>3, <1>4, <1>6 DEF FileInv

\* A read that ends.
LEMMA ReadEnds ==
    ASSUME FileInv, BinJob, job.cmd = "read", NEW ok, NEW out, F!End(job, ok, out),
           ok => out = SubSeq(job.before, job.off + 1, job.off + Len(out)),
           bin' = bin, tlv' = tlv
    PROVE  FileInv'
<1>1. /\ job' = F!NoJob /\ last'.kind = "read" /\ last'.off = job.off /\ last'.out = out
      /\ last'.before = job.before
  BY DEF F!End
<1>2. last'.ok => ok
  BY DEF F!End
<1>3. F!TrueOutcome' /\ F!ObjectWhole'
  BY <1>1, <1>2 DEF F!TrueOutcome, F!UpdateOutcome, F!ReadOutcome, F!ObjectWhole, FileInv
<1>. QED  BY <1>1, <1>3 DEF FileInv

\* A command on the transparent EF goes on.
LEMMA BinGoesOn ==
    ASSUME FileInv, BinJob', tlv' = tlv, bin' \in Seq(Bytes), Len(bin') = Size
    PROVE  FileInv'
<1>1. last' = F!Nothing
  BY DEF BinJob
<1>. QED  BY <1>1, NothingSaid DEF FileInv

\* No command has been given.
LEMMA FileInitial == F!Init => FileInv
<1>. SUFFICES ASSUME F!Init PROVE FileInv
  OBVIOUS
<1>1. bin \in [1..Size -> Bytes]
  BY DEF F!Init, Bytes
<1>2. bin \in Seq(Bytes) /\ Len(bin) = Size
  BY <1>1, FilesAssumption, FunctionIsSeq
<1>3. last.kind = "none" /\ tlv = <<>> /\ tlv \in Objects
  BY EmptySeq DEF F!Init, F!Nothing, Objects
<1>. QED  BY <1>2, <1>3 DEF F!Init, FileInv, F!TrueOutcome, F!UpdateOutcome, F!ReadOutcome, F!ObjectWhole

\* A READ begins with nothing read ...
LEMMA ReadBinaryStep ==
    ASSUME FileInv, NEW off \in Nat, NEW len \in Nat, F!ReadBinary(off, len)
    PROVE  FileInv'
<1>. DEFINE j == [cmd |-> "read", kind |-> "read", off |-> off, data |-> <<>>, len |-> len,
               pos |-> 0, out |-> <<>>, verify |-> FALSE, before |-> bin]
<1>1. job' = j /\ last' = F!Nothing /\ UNCHANGED <<ef, bin, rec, tlv, part, faults>>
  BY DEF F!ReadBinary
<1>2. <<>> \in Seq(Bytes) /\ FALSE \in Flags /\ bin \in Seq(Bytes) /\ Len(bin) = Size
  BY EmptySeq DEF FileInv, Flags
<1>3. j \in BinJobs
  BY <1>2, Zenon DEF BinJobs
<1>4. SubSeq(bin, off + 1, off + 0) = <<>>
  BY SubSeqEmpty
<1>5. j.cmd = "read" /\ j.kind = "read" /\ j.off = off /\ j.len = len /\ j.pos = 0 /\ j.out = <<>> /\ j.before = bin
  OBVIOUS
<1>. HIDE DEF j
<1>6. BinJob'
  BY <1>1, <1>2, <1>3, <1>4, <1>5 DEF BinJob
<1>. QED  BY <1>1, <1>2, <1>6, BinGoesOn

\* ... an UPDATE with nothing written, with or without a read to compare first.
LEMMA UpdateBinaryStep ==
    ASSUME FileInv, NEW off \in Nat, NEW data \in Seq(Bytes), NEW c \in BOOLEAN, NEW v \in BOOLEAN,
           F!UpdateBinary(off, data, c, v)
    PROVE  FileInv'
<1>. DEFINE k == IF c THEN "compare" ELSE "write"
            j == [cmd |-> "update", kind |-> k, off |-> off, data |-> data, len |-> Len(data),
                  pos |-> 0, out |-> <<>>, verify |-> v, before |-> bin]
<1>1. job' = j /\ last' = F!Nothing /\ UNCHANGED <<ef, bin, rec, tlv, part, faults>>
  BY DEF F!UpdateBinary
<1>2. <<>> \in Seq(Bytes) /\ v \in Flags /\ bin \in Seq(Bytes) /\ Len(bin) = Size /\ k \in {"compare", "write"} /\ Len(data) \in Nat
  BY EmptySeq, LenProperties DEF FileInv, Flags
<1>. HIDE DEF k
<1>3. j \in BinJobs
  <2>1. k \in {"read", "compare", "write", "verify"} /\ "update" \in {"read", "update"} /\ 0 \in Nat
    BY <1>2
  <2>. QED  BY <1>2, <2>1, Zenon DEF BinJobs
<1>4. SubSeq(bin, off + 1, off + 0) = <<>> /\ F!Overlay(bin, off, SubSeq(data, 1, 0)) = bin
  BY <1>2, SubSeqEmpty, Beginnings
<1>5. /\ j.cmd = "update" /\ j.kind = k /\ j.off = off /\ j.len = Len(data) /\ j.pos = 0 /\ j.out = <<>>
      /\ j.before = bin /\ j.data = data
  OBVIOUS
<1>. HIDE DEF j
<1>6. BinJob'
  BY <1>1, <1>2, <1>3, <1>4, <1>5 DEF BinJob
<1>. QED  BY <1>1, <1>2, <1>6, BinGoesOn

\* p octets from a on and the n after them are p + n octets from a on.
Joined(s, a, p, n) ==
    SubSeq(s, a + 1, a + p) \o SubSeq(s, a + p + 1, a + p + n) = SubSeq(s, a + 1, a + (p + n))

\* Two parts of a file that follow each other are one part.
LEMMA PartsJoin ==
    ASSUME NEW S, NEW s \in Seq(S), NEW a \in Nat, NEW p \in Nat, NEW n \in Nat, a + p + n <= Len(s)
    PROVE  Joined(s, a, p, n)
<1>. DEFINE x == SubSeq(s, a + 1, a + p)
            y == SubSeq(s, a + p + 1, a + p + n)
            z == SubSeq(s, a + 1, a + (p + n))
<1>0. a + p \in Nat /\ a + p + n \in Nat /\ a + (p + n) \in Nat /\ Len(s) \in Nat
  BY LenProperties
<1>1. x \in Seq(S) /\ Len(x) = p /\ \A i \in 1..p : x[i] = s[a + i]
  <2>. DEFINE q == a + p
  <2>1. q \in Nat /\ a <= q /\ q <= Len(s) /\ q - a = p
    BY <1>0
  <2>. HIDE DEF q
  <2>2. SubSeq(s, a + 1, q) \in Seq(S) /\ Len(SubSeq(s, a + 1, q)) = q - a /\ \A i \in 1..(q - a) : SubSeq(s, a + 1, q)[i] = s[a + i]
    BY <2>1, SubSeqAt
  <2>. QED  BY <2>1, <2>2 DEF q
<1>2. y \in Seq(S) /\ Len(y) = n /\ \A i \in 1..n : y[i] = s[(a + p) + i]
  <2>. DEFINE m == a + p
              q == a + p + n
  <2>1. m \in Nat /\ q \in Nat /\ m <= q /\ q <= Len(s) /\ q - m = n
    BY <1>0
  <2>. HIDE DEF m, q
  <2>2. SubSeq(s, m + 1, q) \in Seq(S) /\ Len(SubSeq(s, m + 1, q)) = q - m /\ \A i \in 1..(q - m) : SubSeq(s, m + 1, q)[i] = s[m + i]
    BY <2>1, SubSeqAt
  <2>. QED  BY <2>1, <2>2 DEF m, q
<1>3. z \in Seq(S) /\ Len(z) = p + n /\ \A i \in 1..(p + n) : z[i] = s[a + i]
  <2>. DEFINE q == a + (p + n)
  <2>1. q \in Nat /\ a <= q /\ q <= Len(s) /\ q - a = p + n
    BY <1>0
  <2>. HIDE DEF q
  <2>2. SubSeq(s, a + 1, q) \in Seq(S) /\ Len(SubSeq(s, a + 1, q)) = q - a /\ \A i \in 1..(q - a) : SubSeq(s, a + 1, q)[i] = s[a + i]
    BY <2>1, SubSeqAt
  <2>. QED  BY <2>1, <2>2 DEF q
<1>. HIDE DEF x, y, z
<1>4. Len(x) = p /\ Len(y) = n /\ Len(z) = p + n
  BY <1>1, <1>2, <1>3
<1>5. /\ x \o y \in Seq(S) /\ Len(x \o y) = p + n
      /\ \A i \in 1..(p + n) : (x \o y)[i] = IF i <= p THEN x[i] ELSE y[i - p]
  <2>1. x \in Seq(S) /\ y \in Seq(S)
    BY <1>1, <1>2
  <2>2. /\ x \o y \in Seq(S) /\ Len(x \o y) = Len(x) + Len(y)
        /\ \A i \in 1..(Len(x) + Len(y)) : (x \o y)[i] = IF i <= Len(x) THEN x[i] ELSE y[i - Len(x)]
    BY <2>1, ConcatProperties
  <2>. QED  BY <1>4, <2>2
<1>6. ASSUME NEW i \in 1..(p + n) PROVE (x \o y)[i] = z[i]
  <2>1. z[i] = s[a + i]
    BY <1>3
  <2>2. CASE i <= p
    BY <1>1, <1>5, <2>1, <2>2
  <2>3. CASE i > p
    <3>1. i - p \in 1..n /\ (a + p) + (i - p) = a + i
      BY <2>3
    <3>2. y[i - p] = s[(a + p) + (i - p)]
      BY <1>2, <3>1
    <3>. QED  BY <1>5, <2>1, <2>3, <3>1, <3>2
  <2>4. i <= p \/ i > p
    OBVIOUS
  <2>. QED  BY <2>2, <2>3, <2>4, Zenon
<1>7. x \o y = z
  BY <1>3, <1>4, <1>5, <1>6, SeqEqual
<1>. QED  BY <1>7, Zenon DEF Joined, x, y, z

\* The kind of a step tells the command.
LEMMA WhichJob ==
    ASSUME FileInv
    PROVE  /\ job.kind \in {"read", "compare", "verify", "write"} => BinJob
           /\ job.kind = "set" => SetJob
           /\ job.kind \in {"compareRecord", "writeRecord", "verifyRecord"} => RecJob
           /\ job.kind = "delete" => DelJob
           /\ job.kind = "none" => job = F!NoJob
<1>1. BinJob => job.kind \in {"read", "compare", "verify", "write"}
  BY DEF BinJob, BinJobs
<1>2. SetJob => job.kind = "set"
  BY DEF SetJob, SetJobs
<1>3. RecJob => job.kind \in {"compareRecord", "writeRecord", "verifyRecord"}
  BY DEF RecJob, RecordJob
<1>4. DelJob => job.kind = "delete"
  BY DEF DelJob
<1>5. job = F!NoJob => job.kind = "none"
  BY DEF F!NoJob
<1>. QED  BY <1>1, <1>2, <1>3, <1>4, <1>5 DEF FileInv

\* What a command on the transparent EF is known to be.
LEMMA BinFacts ==
    ASSUME FileInv, BinJob
    PROVE  /\ job \in BinJobs /\ job.off \in Nat /\ job.pos \in Nat /\ job.len \in Nat /\ job.pos <= job.len
           /\ job.data \in Seq(Bytes) /\ job.before \in Seq(Bytes) /\ Len(job.before) = Size /\ Size \in Nat
           /\ bin \in Seq(Bytes) /\ Len(bin) = Size
           /\ job.cmd \in {"read", "update"} /\ job.out \in Seq(Bytes)
BY FilesAssumption DEF FileInv, BinJob, BinJobs

\* update_binary goes on from comparing to writing, or from writing to verifying,
\* at the first octet.
LEMMA RestartStep ==
    ASSUME FileInv, BinJob, job.cmd = "update", UNCHANGED <<bin, tlv, last>>,
           NEW k \in {"write", "verify"}, job' = F!Restart(k),
           bin = F!Overlay(job.before, job.off, IF k = "write" THEN SubSeq(job.data, 1, 0) ELSE job.data)
    PROVE  FileInv'
<1>1. <<>> \in Seq(Bytes) /\ 0 \in Nat
  BY EmptySeq
<1>2. job' = [job EXCEPT !.kind = k, !.pos = 0, !.out = <<>>]
  BY DEF F!Restart
<1>3. job' \in BinJobs /\ job'.kind = k /\ job'.pos = 0
  BY <1>1, <1>2, BinFacts DEF BinJobs
<1>4. /\ job'.cmd = job.cmd /\ job'.off = job.off /\ job'.data = job.data /\ job'.len = job.len
      /\ job'.before = job.before
  BY <1>2, BinFacts DEF BinJobs
<1>5. BinJob'
  BY <1>3, <1>4, BinFacts DEF BinJob
<1>. QED  BY <1>5, BinFacts, BinGoesOn

\* A chunk that cannot be read: while comparing the update goes on to write,
\* otherwise the command raises.
LEMMA ReadFailsStep ==
    ASSUME FileInv, BinJob, F!Reading, F!ReadFails, UNCHANGED <<bin, tlv>>
    PROVE  FileInv'
<1>1. CASE job.kind = "compare"
  <2>1. job.cmd = "update" /\ bin = job.before
    BY <1>1, BinFacts DEF BinJob
  <2>2. bin = F!Overlay(job.before, job.off, SubSeq(job.data, 1, 0))
    BY <2>1, BinFacts, Beginnings
  <2>3. job' = F!Restart("write") /\ UNCHANGED last
    BY <1>1 DEF F!ReadFails
  <2>. QED  BY <2>1, <2>2, <2>3, RestartStep
<1>2. CASE job.kind = "read"
  <2>1. F!End(job, FALSE, <<>>) /\ job.cmd = "read"
    BY <1>2, BinFacts DEF F!ReadFails, BinJob
  <2>. QED  BY <2>1, ReadEnds
<1>3. CASE job.kind = "verify"
  <2>1. F!End(job, FALSE, <<>>) /\ job.cmd = "update"
    BY <1>3, BinFacts DEF F!ReadFails, BinJob
  <2>2. Len(job.data) \in Nat /\ SubSeq(job.data, 1, Len(job.data)) = job.data
    BY BinFacts, Beginnings
  <2>3. bin = F!Overlay(job.before, job.off, SubSeq(job.data, 1, Len(job.data))) /\ Len(job.data) \in 0..Len(job.data)
    <3>1. bin = F!Overlay(job.before, job.off, job.data)
      BY <1>3 DEF BinJob
    <3>2. Len(job.data) \in 0..Len(job.data)
      BY <2>2
    <3>. QED  BY <2>2, <3>1, <3>2, Zenon
  <2>. QED  BY <2>1, <2>3, UpdateEnds
<1>. QED  BY <1>1, <1>2, <1>3 DEF F!Reading

\* A chunk ends inside the data, and takes the command further.
LEMMA ChunkBounds ==
    ASSUME FileInv, BinJob \/ SetJob
    PROVE  /\ F!ChunkLen \in Nat /\ job.pos \in Nat /\ job.len \in Nat /\ job.pos + F!ChunkLen <= job.len
           /\ job.pos < job.len => F!ChunkLen > 0
BY FilesAssumption DEF F!ChunkLen, F!Smaller, BinJob, SetJob, BinJobs, SetJobs

\* The next chunk is read ...
LEMMA ReadChunkStep == ASSUME FileInv, F!ReadChunk PROVE FileInv'
<1>0. F!Reading /\ BinJob /\ UNCHANGED <<ef, bin, rec, tlv, part, faults>>
  BY WhichJob DEF F!ReadChunk, F!Reading
<1>1. CASE ~F!InRange
  BY <1>0, <1>1, ReadFailsStep DEF F!ReadChunk
<1>2. CASE F!InRange
  <2>. DEFINE a == job.off + job.pos
              q == job.pos + F!ChunkLen
              o == job.out \o SubSeq(bin, a + 1, a + F!ChunkLen)
  <2>1. job' = [job EXCEPT !.pos = q, !.out = o] /\ UNCHANGED last
    BY <1>2 DEF F!ReadChunk
  <2>2. q \in Nat /\ q <= job.len /\ job.off + q <= Size /\ a \in Nat /\ F!ChunkLen \in Nat /\ a + F!ChunkLen = job.off + q
    BY <1>0, <1>2, ChunkBounds, BinFacts DEF F!InRange
  <2>3. SubSeq(bin, a + 1, a + F!ChunkLen) \in Seq(Bytes)
    BY <1>0, <2>2, BinFacts, SubSeqAt
  <2>4. o \in Seq(Bytes)
    BY <1>0, <2>3, BinFacts, ConcatProperties
  <2>5. job.kind \in {"read", "compare"} => o = SubSeq(bin, job.off + 1, job.off + q)
    <3>1. SUFFICES ASSUME job.kind \in {"read", "compare"} PROVE o = SubSeq(bin, job.off + 1, job.off + q)
      OBVIOUS
    <3>2. job.out = SubSeq(bin, job.off + 1, job.off + job.pos)
      BY <1>0, <3>1 DEF BinJob
    <3>3. bin \in Seq(Bytes) /\ job.off \in Nat /\ job.pos \in Nat /\ job.off + job.pos + F!ChunkLen <= Len(bin)
      BY <1>0, <2>2, BinFacts
    <3>4. Joined(bin, job.off, job.pos, F!ChunkLen)
      BY <2>2, <3>3, PartsJoin
    <3>. QED  BY <3>2, <3>4, Zenon DEF Joined
  <2>. HIDE DEF o, q
  <2>6. job' \in BinJobs /\ job'.pos = q /\ job'.out = o
    BY <1>0, <2>1, <2>2, <2>4, BinFacts DEF BinJobs
  <2>7. /\ job'.cmd = job.cmd /\ job'.off = job.off /\ job'.data = job.data /\ job'.len = job.len
        /\ job'.before = job.before /\ job'.kind = job.kind
    BY <1>0, <2>1, BinFacts DEF BinJobs
  <2>8. BinJob'
    BY <1>0, <2>1, <2>2, <2>5, <2>6, <2>7 DEF BinJob, F!Reading
  <2>. QED  BY <1>0, <2>8, BinFacts, BinGoesOn
<1>. QED  BY <1>1, <1>2

\* ... and the last one was.
LEMMA ReadDoneStep == ASSUME FileInv, F!ReadDone PROVE FileInv'
<1>0. F!Reading /\ BinJob /\ job.pos >= job.len /\ UNCHANGED <<ef, bin, rec, tlv, part, faults>>
  BY WhichJob DEF F!ReadDone, F!Reading
<1>1. job.pos = job.len
  BY <1>0, BinFacts
<1>2. CASE job.len = 0
  <2>1. F!ReadFails
    BY <1>2 DEF F!ReadDone
  <2>. QED  BY <1>0, <2>1, ReadFailsStep
<1>3. CASE job.len > 0 /\ job.kind = "read"
  <2>1. F!End(job, TRUE, job.out)
    <3>1. job.len # 0
      BY <1>3
    <3>. QED  BY <1>3, <3>1, Zenon DEF F!ReadDone
  <2>2. job.cmd = "read" /\ job.out = SubSeq(job.before, job.off + 1, job.off + job.pos) /\ job.off + job.pos <= Size
    BY <1>0, <1>1, <1>3, BinFacts DEF BinJob
  <2>3. Len(job.out) = job.pos
    <3>1. job.off + job.pos \in Nat /\ job.off <= job.off + job.pos /\ (job.off + job.pos) - job.off = job.pos
      BY <1>0, BinFacts
    <3>. QED  BY <1>0, <2>2, <3>1, BinFacts, SubSeqAt
  <2>. QED  BY <1>0, <2>1, <2>2, <2>3, ReadEnds
<1>4. CASE job.len > 0 /\ job.kind = "verify"
  <2>1. F!End(job, job.out = job.data, <<>>) /\ job.cmd = "update"
    <3>1. job.len # 0 /\ job.kind # "read" /\ job.cmd = "update"
      BY <1>0, <1>4, BinFacts DEF BinJob
    <3>. QED  BY <1>4, <3>1, Zenon DEF F!ReadDone
  <2>2. Len(job.data) \in Nat /\ SubSeq(job.data, 1, Len(job.data)) = job.data
    BY <1>0, BinFacts, Beginnings
  <2>3. bin = F!Overlay(job.before, job.off, SubSeq(job.data, 1, Len(job.data))) /\ Len(job.data) \in 0..Len(job.data)
    <3>1. bin = F!Overlay(job.before, job.off, job.data)
      BY <1>0, <1>4 DEF BinJob
    <3>2. Len(job.data) \in 0..Len(job.data)
      BY <2>2
    <3>. QED  BY <2>2, <3>1, <3>2, Zenon
  <2>. QED  BY <1>0, <2>1, <2>3, UpdateEnds
<1>5. CASE job.len > 0 /\ job.kind = "compare"
  <2>1. IF job.out = job.data THEN F!End(job, TRUE, <<>>) ELSE job' = F!Restart("write") /\ UNCHANGED last
    <3>1. job.len # 0 /\ job.kind # "read" /\ job.kind # "verify"
      BY <1>5
    <3>. QED  BY <1>5, <3>1, Zenon DEF F!ReadDone
  <2>2. /\ job.cmd = "update" /\ bin = job.before /\ job.out = SubSeq(bin, job.off + 1, job.off + job.pos)
        /\ job.off + job.pos <= Size /\ job.len = Len(job.data)
    BY <1>0, <1>1, <1>5, BinFacts DEF BinJob
  <2>3. CASE job.out = job.data
    <3>1. F!Overlay(bin, job.off, job.data) = bin
      <4>1. job.off + Len(job.data) <= Len(bin) /\ SubSeq(bin, job.off + 1, job.off + Len(job.data)) = job.data
        BY <1>0, <1>1, <2>2, <2>3, BinFacts
      <4>2. bin \in Seq(Bytes) /\ job.data \in Seq(Bytes) /\ job.off \in Nat
        BY <1>0, BinFacts
      <4>. QED  BY <4>1, <4>2, OverlaySame
    <3>2. Len(job.data) \in Nat /\ SubSeq(job.data, 1, Len(job.data)) = job.data
      BY <1>0, BinFacts, Beginnings
    <3>3. F!End(job, TRUE, <<>>)
      BY <2>1, <2>3
    <3>4. bin' = F!Overlay(job.before, job.off, SubSeq(job.data, 1, Len(job.data))) /\ Len(job.data) \in 0..Len(job.data)
      <4>1. Len(job.data) \in 0..Len(job.data) /\ bin' = bin
        BY <1>0, <3>2
      <4>. QED  BY <2>2, <3>1, <3>2, <4>1, Zenon
    <3>. QED  BY <1>0, <2>2, <3>3, <3>4, UpdateEnds
  <2>4. CASE job.out # job.data
    <3>1. bin = F!Overlay(job.before, job.off, SubSeq(job.data, 1, 0))
      BY <1>0, <2>2, BinFacts, Beginnings
    <3>. QED  BY <1>0, <2>1, <2>2, <2>4, <3>1, RestartStep
  <2>. QED  BY <2>3, <2>4
<1>. QED  BY <1>0, <1>2, <1>3, <1>4, <1>5, BinFacts DEF F!Reading

\* An update that raises leaves a beginning of its data.
LEMMA WriteFails ==
    ASSUME FileInv, BinJob, job.kind = "write", F!End(job, FALSE, <<>>), UNCHANGED <<bin, tlv>>
    PROVE  FileInv'
<1>1. /\ job.cmd = "update" /\ job.len = Len(job.data)
      /\ bin = F!Overlay(job.before, job.off, SubSeq(job.data, 1, job.pos))
  BY BinFacts DEF BinJob
<1>2. job.pos \in 0..Len(job.data)
  BY <1>1, BinFacts
<1>. QED  BY <1>1, <1>2, UpdateEnds

\* What a piece makes of the transparent EF.
LEMMA WrittenPiece ==
    ASSUME FileInv, BinJob, job.kind = "write"
    PROVE  /\ job.cmd = "update" /\ job.len = Len(job.data)
           /\ job.pos + F!ChunkLen \in Nat /\ job.pos + F!ChunkLen <= job.len
           /\ F!Overlay(bin, job.off + job.pos, F!WritePiece)
                = F!Overlay(job.before, job.off, SubSeq(job.data, 1, job.pos + F!ChunkLen))
<1>1. job.cmd = "update" /\ job.len = Len(job.data) /\ bin = F!Overlay(job.before, job.off, SubSeq(job.data, 1, job.pos))
  BY BinFacts DEF BinJob
<1>2. job.pos + F!ChunkLen \in Nat /\ job.pos + F!ChunkLen <= job.len /\ job.pos <= job.pos + F!ChunkLen
  BY ChunkBounds
<1>. DEFINE q == job.pos + F!ChunkLen
<1>. HIDE DEF q
<1>3. Overlaid(job.before, job.off, job.data, job.pos, q)
  <2>1. q \in Nat /\ q <= Len(job.data) /\ job.pos <= q
    BY <1>1, <1>2 DEF q
  <2>. QED  BY <2>1, BinFacts, OverlayMore
<1>4. F!Overlay(bin, job.off + job.pos, SubSeq(job.data, job.pos + 1, q)) = F!Overlay(job.before, job.off, SubSeq(job.data, 1, q))
  BY <1>1, <1>3, Zenon DEF Overlaid
<1>. QED  BY <1>1, <1>2, <1>4, Zenon DEF F!WritePiece, q

\* The next chunk is written, in range, or the command raises ...
LEMMA WriteChunkStep == ASSUME FileInv, F!WriteChunk PROVE FileInv'
<1>0. job.kind = "write" /\ BinJob /\ UNCHANGED <<ef, rec, tlv, part, faults>> /\ job.pos < job.len
  BY WhichJob DEF F!WriteChunk
<1>1. /\ job.cmd = "update" /\ job.len = Len(job.data)
      /\ job.pos + F!ChunkLen \in Nat /\ job.pos + F!ChunkLen <= job.len
      /\ F!Overlay(bin, job.off + job.pos, F!WritePiece)
                = F!Overlay(job.before, job.off, SubSeq(job.data, 1, job.pos + F!ChunkLen))
  BY <1>0, WrittenPiece
<1>. DEFINE q == job.pos + F!ChunkLen
<1>2. CASE F!InRange
  <2>1. bin' = F!Overlay(job.before, job.off, SubSeq(job.data, 1, q)) /\ job' = [job EXCEPT !.pos = q] /\ UNCHANGED last
    BY <1>1, <1>2 DEF F!WriteChunk
  <2>2. q \in Nat /\ q <= job.len /\ job.off + q <= Size
    BY <1>0, <1>1, <1>2, ChunkBounds, BinFacts DEF F!InRange
  <2>. HIDE DEF q
  <2>3. job' \in BinJobs /\ job'.pos = q
    BY <1>0, <2>1, <2>2, BinFacts DEF BinJobs
  <2>4. /\ job'.cmd = job.cmd /\ job'.off = job.off /\ job'.data = job.data /\ job'.len = job.len
        /\ job'.before = job.before /\ job'.kind = job.kind
    BY <1>0, <2>1, BinFacts DEF BinJobs
  <2>5. bin' = F!Overlay(job'.before, job'.off, SubSeq(job'.data, 1, job'.pos))
    BY <2>1, <2>3, <2>4, Zenon
  <2>6. BinJob'
    BY <1>0, <1>1, <2>1, <2>2, <2>3, <2>4, <2>5, BinFacts DEF BinJob
  <2>7. bin' \in Seq(Bytes) /\ Len(bin') = Size
    <3>1. SubSeq(job.data, 1, q) \in Seq(Bytes)
      <4>1. \A i \in 1..q : job.data[i] \in Bytes
        BY <1>0, <1>1, <2>2, BinFacts, ElementOfSeq
      <4>. QED  BY <2>2, <4>1, SubSeqProperties
    <3>. QED  BY <1>0, <2>1, <3>1, BinFacts, OverlayType
  <2>. QED  BY <1>0, <2>6, <2>7, BinGoesOn
<1>3. CASE ~F!InRange
  <2>1. F!End(job, FALSE, <<>>) /\ bin' = bin
    BY <1>3 DEF F!WriteChunk
  <2>. QED  BY <1>0, <1>1, <2>1, WriteFails
<1>. QED  BY <1>2, <1>3

\* ... and the last one was; what was written is read again if asked.
LEMMA WriteDoneStep == ASSUME FileInv, F!WriteDone PROVE FileInv'
<1>0. job.kind = "write" /\ BinJob /\ UNCHANGED <<ef, bin, rec, tlv, part, faults>> /\ job.pos >= job.len
  BY WhichJob DEF F!WriteDone
<1>1. /\ job.cmd = "update" /\ job.len = Len(job.data) /\ job.pos = Len(job.data)
      /\ bin = F!Overlay(job.before, job.off, SubSeq(job.data, 1, job.pos))
  BY <1>0, BinFacts DEF BinJob
<1>2. Len(job.data) \in Nat /\ SubSeq(job.data, 1, Len(job.data)) = job.data
  BY <1>0, BinFacts, Beginnings
<1>3. CASE job.len = 0
  <2>1. F!End(job, FALSE, <<>>)
    BY <1>3 DEF F!WriteDone
  <2>. QED  BY <1>0, <2>1, WriteFails
<1>4. CASE job.len # 0 /\ job.verify
  <2>1. job' = F!Restart("verify") /\ UNCHANGED last
    BY <1>4 DEF F!WriteDone
  <2>2. bin = F!Overlay(job.before, job.off, job.data)
    BY <1>1, <1>2, Zenon
  <2>. QED  BY <1>0, <1>1, <2>1, <2>2, RestartStep
<1>5. CASE job.len # 0 /\ ~job.verify
  <2>1. F!End(job, TRUE, <<>>)
    BY <1>5 DEF F!WriteDone
  <2>2. bin' = F!Overlay(job.before, job.off, SubSeq(job.data, 1, Len(job.data))) /\ Len(job.data) \in 0..Len(job.data)
    <3>1. Len(job.data) \in 0..Len(job.data) /\ bin' = bin
      BY <1>0, <1>2
    <3>. QED  BY <1>1, <3>1, Zenon
  <2>. QED  BY <1>0, <1>1, <2>1, <2>2, UpdateEnds
<1>. QED  BY <1>3, <1>4, <1>5

\* What a piece makes of the object of a BER-TLV EF: nothing until the last one,
\* which puts the whole of the new one in its place.
LEMMA SetsPiece ==
    ASSUME FileInv, SetJob, F!CardSet(F!FirstPiece, F!SetBlock)
    PROVE  /\ job.pos + F!ChunkLen = job.len => tlv' = job.data
           /\ job.pos + F!ChunkLen # job.len =>
                tlv' = tlv /\ part' = [got |-> SubSeq(job.data, 1, job.pos + F!ChunkLen), need |-> job.len]
<1>. DEFINE q == job.pos + F!ChunkLen
            d == job.data
            n == job.len
            g == SubSeq(d, 1, q)
<1>1. d \in Objects /\ Len(d) = n /\ n = d[1] + 1 /\ job.pos < n /\ n \in Nat /\ job.pos \in Nat
  BY DEF SetJob, SetJobs
<1>2. q \in Nat /\ q <= n /\ q > 0 /\ job.pos <= q /\ F!ChunkLen \in Nat
  BY <1>1, ChunkBounds
<1>3. g \in Objects /\ Len(g) = q /\ \A i \in 1..q : g[i] = d[i]
  <2>. HIDE DEF q
  <2>1. \A i \in 1..q : d[i] \in Octets \union Nat
    BY <1>1, <1>2, ElementOfSeq DEF Objects
  <2>2. /\ SubSeq(d, 1, q) \in Seq(Octets \union Nat) /\ Len(SubSeq(d, 1, q)) = (IF 1 <= q THEN q - 1 + 1 ELSE 0)
        /\ \A i \in 1..(q - 1 + 1) : SubSeq(d, 1, q)[i] = d[1 + i - 1]
    BY <1>2, <2>1, SubSeqProperties
  <2>. QED  BY <1>2, <2>2 DEF Objects
<1>. DEFINE p == IF F!FirstPiece THEN [got |-> F!SetBlock, need |-> F!SetBlock[1] + 1]
                 ELSE [part EXCEPT !.got = @ \o F!SetBlock]
<1>4. p = [got |-> g, need |-> n]
  <2>1. CASE job.pos = 0
    <3>1. job.pos + 1 = 1
      BY <2>1
    <3>2. F!SetBlock = g
      BY <3>1, Zenon DEF F!SetBlock
    <3>3. g[1] + 1 = n
      BY <1>1, <1>2, <1>3
    <3>4. p = [got |-> F!SetBlock, need |-> F!SetBlock[1] + 1]
      BY <2>1 DEF F!FirstPiece
    <3>. HIDE DEF p, g, n
    <3>. QED  BY <3>2, <3>3, <3>4
  <2>2. CASE job.pos # 0
    <3>1. part = [got |-> SubSeq(d, 1, job.pos), need |-> n]
      BY <1>1, <2>2 DEF SetJob
    <3>2. Joined(d, 0, job.pos, F!ChunkLen)
      <4>1. d \in Seq(Octets \union Nat) /\ 0 + job.pos + F!ChunkLen <= Len(d)
        BY <1>1, <1>2 DEF Objects
      <4>. QED  BY <1>1, <1>2, <4>1, PartsJoin
    <3>3. 0 + 1 = 1 /\ 0 + job.pos = job.pos /\ 0 + (job.pos + F!ChunkLen) = job.pos + F!ChunkLen
      BY <1>1, <1>2
    <3>4. SubSeq(d, 1, job.pos) \o SubSeq(d, job.pos + 1, job.pos + F!ChunkLen) = SubSeq(d, 1, job.pos + F!ChunkLen)
      BY <3>2, <3>3, Zenon DEF Joined
    <3>5. part.got \o F!SetBlock = g
      BY <3>1, <3>4 DEF F!SetBlock
    <3>6. p = [part EXCEPT !.got = part.got \o F!SetBlock]
      BY <2>2 DEF F!FirstPiece
    <3>. HIDE DEF p, g, n
    <3>. QED  BY <3>1, <3>5, <3>6
  <2>. QED  BY <2>1, <2>2
<1>5. IF Len(p.got) >= p.need THEN tlv' = SubSeq(p.got, 1, p.need) /\ part' = F!NoPart
      ELSE part' = p /\ UNCHANGED tlv
  BY Zenon DEF F!CardSet
<1>. HIDE DEF p
<1>6. p.got = g /\ p.need = n
  BY <1>4
<1>7. CASE q = n
  <2>1. SubSeq(g, 1, n) = d
    <3>1. g = SubSeq(d, 1, Len(d)) /\ SubSeq(d, 1, Len(d)) = d
      BY <1>1, <1>7, SubSeqFull DEF Objects
    <3>2. g = d
      BY <3>1, Zenon
    <3>. HIDE DEF g
    <3>. QED  BY <1>1, <3>1, <3>2
  <2>2. Len(p.got) >= p.need
    BY <1>2, <1>3, <1>6, <1>7
  <2>3. tlv' = d
    BY <1>5, <1>6, <2>1, <2>2, Zenon
  <2>. QED  BY <1>7, <2>3
<1>8. CASE q # n
  <2>1. ~(Len(p.got) >= p.need)
    BY <1>1, <1>2, <1>3, <1>6, <1>8
  <2>2. part' = p /\ tlv' = tlv
    BY <1>5, <2>1
  <2>. QED  BY <1>4, <1>8, <2>2
<1>. QED  BY <1>7, <1>8

\* A SET DATA that ends.
LEMMA SetEnds ==
    ASSUME FileInv, SetJob, NEW ok, F!End(job, ok, <<>>), UNCHANGED bin,
           tlv' = job.data \/ (~ok /\ tlv' = tlv)
    PROVE  FileInv'
<1>1. /\ job' = F!NoJob /\ last'.kind = "set" /\ last'.data = job.data /\ last'.before = job.before
  BY DEF F!End, SetJob, SetJobs
<1>2. last'.ok => ok
  BY DEF F!End
<1>3. tlv' = job.data \/ (~last'.ok /\ tlv' = job.before)
  BY <1>2 DEF SetJob
<1>4. tlv' \in Objects
  BY DEF SetJob, SetJobs, FileInv
<1>5. tlv' # <<>> => Len(tlv') = tlv'[1] + 1
  BY DEF SetJob, FileInv, F!ObjectWhole
<1>6. F!TrueOutcome' /\ F!ObjectWhole'
  BY <1>1, <1>3, <1>5 DEF F!TrueOutcome, F!UpdateOutcome, F!ReadOutcome, F!ObjectWhole
<1>. QED  BY <1>1, <1>4, <1>6 DEF FileInv

\* The next piece of an object: the card has the pieces of this one only, and
\* stores it with the last.
LEMMA SetPieceStep == ASSUME FileInv, F!SetPiece PROVE FileInv'
<1>0. SetJob /\ F!CardSet(F!FirstPiece, F!SetBlock) /\ UNCHANGED <<ef, bin, rec, faults>>
  BY WhichJob DEF F!SetPiece
<1>. DEFINE q == job.pos + F!ChunkLen
<1>1. CASE q = job.len
  <2>1. F!End(job, TRUE, <<>>)
    BY <1>1 DEF F!SetPiece
  <2>. QED  BY <1>0, <1>1, <2>1, SetsPiece, SetEnds
<1>2. CASE q # job.len
  <2>1. job' = [job EXCEPT !.pos = q] /\ UNCHANGED last
    BY <1>2 DEF F!SetPiece
  <2>2. tlv' = tlv /\ part' = [got |-> SubSeq(job.data, 1, q), need |-> job.len]
    BY <1>0, <1>2, SetsPiece
  <2>3. q \in Nat /\ q < job.len
    BY <1>0, <1>2, ChunkBounds
  <2>. HIDE DEF q
  <2>4. job' \in SetJobs /\ job'.pos = q /\ job'.data = job.data /\ job'.len = job.len /\ job'.before = job.before
    BY <1>0, <2>1, <2>3 DEF SetJob, SetJobs
  <2>5. SetJob'
    BY <1>0, <2>1, <2>2, <2>3, <2>4 DEF SetJob
  <2>6. last' = F!Nothing
    BY <2>5 DEF SetJob
  <2>. QED  BY <1>0, <2>2, <2>5, <2>6, NothingSaid DEF FileInv
<1>. QED  BY <1>1, <1>2

\* An object is deleted, or the SET DATA that deletes it is lost.
LEMMA DeleteEnds ==
    ASSUME FileInv, DelJob, NEW ok, F!End(job, ok, <<>>), UNCHANGED bin,
           tlv' = <<>> \/ (~ok /\ tlv' = tlv)
    PROVE  FileInv'
<1>1. /\ job' = F!NoJob /\ last'.kind = "set" /\ last'.data = <<>> /\ last'.before = tlv
  BY DEF F!End, DelJob
<1>2. last'.ok => ok
  BY DEF F!End
<1>3. tlv' \in Objects /\ (tlv' # <<>> => Len(tlv') = tlv'[1] + 1)
  BY EmptySeq DEF Objects, FileInv, F!ObjectWhole
<1>4. F!TrueOutcome' /\ F!ObjectWhole'
  BY <1>1, <1>2, <1>3 DEF F!TrueOutcome, F!UpdateOutcome, F!ReadOutcome, F!ObjectWhole
<1>. QED  BY <1>1, <1>3, <1>4 DEF FileInv

\* set_data begins, and its first piece makes the card forget another's.
LEMMA SetDataStep ==
    ASSUME FileInv, NEW value \in Seq(Octets), F!SetData(value)
    PROVE  FileInv'
<1>0. last' = F!Nothing /\ UNCHANGED <<ef, bin, rec, tlv, part, faults>>
  BY DEF F!SetData
<1>1. CASE value = <<>>
  <2>1. DelJob'
    BY <1>0, <1>1 DEF F!SetData, DelJob
  <2>. QED  BY <1>0, <2>1, NothingSaid DEF FileInv
<1>2. CASE value # <<>>
  <2>. DEFINE d == F!TlvOf(value)
              n == Len(value) + 1
              j == [cmd |-> "set", kind |-> "set", off |-> 0, data |-> d, pos |-> 0, len |-> n, before |-> tlv]
  <2>1. job' = j /\ last' = F!Nothing /\ UNCHANGED <<tlv, part>>
    BY <1>0, <1>2 DEF F!SetData
  <2>2. d \in Objects /\ Len(d) = n /\ d[1] = Len(value) /\ Len(value) \in Nat
    <3>1. Len(value) \in Nat /\ value \in Seq(Octets \union Nat)
      BY LenProperties, SeqMonotonic
    <3>. DEFINE h == <<Len(value)>>
    <3>2. h \in Seq(Octets \union Nat) /\ Len(h) = 1 /\ h[1] = Len(value)
      BY <3>1
    <3>. HIDE DEF h
    <3>3. h \o value \in Seq(Octets \union Nat) /\ Len(h \o value) = 1 + Len(value) /\ (h \o value)[1] = h[1]
      <4>1. /\ h \o value \in Seq(Octets \union Nat) /\ Len(h \o value) = Len(h) + Len(value)
            /\ \A i \in 1..(Len(h) + Len(value)) : (h \o value)[i] = IF i <= Len(h) THEN h[i] ELSE value[i - Len(h)]
        BY <3>1, <3>2, ConcatProperties
      <4>2. 1 \in 1..(Len(h) + Len(value))
        BY <3>1, <3>2
      <4>. QED  BY <3>2, <4>1, <4>2
    <3>4. d = h \o value
      BY DEF F!TlvOf, h
    <3>. QED  BY <3>1, <3>2, <3>3, <3>4 DEF Objects
  <2>. HIDE DEF d
  <2>3. n \in Nat /\ 0 < n /\ n = d[1] + 1 /\ tlv \in Objects
    BY <2>2 DEF FileInv
  <2>. HIDE DEF n
  <2>4. j \in SetJobs /\ j.data = d /\ j.pos = 0 /\ j.len = n /\ j.before = tlv
    BY <2>2, <2>3 DEF SetJobs
  <2>. HIDE DEF j
  <2>5. SetJob'
    BY <2>1, <2>2, <2>3, <2>4 DEF SetJob
  <2>. QED  BY <1>0, <2>1, <2>5, NothingSaid DEF FileInv
<1>. QED  BY <1>1, <1>2

\* An update of a record goes on.
LEMMA RecGoesOn == ASSUME FileInv, RecJob', UNCHANGED <<bin, tlv>> PROVE FileInv'
<1>1. last' = F!Nothing
  BY DEF RecJob
<1>. QED  BY <1>1, NothingSaid DEF FileInv

\* An update of a record ends.
LEMMA RecEnds ==
    ASSUME FileInv, NEW j, NEW ok, j.cmd = "record", F!End(j, ok, <<>>), UNCHANGED <<bin, tlv>>,
           rec' \in {j.before, j.data},
           ok => Len(j.data) <= RecLen /\ SubSeq(rec', 1, Len(j.data)) = j.data
    PROVE  FileInv'
<1>1. /\ job' = F!NoJob /\ last'.kind = "record" /\ last'.data = j.data /\ last'.before = j.before
      /\ last'.ok = ok
  BY DEF F!End
<1>2. F!UpdateOutcome'
  BY <1>1 DEF F!UpdateOutcome, F!Stored
<1>3. F!TrueOutcome' /\ F!ObjectWhole'
  BY <1>1, <1>2 DEF F!TrueOutcome, F!ReadOutcome, F!ObjectWhole, FileInv
<1>. QED  BY <1>1, <1>3 DEF FileInv

\* Padded data are as good as data.
LEMMA PadType ==
    ASSUME NEW data \in Seq(Bytes), Len(data) <= RecLen, NEW left
    PROVE  F!Pad(data, left) \in Seq(Bytes)
<1>. DEFINE n == RecLen - Len(data)
            fill == [i \in 1..n |-> 255]
<1>1. n \in Nat
  BY FilesAssumption, LenProperties
<1>. HIDE DEF n
<1>2. fill \in Seq(Bytes)
  <2>1. fill \in [1..n -> Bytes]
    BY DEF Bytes
  <2>. HIDE DEF fill
  <2>. QED  BY <1>1, <2>1, FunctionIsSeq
<1>. HIDE DEF fill
<1>3. fill \o data \in Seq(Bytes) /\ data \o fill \in Seq(Bytes)
  BY <1>2, ConcatProperties
<1>. QED  BY <1>3, Zenon DEF F!Pad, fill, n

\* An update of a record begins, or its data are too long.
LEMMA RecordStep ==
    ASSUME FileInv, NEW data \in Seq(Bytes), NEW left, NEW force, NEW c, NEW v,
           F!UpdateRecord(data, left, force, c, v)
    PROVE  FileInv'
<1>. DEFINE d == IF force \/ Len(data) > RecLen THEN data ELSE F!Pad(data, left)
            k == IF c THEN "compareRecord" ELSE "writeRecord"
            n == Len(d)
            j == RecordJob(k, d, n, v, rec)
<1>1. UNCHANGED <<ef, bin, rec, tlv, part, faults>>
  BY DEF F!UpdateRecord
<1>2. IF ~force /\ Len(data) > RecLen THEN F!End(j, FALSE, <<>>) ELSE job' = j /\ last' = F!Nothing
  BY Zenon DEF F!UpdateRecord, RecordJob
<1>3. d \in Seq(Bytes)
  <2>1. Len(data) \in Nat /\ RecLen \in Nat
    BY LenProperties, FilesAssumption
  <2>2. ~(Len(data) > RecLen) => Len(data) <= RecLen
    BY <2>1
  <2>. QED  BY <2>2, PadType
<1>4. k \in {"compareRecord", "writeRecord"}
  OBVIOUS
<1>. HIDE DEF d, k, n
<1>5. j.cmd = "record" /\ j.before = rec /\ j.data = d
  BY DEF RecordJob
<1>. HIDE DEF j
<1>6. CASE ~force /\ Len(data) > RecLen
  BY <1>1, <1>2, <1>5, <1>6, RecEnds
<1>7. CASE ~(~force /\ Len(data) > RecLen)
  <2>1. job' = RecordJob(k, d, n, v, job'.before) /\ rec' = job'.before /\ last' = F!Nothing
    BY <1>1, <1>2, <1>5, <1>7 DEF j
  <2>2. RecJob'
    BY <1>3, <1>4, <2>1 DEF RecJob
  <2>. QED  BY <1>1, <2>2, RecGoesOn
<1>. QED  BY <1>6, <1>7

\* What is known of an update of a record, before its write and after it.
LEMMA RecFacts ==
    ASSUME RecJob
    PROVE  /\ job.cmd = "record" /\ job.data \in Seq(Bytes) /\ last = F!Nothing
           /\ job.kind \in {"compareRecord", "writeRecord"} => rec = job.before
           /\ job.kind = "verifyRecord" => rec = job.data /\ Len(job.data) = RecLen
           /\ job.kind \in {"compareRecord", "writeRecord", "verifyRecord"}
BY DEF RecJob, RecordJob

\* The next part of it.
LEMMA RecMoves ==
    ASSUME FileInv, RecJob, NEW k \in {"writeRecord", "verifyRecord"}, job' = [job EXCEPT !.kind = k],
           UNCHANGED <<bin, tlv, last>>,
           rec' = IF k = "verifyRecord" THEN job.data ELSE job.before,
           k = "verifyRecord" => Len(job.data) = RecLen
    PROVE  FileInv'
<1>1. PICK k0, d, n, v : d \in Seq(Bytes) /\ job = RecordJob(k0, d, n, v, job.before)
  BY DEF RecJob
<1>2. job' = RecordJob(k, d, n, v, job.before) /\ job.data = d
  BY <1>1 DEF RecordJob
<1>3. job'.before = job.before
  BY <1>2 DEF RecordJob
<1>4. RecJob'
  BY <1>2, <1>3, RecFacts DEF RecJob
<1>. QED  BY <1>4, RecGoesOn

\* The compare: what is there already is not written.
LEMMA CompareRecordStep == ASSUME FileInv, F!CompareRecord PROVE FileInv'
<1>0. RecJob /\ job.kind = "compareRecord" /\ UNCHANGED <<bin, rec, tlv>>
  BY WhichJob DEF F!CompareRecord
<1>1. CASE F!Stored(job.data)
  <2>1. F!End(job, TRUE, <<>>)
    BY <1>1 DEF F!CompareRecord
  <2>. QED  BY <1>0, <1>1, <2>1, RecFacts, RecEnds DEF F!Stored
<1>2. CASE ~F!Stored(job.data)
  <2>1. job' = [job EXCEPT !.kind = "writeRecord"] /\ UNCHANGED last
    BY <1>2 DEF F!CompareRecord
  <2>. QED  BY <1>0, <2>1, RecFacts, RecMoves
<1>. QED  BY <1>1, <1>2

\* A record that is all of the data begins with them.
LEMMA WholeRecord ==
    ASSUME NEW d \in Seq(Bytes), Len(d) = RecLen
    PROVE  Len(d) <= RecLen /\ SubSeq(d, 1, Len(d)) = d
BY FilesAssumption, SubSeqFull

\* The write, which the card refuses for a record of another length.
LEMMA WriteRecordStep == ASSUME FileInv, F!WriteRecord PROVE FileInv'
<1>0. /\ RecJob /\ job.kind = "writeRecord" /\ UNCHANGED <<bin, tlv>> /\ rec = job.before
      /\ rec' = IF Len(job.data) = RecLen THEN job.data ELSE job.before
  BY WhichJob, RecFacts DEF F!WriteRecord, F!Taken
<1>1. CASE Len(job.data) # RecLen
  <2>1. F!End(job, FALSE, <<>>)
    BY <1>1 DEF F!WriteRecord
  <2>. QED  BY <1>0, <1>1, <2>1, RecFacts, RecEnds
<1>2. CASE Len(job.data) = RecLen /\ job.verify
  <2>1. job' = [job EXCEPT !.kind = "verifyRecord"] /\ UNCHANGED last
    BY <1>2 DEF F!WriteRecord
  <2>. QED  BY <1>0, <1>2, <2>1, RecMoves
<1>3. CASE Len(job.data) = RecLen /\ ~job.verify
  <2>1. F!End(job, TRUE, <<>>)
    BY <1>3 DEF F!WriteRecord
  <2>2. Len(job.data) <= RecLen /\ SubSeq(job.data, 1, Len(job.data)) = job.data
    BY <1>0, <1>3, RecFacts, WholeRecord
  <2>3. rec' = job.data
    BY <1>0, <1>3
  <2>. QED  BY <1>0, <2>1, <2>2, <2>3, RecFacts, RecEnds
<1>. QED  BY <1>1, <1>2, <1>3

\* The verify finds what was written.
LEMMA VerifyRecordStep == ASSUME FileInv, F!VerifyRecord PROVE FileInv'
<1>1. /\ RecJob /\ F!End(job, rec = job.data, <<>>) /\ UNCHANGED <<bin, rec, tlv>>
      /\ rec = job.data /\ Len(job.data) = RecLen
  BY WhichJob, RecFacts DEF F!VerifyRecord
<1>2. Len(job.data) <= RecLen /\ SubSeq(job.data, 1, Len(job.data)) = job.data
  BY <1>1, RecFacts, WholeRecord
<1>. QED  BY <1>1, <1>2, RecFacts, RecEnds

\* retrieve_data returns the object that is stored.
LEMMA RetrieveStep == ASSUME FileInv, NEW gone \in BOOLEAN, F!RetrieveData(gone) PROVE FileInv'
<1>1. job.kind = "none" /\ UNCHANGED <<ef, bin, rec, tlv, part, job>>
  BY DEF F!RetrieveData, F!Idle
<1>2. job' = F!NoJob
  BY <1>1, WhichJob
<1>. DEFINE whole == ~gone /\ Len(tlv) <= MaxCmdLen
            o == IF whole THEN tlv ELSE <<>>
<1>3. last' = [kind |-> "retrieve", ok |-> whole, out |-> o, off |-> 0, data |-> <<>>, before |-> tlv]
  BY Zenon DEF F!RetrieveData
<1>4. whole => o = tlv
  OBVIOUS
<1>. HIDE DEF whole, o
<1>5. last'.kind = "retrieve" /\ (last'.ok <=> whole) /\ last'.out = o /\ last'.before = tlv
  BY <1>3
<1>6. F!TrueOutcome' /\ F!ObjectWhole'
  BY <1>1, <1>4, <1>5 DEF F!TrueOutcome, F!UpdateOutcome, F!ReadOutcome, F!ObjectWhole, FileInv
<1>. QED  BY <1>1, <1>2, <1>6 DEF FileInv

\* A reader error before or after the card has carried out the command.
LEMMA LinkErrorStep ==
    ASSUME FileInv, NEW late \in BOOLEAN, F!LinkError(late)
    PROVE  FileInv'
<1>1. CASE F!Reading /\ F!ReadFails /\ UNCHANGED <<bin, part, tlv>>
  BY <1>1, WhichJob, ReadFailsStep DEF F!Reading
<1>2. CASE job.kind = "write" /\ F!End(job, FALSE, <<>>) /\ UNCHANGED <<part, tlv>> /\ bin' = bin
  BY <1>2, WhichJob, WriteFails
<1>3. CASE job.kind = "write" /\ F!End(job, FALSE, <<>>) /\ UNCHANGED <<part, tlv>>
           /\ bin' = F!Overlay(bin, job.off + job.pos, F!WritePiece)
  <2>1. BinJob
    BY <1>3, WhichJob
  <2>2. /\ job.cmd = "update" /\ job.pos + F!ChunkLen \in 0..Len(job.data)
        /\ bin' = F!Overlay(job.before, job.off, SubSeq(job.data, 1, job.pos + F!ChunkLen))
    BY <1>3, <2>1, WrittenPiece, BinFacts, LenProperties
  <2>. QED  BY <1>3, <2>1, <2>2, UpdateEnds
<1>4. CASE job.kind = "set" /\ F!End(job, FALSE, <<>>) /\ UNCHANGED bin /\ UNCHANGED <<part, tlv>>
  BY <1>4, WhichJob, SetEnds
<1>5. CASE job.kind = "set" /\ F!End(job, FALSE, <<>>) /\ UNCHANGED bin /\ F!CardSet(F!FirstPiece, F!SetBlock)
  BY <1>5, WhichJob, SetsPiece, SetEnds
<1>6. CASE /\ job.kind = "compareRecord" /\ job' = [job EXCEPT !.kind = "writeRecord"]
           /\ UNCHANGED <<bin, rec, part, tlv, last>>
  <2>1. RecJob /\ rec = job.before
    BY <1>6, WhichJob, RecFacts
  <2>. QED  BY <1>6, <2>1, RecMoves
<1>7. CASE /\ job.kind \in {"writeRecord", "verifyRecord"} /\ F!End(job, FALSE, <<>>)
           /\ rec' = (IF late /\ job.kind = "writeRecord" THEN F!Taken(job.data) ELSE rec)
           /\ UNCHANGED <<bin, part, tlv>>
  <2>1. RecJob /\ rec \in {job.before, job.data} /\ job.cmd = "record"
    BY <1>7, WhichJob, RecFacts
  <2>2. rec' \in {job.before, job.data}
    BY <1>7, <2>1 DEF F!Taken
  <2>. QED  BY <1>7, <2>1, <2>2, RecEnds
<1>8. CASE job.kind = "delete" /\ F!End(job, FALSE, <<>>) /\ UNCHANGED bin /\ UNCHANGED <<part, tlv>>
  BY <1>8, WhichJob, DeleteEnds
<1>9. CASE job.kind = "delete" /\ F!End(job, FALSE, <<>>) /\ UNCHANGED bin /\ F!CardDelete
  BY <1>9, WhichJob, DeleteEnds DEF F!CardDelete
<1>. QED  BY <1>1, <1>2, <1>3, <1>4, <1>5, <1>6, <1>7, <1>8, <1>9, Zenon DEF F!LinkError

\* Every step keeps it.
LEMMA FileStep == FileInv /\ F!Next => FileInv'
<1>. SUFFICES ASSUME FileInv, F!Next PROVE FileInv'
  OBVIOUS
<1>1. ASSUME NEW off \in 0..Size,
             F!ReadBinary(off, Size - off) \/ \E n \in 0..(Size + 1) : F!ReadBinary(off, n)
      PROVE  FileInv'
  <2>1. off \in Nat /\ Size - off \in Nat /\ \A n \in 0..(Size + 1) : n \in Nat
    BY FilesAssumption
  <2>. QED  BY <1>1, <2>1, ReadBinaryStep
<1>2. ASSUME NEW S, NEW n \in Nat, NEW s \in F!SeqsUpTo(S, n)
      PROVE  s \in Seq(S)
  <2>1. PICK k \in 0..n : s \in [1..k -> S]
    BY <1>2 DEF F!SeqsUpTo
  <2>. QED  BY <2>1, FunctionIsSeq
<1>3. ASSUME NEW off \in 0..Size, NEW data \in F!SeqsUpTo(Octets, MaxData), NEW c \in BOOLEAN, NEW v \in BOOLEAN,
             F!UpdateBinary(off, data, c, v)
      PROVE  FileInv'
  <2>1. data \in Seq(Octets) /\ off \in Nat
    BY <1>2, FilesAssumption
  <2>2. data \in Seq(Bytes)
    <3>1. Octets \subseteq Bytes
      BY DEF Bytes
    <3>. QED  BY <2>1, <3>1, SeqMonotonic
  <2>. QED  BY <1>3, <2>1, <2>2, UpdateBinaryStep
<1>4. ASSUME NEW value \in F!SeqsUpTo(Octets, MaxData), F!SetData(value)
      PROVE  FileInv'
  <2>1. value \in Seq(Octets)
    BY <1>2, FilesAssumption
  <2>. QED  BY <1>4, <2>1, SetDataStep
<1>5. ASSUME NEW data \in F!SeqsUpTo(Octets, RecLen + 1), NEW left \in BOOLEAN, NEW force \in BOOLEAN,
             NEW c \in BOOLEAN, NEW v \in BOOLEAN, F!UpdateRecord(data, left, force, c, v)
      PROVE  FileInv'
  <2>1. data \in Seq(Octets)
    <3>1. RecLen + 1 \in Nat
      BY FilesAssumption
    <3>. QED  BY <1>2, <3>1
  <2>2. data \in Seq(Bytes)
    <3>1. Octets \subseteq Bytes
      BY DEF Bytes
    <3>. QED  BY <2>1, <3>1, SeqMonotonic
  <2>. QED  BY <1>5, <2>2, RecordStep
<1>6. CASE F!DeleteData
  BY <1>6, WhichJob, DeleteEnds DEF F!DeleteData, F!CardDelete
<1>. QED  BY <1>1, <1>3, <1>4, <1>5, <1>6, ReadChunkStep, ReadDoneStep, WriteChunkStep, WriteDoneStep,
            LinkErrorStep, CompareRecordStep, WriteRecordStep, VerifyRecordStep, SetPieceStep,
            RetrieveStep, Zenon DEF F!Next

\* ... so it holds in every state.
LEMMA FileInvariance == Spec => []FileInv
<1>1. Init => FileInv
  BY FileInitial DEF Init
<1>2. FileInv /\ [Next]_vars => FileInv'
  <2>1. FileInv /\ UNCHANGED files => FileInv'
    BY DEF FileInv, files, BinJob, SetJob, RecJob, DelJob, F!TrueOutcome, F!UpdateOutcome, F!ReadOutcome,
           F!ObjectWhole, F!Stored
  <2>. QED  BY <2>1, FileStep DEF Next, vars
<1>. QED  BY <1>1, <1>2, PTL DEF Spec

\* For files, data and command lengths of any size: an update that returns wrote
\* all of its data and nothing else, one that raises a beginning of it, of a record
\* all or nothing, and what is read is what is there, with the read before, the one
\* after and a reader error at any of them (SimCardCommands.update_binary,
\* update_record, read_binary).
THEOREM OutcomesAreTrue == Spec => []TrueOutcome
<1>1. FileInv => TrueOutcome
  BY DEF FileInv, TrueOutcome
<1>. QED  BY <1>1, FileInvariance, PTL

\* The stored object is the one before or the new one, never pieces of two, for
\* any number of pieces and wherever a reader error comes (set_data).
THEOREM ObjectsStayWhole == Spec => []ObjectWhole
<1>1. FileInv => ObjectWhole
  BY DEF FileInv, ObjectWhole
<1>. QED  BY <1>1, FileInvariance, PTL

-----------------------------------------------------------------------------
(* The stack of cards. *)

\* All that may be given.
Things == P!Params \union P!Options

\* A step of a program(): what it writes, what it is there for, what it uses, and
\* whether its status word is checked.
ProgramSteps == [w : SUBSET P!Fields, when : SUBSET SUBSET Things, uses : SUBSET SUBSET Things, checked : Flags]

\* All that is written with checked commands is v's ...
WrittenFor(c, v) == \A f \in P!Written(ctype) : holds[c][f] = v

\* ... or is still to come.
ToCome(f) == \E i \in DOMAIN todo : todo[i].checked /\ P!Has(todo[i].when) /\ f \in todo[i].w

\* Whose parameters the card in the reader was written with, its number counted.
Whose == IF source = "csv" THEN reader ELSE num - 1

\* A record of v is there, if one is asked for.
Recorded(v) == v # None /\ ("csv" \in given => v \in csv)

\* The numbers given out do not come again.
Once == source = "cmdline" /\ ("state" \in given \/ deaths = 0)

\* Types, and that the card in the reader is not in the good bin yet.
StackType ==
    /\ ctype \in Types
    /\ num \in Nat /\ deaths \in Nat
    /\ source \in {"cmdline", "csv"}
    /\ pc \in {"get", "erase", "params", "program", "record", "save", "done", "error", "dead"}
    /\ todo \in Seq(ProgramSteps)
    /\ good \subseteq Cards
    /\ pc # "get" => reader \in Cards /\ reader \notin good
    /\ holds = [c \in Cards |-> holds[c]]
    /\ pc = "get" => reader = None
    /\ \A c \in Cards : DOMAIN holds[c] = P!Fields

\* What a card of the good bin holds: the parameters of its row, or of a number
\* below those to come.
GoodCard(c) ==
    \E v \in Nat \union Cards :
       /\ Recorded(v) /\ WrittenFor(c, v)
       /\ source = "csv" => v = c
       /\ Once => v \in Nat /\ v < num /\ (pc = "done" => v < num - 1)

\* What makes both properties inductive: while a card is programmed, every field
\* the program() writes is there or to come; when it is recorded all are there;
\* the number of the card in the reader is above those of the good bin; and a
\* card that counted its number has left a state file, if there is to be one, so
\* that no run begins again below it.
StackInv ==
    /\ StackType
    /\ pc = "program" => \A f \in P!Written(ctype) : holds[reader][f] = P!Value \/ ToCome(f)
    /\ pc \in {"record", "save"} => WrittenFor(reader, P!Value)
    /\ pc = "save" => Recorded(P!Value)
    /\ pc = "done" => WrittenFor(reader, Whose) /\ Recorded(Whose) /\ num > 0
    /\ "state" \in given /\ (good # {} \/ pc = "done") => state # None
    /\ pc = "dead" => deaths > 0
    /\ \A c \in good : GoodCard(c)
    /\ Once /\ "imsi" \in P!Written(ctype) =>
         \A c, d \in good : c # d => holds[c]["imsi"] # holds[d]["imsi"]

\* A program() is a sequence of steps.
IsProgram(s) == s \in Seq(ProgramSteps)

\* The ways a step is written down give steps.
LEMMA AreSteps ==
    ASSUME NEW w \in SUBSET P!Fields, NEW ps \in SUBSET Things
    PROVE  /\ P!Do(w) \in ProgramSteps /\ P!Uses(ps) \in ProgramSteps /\ P!When(ps, w) \in ProgramSteps
           /\ P!Step(w, P!Always, {ps}, FALSE) \in ProgramSteps /\ P!Step(w, P!Always, P!Always, FALSE) \in ProgramSteps
<1>1. ASSUME NEW x \in SUBSET P!Fields, NEW when \in SUBSET SUBSET Things, NEW uses \in SUBSET SUBSET Things, NEW b \in Flags
      PROVE  P!Step(x, when, uses, b) \in ProgramSteps
  BY Zenon DEF ProgramSteps, P!Step
<1>2. TRUE \in Flags /\ FALSE \in Flags /\ {} \in SUBSET P!Fields
  BY DEF Flags
<1>3. P!Always \in SUBSET SUBSET Things /\ {ps} \in SUBSET SUBSET Things /\ {w \intersect P!Params} \in SUBSET SUBSET Things
  BY DEF P!Always, Things
<1>. QED  BY <1>1, <1>2, <1>3, Zenon DEF P!Do, P!Uses, P!When

\* EF.AD has two parameters to be there for, and so has its copy.
LEMMA AdIsStep ==
    /\ P!Ad \in ProgramSteps
    /\ P!Step({"usim ad"}, {{"usim"}}, {{"plmn"}, {"opmode"}}, TRUE) \in ProgramSteps
<1>1. /\ {{"plmn"}, {"opmode"}} \in SUBSET SUBSET Things /\ {{"usim"}} \in SUBSET SUBSET Things
      /\ {"ad"} \in SUBSET P!Fields /\ {"usim ad"} \in SUBSET P!Fields
  BY DEF Things, P!Params, P!Options, P!Fields
<1>2. P!Always \in SUBSET SUBSET Things /\ TRUE \in Flags
  BY DEF P!Always, Flags
<1>. QED  BY <1>1, <1>2, Zenon DEF ProgramSteps, P!Ad, P!Step

\* Steps one after the other are a sequence of steps.
LEMMA Steps ==
    /\ \A a, b, c, d, e, f \in ProgramSteps : <<a, b, c, d, e, f>> \in Seq(ProgramSteps)
    /\ \A a, b, c, d, e, f, g \in ProgramSteps : <<a, b, c, d, e, f, g>> \in Seq(ProgramSteps)
    /\ \A a, b, c, d, e, f, g, h \in ProgramSteps : <<a, b, c, d, e, f, g, h>> \in Seq(ProgramSteps)
    /\ \A a, b, c, d, e, f, g, h, i, j \in ProgramSteps : <<a, b, c, d, e, f, g, h, i, j>> \in Seq(ProgramSteps)
    /\ \A a, b, c, d, e, f, g, h, i, j, k \in ProgramSteps : <<a, b, c, d, e, f, g, h, i, j, k>> \in Seq(ProgramSteps)
  OBVIOUS

\* What is written down in program() ...
LEMMA ProgramsAre ==
    /\ IsProgram(P!MagicSimBase) /\ IsProgram(P!FakeMagicSim) /\ IsProgram(P!GrcardSim)
    /\ IsProgram(P!SysmoUSIMgr1) /\ IsProgram(P!SysmoSIMgr2) /\ IsProgram(P!SysmoUSIMSJS1)
    /\ IsProgram(P!FairwavesSIM) /\ IsProgram(P!OpenCellsSim) /\ IsProgram(P!WavemobileSim)
    /\ IsProgram(P!SysmoISIMSJA2) /\ IsProgram(P!GialerSim) /\ IsProgram(P!SysmoISIMSJA2Apps)
<1>1. /\ P!Do({"name"}) \in ProgramSteps
      /\ P!Do({"iccid", "imsi", "ki", "plmn"} \union ({"acc"} \intersect given)) \in ProgramSteps
      /\ P!Do({"plmn"}) \in ProgramSteps /\ P!Do({"name", "iccid", "imsi", "ki", "smsp"}) \in ProgramSteps
      /\ P!Do({"iccid"}) \in ProgramSteps /\ P!Do({"imsi"}) \in ProgramSteps
      /\ P!Do({"ki", "opc", "iccid", "imsi"}) \in ProgramSteps
      /\ P!Do({"kialg"}) \in ProgramSteps /\ P!Do({"ki"}) \in ProgramSteps /\ P!Do({"opc"}) \in ProgramSteps
  BY AreSteps DEF P!Fields, P!Params
<1>2. /\ P!Uses({}) \in ProgramSteps /\ P!Uses({"adm"}) \in ProgramSteps /\ P!Uses({"plmn"}) \in ProgramSteps
      /\ P!Step({"ki"}, P!Always, {{"ki"}}, FALSE) \in ProgramSteps
      /\ P!Step({"adm"}, P!Always, P!Always, FALSE) \in ProgramSteps
  BY AreSteps DEF P!Fields, P!Params, Things
<1>3. \A f \in P!Params : P!If(f) \in ProgramSteps
  BY AreSteps DEF P!If, P!Fields, Things
<1>4. /\ P!If("acc") \in ProgramSteps /\ P!If("smsp") \in ProgramSteps /\ P!If("name") \in ProgramSteps
      /\ P!If("msisdn") \in ProgramSteps /\ P!If("plmn") \in ProgramSteps /\ P!If("imsi") \in ProgramSteps
      /\ P!If("ki") \in ProgramSteps /\ P!If("opc") \in ProgramSteps /\ P!If("iccid") \in ProgramSteps
      /\ P!If("fplmn") \in ProgramSteps
  BY <1>3 DEF P!Params
<1>5. /\ P!When({"isim", "ki"}, {"isim ki"}) \in ProgramSteps /\ P!When({"isim", "opc"}, {"isim opc"}) \in ProgramSteps
      /\ P!When({"isim", "files"}, {"ims"}) \in ProgramSteps
      /\ P!When({"usim", "ki"}, {"usim ki"}) \in ProgramSteps /\ P!When({"usim", "opc"}, {"usim opc"}) \in ProgramSteps
      /\ P!When({"usim", "files", "plmn"}, {"ehplmn"}) \in ProgramSteps
      /\ P!When({"usim", "files"}, {"epdg"}) \in ProgramSteps
  BY AreSteps DEF P!Fields, P!Params, P!Options, Things
<1>6. P!Verify \in ProgramSteps
  BY <1>2 DEF P!Verify
<1>7. IsProgram(P!MagicSimBase)
  BY <1>1, <1>2 DEF IsProgram, P!MagicSimBase
<1>8. IsProgram(P!FakeMagicSim)
  BY <1>1 DEF IsProgram, P!FakeMagicSim
<1>9. IsProgram(P!GrcardSim)
  BY <1>1, <1>2, <1>4, <1>6, Steps, Zenon DEF IsProgram, P!GrcardSim
<1>10. IsProgram(P!SysmoUSIMgr1)
  BY <1>1, <1>6 DEF IsProgram, P!SysmoUSIMgr1
<1>11. IsProgram(P!SysmoSIMgr2)
  BY <1>1, <1>2, <1>4, <1>6, Steps, Zenon DEF IsProgram, P!SysmoSIMgr2
<1>12. IsProgram(P!SysmoUSIMSJS1)
  BY <1>1, <1>2, <1>4, AdIsStep, Steps, Zenon DEF IsProgram, P!SysmoUSIMSJS1
<1>13. IsProgram(P!FairwavesSIM)
  BY <1>2, <1>4 DEF IsProgram, P!FairwavesSIM
<1>14. IsProgram(P!OpenCellsSim)
  BY <1>1, <1>2 DEF IsProgram, P!OpenCellsSim
<1>15. IsProgram(P!WavemobileSim)
  BY <1>2, <1>4, AdIsStep, Steps, Zenon DEF IsProgram, P!WavemobileSim
<1>16. IsProgram(P!SysmoISIMSJA2)
  BY <1>2, <1>4, AdIsStep, Steps, Zenon DEF IsProgram, P!SysmoISIMSJA2
<1>17. IsProgram(P!GialerSim)
  BY <1>4, <1>6, AdIsStep, Steps, Zenon DEF IsProgram, P!GialerSim
<1>18. IsProgram(P!SysmoISIMSJA2Apps)
  BY <1>5, AdIsStep, Steps, Zenon DEF IsProgram, P!SysmoISIMSJA2Apps
<1>. QED  BY <1>7, <1>8, <1>9, <1>10, <1>11, <1>12, <1>13, <1>14, <1>15, <1>16, <1>17, <1>18

\* ... are steps, whatever the type of the card.
LEMMA ProgramOfType ==
    ASSUME NEW t \in CardTypes PROVE P!Program(t) \in Seq(ProgramSteps)
<1>1. CASE t = "sja2"
  <2>. DEFINE a == P!SysmoISIMSJA2
              b == P!SysmoISIMSJA2Apps
  <2>1. P!Program(t) = a \o b
    BY <1>1 DEF P!Program
  <2>2. a \in Seq(ProgramSteps) /\ b \in Seq(ProgramSteps)
    BY ProgramsAre DEF IsProgram
  <2>. HIDE DEF a, b
  <2>. QED  BY <2>1, <2>2, ConcatProperties
<1>2. CASE t # "sja2"
  BY <1>2, ProgramsAre DEF P!Program, CardTypes, IsProgram
<1>. QED  BY <1>1, <1>2

\* What a card in the good bin has to hold is written by a step of the program().
LEMMA WrittenFields ==
    ASSUME StackType
    PROVE  /\ P!Program(ctype) \in Seq(ProgramSteps)
           /\ P!Written(ctype) \subseteq P!Fields
           /\ \A f \in P!Written(ctype) : \E i \in DOMAIN P!Program(ctype) :
                 P!Program(ctype)[i].checked /\ P!Has(P!Program(ctype)[i].when) /\ f \in P!Program(ctype)[i].w
<1>. DEFINE p == P!Program(ctype)
<1>1. p \in Seq(ProgramSteps)
  BY StackAssumption, ProgramOfType DEF StackType
<1>2. P!Written(ctype) = UNION {s.w : s \in {s \in {p[i] : i \in DOMAIN p} : P!Has(s.when) /\ s.checked}}
  BY DEF P!Written, P!ToSet
<1>. HIDE DEF p
<1>3. \A i \in DOMAIN p : p[i] \in ProgramSteps
  BY <1>1, LenProperties
<1>4. ASSUME NEW f \in P!Written(ctype)
      PROVE  \E i \in DOMAIN p : p[i].checked /\ P!Has(p[i].when) /\ f \in p[i].w
  BY <1>2, <1>4, Zenon
<1>5. P!Written(ctype) \subseteq P!Fields
  BY <1>3, <1>4 DEF ProgramSteps
<1>. QED  BY <1>1, <1>4, <1>5 DEF p

\* It depends on the type of the card and on what is given.
LEMMA WrittenSame ==
    ASSUME UNCHANGED <<ctype, given>>
    PROVE  P!Written(ctype)' = P!Written(ctype) /\ \A a : P!Has(a)' = P!Has(a)
<1>1. \A a : P!Has(a)' = P!Has(a)
  BY DEF P!Has
<1>2. P!Program(ctype)' = P!Program(ctype)
  BY DEF P!Program, P!MagicSimBase
<1>. QED  BY <1>1, <1>2 DEF P!Written, P!Has, P!ToSet

\* No card was programmed.
LEMMA StackInitial == P!Init => StackInv
<1>. SUFFICES ASSUME P!Init PROVE StackInv
  OBVIOUS
<1>1. todo \in Seq(ProgramSteps)
  BY EmptySeq DEF P!Init
<1>2. holds = [c \in Cards |-> holds[c]] /\ \A c \in Cards : DOMAIN holds[c] = P!Fields
  BY DEF P!Init, P!Blank
<1>3. /\ good = {} /\ pc = "get" /\ num \in Nat /\ deaths \in Nat /\ ctype \in Types /\ reader = None
      /\ source \in {"cmdline", "csv"}
  BY DEF P!Init
<1>. QED  BY <1>1, <1>2, <1>3 DEF StackInv, StackType

\* A card stays good as long as nothing writes it and the numbers go on.
LEMMA StaysGood ==
    ASSUME StackInv, UNCHANGED <<ctype, source, given>>, csv \subseteq csv', deaths' \in Nat, deaths' >= deaths,
           num' \in Nat, num' >= num, pc' = "done" => num' > num,
           NEW c \in good, holds'[c] = holds[c], pc = "done" => pc' # "done"
    PROVE  GoodCard(c)'
<1>1. PICK v \in Nat \union Cards :
         /\ Recorded(v) /\ WrittenFor(c, v)
         /\ source = "csv" => v = c
         /\ Once => v \in Nat /\ v < num /\ (pc = "done" => v < num - 1)
  BY DEF StackInv, GoodCard
<1>2. Recorded(v)'
  BY <1>1 DEF Recorded
<1>3. WrittenFor(c, v)'
  BY <1>1, WrittenSame DEF WrittenFor
<1>4. Once' => Once
  BY DEF Once, StackInv, StackType
<1>5. num \in Nat
  BY DEF StackInv, StackType
<1>6. Once' => v \in Nat /\ v < num' /\ (pc' = "done" => v < num' - 1)
  BY <1>1, <1>4, <1>5
<1>. QED  BY <1>1, <1>2, <1>3, <1>6 DEF GoodCard

\* ... and so do they all, each with an IMSI of its own.
LEMMA GoodKept ==
    ASSUME StackInv, UNCHANGED <<ctype, source, given, good>>, csv \subseteq csv', deaths' \in Nat, deaths' >= deaths,
           num' \in Nat, num' >= num, pc' = "done" => num' > num, pc = "done" => pc' # "done",
           \A c \in good : holds'[c] = holds[c]
    PROVE  /\ \A c \in good' : GoodCard(c)'
           /\ (Once /\ "imsi" \in P!Written(ctype))' =>
                \A c, d \in good' : c # d => holds'[c]["imsi"] # holds'[d]["imsi"]
<1>1. \A c \in good' : GoodCard(c)'
  BY StaysGood
<1>2. Once' => Once
  BY DEF Once, StackInv, StackType
<1>3. Once /\ "imsi" \in P!Written(ctype) => \A c, d \in good : c # d => holds[c]["imsi"] # holds[d]["imsi"]
  BY DEF StackInv
<1>. QED  BY <1>1, <1>2, <1>3, WrittenSame

\* Nothing of the card changes and nothing is counted; the number may have been,
\* and the state been saved, by a card that fails.
LEMMA MovesOn ==
    ASSUME StackInv, UNCHANGED <<ctype, source, given, erase, holds, good, csv>>,
           pc' \in {"erase", "params", "error", "dead"}, pc' = "dead" => deaths' > 0,
           num' \in Nat, num' >= num, deaths' \in Nat, deaths' >= deaths, state # None => state' # None,
           reader' \in Cards, reader' \notin good, todo' \in Seq(ProgramSteps)
    PROVE  StackInv'
<1>1. StackType'
  BY DEF StackInv, StackType
<1>2. "state" \in given /\ good # {} => state' # None
  BY DEF StackInv
<1>3. /\ \A c \in good' : GoodCard(c)'
      /\ (Once /\ "imsi" \in P!Written(ctype))' =>
           \A c, d \in good' : c # d => holds'[c]["imsi"] # holds'[d]["imsi"]
  BY GoodKept
<1>. QED  BY <1>1, <1>2, <1>3 DEF StackInv

\* Of a step that writes the card in the reader the others see nothing.
LEMMA WritesOnlyReader ==
    ASSUME StackInv, pc # "get", NEW h, holds' = [holds EXCEPT ![reader] = h]
    PROVE  /\ \A c \in good : holds'[c] = holds[c]
           /\ holds'[reader] = h
           /\ holds' = [c \in Cards |-> holds'[c]]
           /\ \A c \in Cards : c # reader => holds'[c] = holds[c]
  BY DEF StackInv, StackType

\* erase() leaves a card blank, or as it is.
LEMMA EraseStep == ASSUME StackInv, P!Erase PROVE StackInv'
<1>1. /\ pc = "erase" /\ pc' = "params" /\ reader \in Cards /\ reader \notin good
      /\ UNCHANGED <<ctype, source, given, erase, num, state, todo, reader, csv, good, bad, deaths>>
  BY DEF P!Erase, P!runVars, StackInv, StackType
<1>2. num \in Nat /\ deaths \in Nat /\ todo \in Seq(ProgramSteps)
  BY DEF StackInv, StackType
<1>3. CASE holds' = holds
  BY <1>1, <1>2, <1>3, MovesOn
<1>4. CASE holds' = [holds EXCEPT ![reader] = P!Blank]
  <2>1. DOMAIN P!Blank = P!Fields
    BY DEF P!Blank
  <2>2. /\ \A c \in good : holds'[c] = holds[c]
        /\ holds'[reader] = P!Blank
        /\ holds' = [c \in Cards |-> holds'[c]]
        /\ \A c \in Cards : c # reader => holds'[c] = holds[c]
    BY <1>1, <1>4, WritesOnlyReader
  <2>3. StackType'
    BY <1>1, <2>1, <2>2 DEF StackInv, StackType
  <2>4. /\ \A c \in good' : GoodCard(c)'
        /\ (Once /\ "imsi" \in P!Written(ctype))' =>
             \A c, d \in good' : c # d => holds'[c]["imsi"] # holds'[d]["imsi"]
    BY <1>1, <1>2, <2>2, GoodKept
  <2>5. "state" \in given /\ good # {} => state # None
    BY DEF StackInv
  <2>. QED  BY <1>1, <2>3, <2>4, <2>5 DEF StackInv
<1>. QED  BY <1>3, <1>4, Zenon DEF P!Erase

\* The whole program() is to come.
LEMMA GetParametersStep == ASSUME StackInv, P!GetParameters PROVE StackInv'
<1>1. /\ pc = "params" /\ pc' = "program" /\ todo' = P!Program(ctype) /\ reader \in Cards /\ reader \notin good
      /\ UNCHANGED <<ctype, source, given, erase, num, state, reader, holds, csv, good, bad, deaths>>
  BY DEF P!GetParameters, P!runVars, StackInv, StackType
<1>2. StackType' /\ StackType /\ num \in Nat /\ deaths \in Nat
  BY <1>1, WrittenFields DEF StackInv, StackType
<1>3. P!Written(ctype)' = P!Written(ctype) /\ \A a : P!Has(a)' = P!Has(a)
  BY <1>1, WrittenSame
<1>4. \A f \in P!Written(ctype) : ToCome(f)'
  <2>. DEFINE p == P!Program(ctype)
  <2>1. \A f \in P!Written(ctype) : \E i \in DOMAIN p : p[i].checked /\ P!Has(p[i].when) /\ f \in p[i].w
    BY <1>2, WrittenFields
  <2>2. todo' = p
    BY <1>1
  <2>. HIDE DEF p
  <2>3. \A f : ToCome(f)' <=> \E i \in DOMAIN todo' : todo'[i].checked /\ P!Has(todo'[i].when) /\ f \in todo'[i].w
    BY <1>1 DEF ToCome, P!Has
  <2>. QED  BY <1>3, <2>1, <2>2, <2>3
<1>5. /\ \A c \in good' : GoodCard(c)'
      /\ (Once /\ "imsi" \in P!Written(ctype))' =>
           \A c, d \in good' : c # d => holds'[c]["imsi"] # holds'[d]["imsi"]
  BY <1>1, <1>2, GoodKept
<1>6. \A f \in P!Written(ctype)' : (holds[reader][f] = P!Value \/ ToCome(f))'
  BY <1>3, <1>4
<1>7. "state" \in given /\ good # {} => state # None
  BY DEF StackInv
<1>. QED  BY <1>1, <1>2, <1>5, <1>6, <1>7 DEF StackInv

\* What is to come is the next step's or comes after it.
LEMMA TodoAdvances ==
    ASSUME StackInv, todo # <<>>, todo' = Tail(todo), UNCHANGED given
    PROVE  /\ todo' \in Seq(ProgramSteps) /\ Head(todo) \in ProgramSteps
           /\ \A f : ToCome(f) => \/ ToCome(f)'
                                  \/ Head(todo).checked /\ P!Has(Head(todo).when) /\ f \in Head(todo).w
           /\ todo' = <<>> => \A f : ~ToCome(f)'
<1>1. todo \in Seq(ProgramSteps) /\ Len(todo) \in Nat /\ DOMAIN todo = 1..Len(todo)
  BY LenProperties DEF StackInv, StackType
<1>2. /\ Head(todo) \in ProgramSteps /\ todo' \in Seq(ProgramSteps) /\ Len(todo') = Len(todo) - 1
      /\ \A i \in 1..Len(todo') : todo'[i] = todo[i + 1]
  BY <1>1, HeadTailProperties
<1>3. DOMAIN todo' = 1..Len(todo')
  BY <1>2, LenProperties
<1>4. Head(todo) = todo[1]
  BY <1>1
<1>5. \A a : P!Has(a)' = P!Has(a)
  BY DEF P!Has
<1>6. ASSUME NEW f, ToCome(f), ~ToCome(f)'
      PROVE  Head(todo).checked /\ P!Has(Head(todo).when) /\ f \in Head(todo).w
  <2>1. PICK i \in DOMAIN todo : todo[i].checked /\ P!Has(todo[i].when) /\ f \in todo[i].w
    BY <1>6 DEF ToCome
  <2>2. CASE i = 1
    BY <1>4, <2>1, <2>2
  <2>3. CASE i # 1
    <3>1. i - 1 \in DOMAIN todo' /\ (i - 1) + 1 = i
      BY <1>1, <1>2, <1>3, <2>3
    <3>2. todo'[i - 1] = todo[i]
      BY <1>2, <1>3, <3>1
    <3>. QED  BY <1>5, <1>6, <2>1, <3>1, <3>2 DEF ToCome, P!Has
  <2>. QED  BY <2>2, <2>3
<1>7. todo' = <<>> => \A f : ~ToCome(f)'
  BY DEF ToCome
<1>. QED  BY <1>2, <1>6, <1>7

\* A step of program() that is over.
LEMMA StepIsOver ==
    ASSUME StackInv, pc = "program", todo # <<>>, P!Advance,
           UNCHANGED <<ctype, source, given, erase, num, state, reader, csv, good, bad, deaths>>,
           NEW h, holds' = [holds EXCEPT ![reader] = h], DOMAIN h = P!Fields,
           \A f \in P!Written(ctype) : holds[reader][f] = P!Value => h[f] = P!Value,
           Head(todo).checked /\ P!Has(Head(todo).when) =>
             \A f \in P!Written(ctype) : f \in Head(todo).w => h[f] = P!Value
    PROVE  StackInv'
<1>1. /\ todo' \in Seq(ProgramSteps)
      /\ \A f : ToCome(f) => \/ ToCome(f)'
                             \/ Head(todo).checked /\ P!Has(Head(todo).when) /\ f \in Head(todo).w
      /\ todo' = <<>> => \A f : ~ToCome(f)'
  BY TodoAdvances DEF P!Advance
<1>2. /\ \A c \in good : holds'[c] = holds[c]
      /\ holds'[reader] = h
      /\ holds' = [c \in Cards |-> holds'[c]]
      /\ \A c \in Cards : c # reader => holds'[c] = holds[c]
  BY WritesOnlyReader
<1>3. reader \in Cards /\ reader \notin good /\ num \in Nat /\ deaths \in Nat
  BY DEF StackInv, StackType
<1>4. pc' \in {"record", "program"} /\ (pc' = "record" => todo' = <<>>)
  BY DEF P!Advance
<1>5. StackType'
  BY <1>1, <1>2, <1>3, <1>4 DEF StackInv, StackType
<1>6. P!Written(ctype)' = P!Written(ctype) /\ P!Value' = P!Value
  BY WrittenSame DEF P!Value
<1>7. \A f \in P!Written(ctype) : holds[reader][f] = P!Value \/ ToCome(f)
  BY DEF StackInv
<1>8. \A f \in P!Written(ctype) : h[f] = P!Value \/ ToCome(f)'
  BY <1>1, <1>7
<1>9. \A f \in P!Written(ctype)' : (holds[reader][f] = P!Value \/ ToCome(f))'
  BY <1>2, <1>6, <1>8
<1>10. pc' = "record" => WrittenFor(reader, P!Value)'
  BY <1>1, <1>2, <1>4, <1>6, <1>8 DEF WrittenFor
<1>11. /\ \A c \in good' : GoodCard(c)'
       /\ (Once /\ "imsi" \in P!Written(ctype))' =>
            \A c, d \in good' : c # d => holds'[c]["imsi"] # holds'[d]["imsi"]
  BY <1>2, <1>3, <1>4, GoodKept
<1>12. "state" \in given /\ good # {} => state # None
  BY DEF StackInv
<1>. QED  BY <1>4, <1>5, <1>9, <1>10, <1>11, <1>12 DEF StackInv

\* A parameter that was not given: nothing is missing for it.
LEMMA SkipStepStep == ASSUME StackInv, P!SkipStep PROVE StackInv'
<1>1. /\ pc = "program" /\ todo # <<>> /\ ~P!Has(Head(todo).when) /\ P!Advance
      /\ UNCHANGED <<ctype, source, given, erase, num, state, reader, holds, csv, good, bad, deaths>>
  BY DEF P!SkipStep, P!runVars
<1>. DEFINE h == holds[reader]
<1>2. reader \in Cards /\ DOMAIN h = P!Fields /\ DOMAIN holds = Cards
  BY <1>1 DEF StackInv, StackType
<1>3. holds' = [holds EXCEPT ![reader] = h]
  <2>1. holds = [c \in Cards |-> holds[c]]
    BY DEF StackInv, StackType
  <2>. QED  BY <1>1, <1>2, <2>1
<1>4. \A f \in P!Written(ctype) : holds[reader][f] = P!Value => h[f] = P!Value
  BY DEF h
<1>. HIDE DEF h
<1>. QED  BY <1>1, <1>2, <1>3, <1>4, StepIsOver

\* A step of program() writes its fields, or raises if it is checked.
LEMMA ProgramStepStep == ASSUME StackInv, NEW x \in BOOLEAN, P!ProgramStep(x) PROVE StackInv'
<1>. DEFINE s == Head(todo)
            g == [f \in P!Fields |-> IF f \in s.w THEN P!Value ELSE holds[reader][f]]
            h == IF x THEN g ELSE holds[reader]
<1>1. /\ pc = "program" /\ todo # <<>> /\ P!Has(s.when) /\ (x => P!Has(s.uses))
      /\ UNCHANGED <<ctype, source, given, erase, num, state, reader, csv, good, bad, deaths>>
  BY DEF P!ProgramStep, P!runVars
<1>2. reader \in Cards /\ reader \notin good /\ DOMAIN holds[reader] = P!Fields /\ DOMAIN holds = Cards
      /\ holds = [c \in Cards |-> holds[c]] /\ num \in Nat /\ deaths \in Nat
  BY <1>1 DEF StackInv, StackType
<1>3. holds' = [holds EXCEPT ![reader] = h] /\ DOMAIN h = P!Fields
  <2>1. CASE x
    <3>1. holds' = [holds EXCEPT ![reader] = g]
      BY <1>2, <2>1 DEF P!ProgramStep, P!Write
    <3>. QED  BY <2>1, <3>1
  <2>2. CASE ~x
    <3>1. holds' = holds
      BY <2>2 DEF P!ProgramStep
    <3>. QED  BY <1>2, <2>2, <3>1
  <2>. QED  BY <2>1, <2>2
<1>4. \A f \in P!Written(ctype) : holds[reader][f] = P!Value => h[f] = P!Value
  BY WrittenFields DEF StackInv
<1>5. x => \A f \in P!Written(ctype) : f \in s.w => h[f] = P!Value
  BY WrittenFields DEF StackInv
<1>6. CASE P!Advance /\ (x \/ ~s.checked)
  <2>1. s.checked => \A f \in P!Written(ctype) : f \in s.w => h[f] = P!Value
    BY <1>5, <1>6
  <2>. HIDE DEF h
  <2>. QED  BY <1>1, <1>3, <1>4, <1>6, <2>1, StepIsOver
<1>7. CASE ~x /\ pc' = "error" /\ todo' = <<>>
  <2>1. holds' = holds
    BY <1>7 DEF P!ProgramStep
  <2>2. todo' \in Seq(ProgramSteps)
    BY <1>7, EmptySeq
  <2>. QED  BY <1>1, <1>2, <1>7, <2>1, <2>2, MovesOn
<1>8. \/ P!Advance /\ (x \/ ~s.checked)
      \/ ~x /\ pc' = "error" /\ todo' = <<>>
  BY Zenon DEF P!ProgramStep
<1>. QED  BY <1>6, <1>7, <1>8

\* The record is written, or the HLR raises.
LEMMA RecordStackStep == ASSUME StackInv, P!Record PROVE StackInv'
<1>1. /\ pc = "record" /\ csv' = (IF "csv" \in given THEN csv \union {P!Value} ELSE csv) /\ pc' \in {"error", "save"}
      /\ UNCHANGED <<ctype, source, given, erase, num, state, todo, reader, holds, good, bad, deaths>>
  BY DEF P!Record, P!runVars
<1>2. StackType' /\ num \in Nat /\ deaths \in Nat /\ reader \in Cards
  BY <1>1 DEF StackInv, StackType
<1>3. P!Written(ctype)' = P!Written(ctype) /\ P!Value' = P!Value
  BY <1>1, WrittenSame DEF P!Value
<1>4. P!Value # None
  BY <1>2, StackAssumption DEF P!Value
<1>5. Recorded(P!Value)'
  BY <1>1, <1>3, <1>4 DEF Recorded
<1>6. WrittenFor(reader, P!Value)'
  BY <1>1, <1>3 DEF StackInv, WrittenFor
<1>7. /\ \A c \in good' : GoodCard(c)'
      /\ (Once /\ "imsi" \in P!Written(ctype))' =>
           \A c, d \in good' : c # d => holds'[c]["imsi"] # holds'[d]["imsi"]
  BY <1>1, <1>2, GoodKept
<1>8. "state" \in given /\ good # {} => state # None
  BY DEF StackInv
<1>. QED  BY <1>1, <1>2, <1>5, <1>6, <1>7, <1>8 DEF StackInv

\* The next number, and the state file is written with it.
LEMMA SaveStep == ASSUME StackInv, P!Save PROVE StackInv'
<1>1. /\ pc = "save" /\ num' = num + 1 /\ pc' = "done"
      /\ state' = (IF "state" \in given THEN num + 1 ELSE state)
      /\ UNCHANGED <<ctype, source, given, erase, todo, reader, holds, csv, good, bad, deaths>>
  BY DEF P!Save, P!runVars
<1>2. StackType' /\ num \in Nat /\ deaths \in Nat /\ num' - 1 = num /\ num' > 0
  BY <1>1 DEF StackInv, StackType
<1>3. "state" \in given => state' # None
  BY <1>1, <1>2, StackAssumption
<1>4. P!Written(ctype)' = P!Written(ctype) /\ Whose' = P!Value
  BY <1>1, <1>2, WrittenSame DEF P!Value, Whose
<1>5. WrittenFor(reader, Whose)' /\ Recorded(Whose)'
  BY <1>1, <1>4 DEF StackInv, WrittenFor, Recorded
<1>6. /\ \A c \in good' : GoodCard(c)'
      /\ (Once /\ "imsi" \in P!Written(ctype))' =>
           \A c, d \in good' : c # d => holds'[c]["imsi"] # holds'[d]["imsi"]
  BY <1>1, <1>2, GoodKept
<1>. QED  BY <1>1, <1>2, <1>3, <1>5, <1>6 DEF StackInv

\* The card goes to the good bin: its number was above all there.
LEMMA DoneStep == ASSUME StackInv, P!Done PROVE StackInv'
<1>1. /\ pc = "done" /\ good' = good \union {reader} /\ pc' = "get" /\ reader' = None
      /\ UNCHANGED <<ctype, source, given, erase, num, state, todo, holds, csv, bad, deaths>>
  BY DEF P!Done, P!runVars
<1>2. /\ WrittenFor(reader, Whose) /\ Recorded(Whose) /\ num > 0 /\ num \in Nat /\ deaths \in Nat
      /\ reader \in Cards /\ reader \notin good /\ good \subseteq Cards /\ source \in {"cmdline", "csv"}
      /\ ("state" \in given => state # None)
  BY <1>1 DEF StackInv, StackType
<1>3. StackType'
  BY <1>1, <1>2 DEF StackInv, StackType
<1>4. P!Written(ctype)' = P!Written(ctype) /\ Once' = Once
  BY <1>1, WrittenSame DEF Once
<1>5. \A c, v : (WrittenFor(c, v)' <=> WrittenFor(c, v)) /\ (Recorded(v)' <=> Recorded(v))
  BY <1>1, <1>4 DEF WrittenFor, Recorded
<1>6. \A c \in good : GoodCard(c)'
  BY <1>1, <1>2, StaysGood
<1>7. ASSUME NEW r, r = reader PROVE GoodCard(r)'
  <2>. DEFINE v == Whose
  <2>1. v \in Nat \union Cards /\ (source = "csv" => v = r) /\ (Once => v \in Nat /\ v < num)
    BY <1>2, <1>7 DEF Whose, Once
  <2>2. Recorded(v) /\ WrittenFor(r, v)
    BY <1>2, <1>7
  <2>. HIDE DEF v
  <2>3. Recorded(v) /\ WrittenFor(r, v) => \E u \in Nat \union Cards :
             /\ Recorded(u)' /\ WrittenFor(r, u)'
             /\ source' = "csv" => u = r
             /\ Once' => u \in Nat /\ u < num'
    <3>1. \A c, u : WrittenFor(c, u) => \A f \in P!Written(ctype)' : holds'[c][f] = u
      BY <1>1, <1>4 DEF WrittenFor
    <3>2. \A u : Recorded(u) => u # None /\ ("csv" \in given' => u \in csv')
      BY <1>1 DEF Recorded
    <3>. QED  BY <1>1, <1>4, <2>1, <3>1, <3>2 DEF WrittenFor, Recorded
  <2>4. pc' # "done"
    BY <1>1
  <2>. QED  BY <2>2, <2>3, <2>4 DEF GoodCard
<1>8. ASSUME Once, "imsi" \in P!Written(ctype)
      PROVE  \A c, d \in good' : c # d => holds'[c]["imsi"] # holds'[d]["imsi"]
  <2>1. holds[reader]["imsi"] = num - 1
    BY <1>2, <1>8 DEF WrittenFor, Whose, Once
  <2>2. ASSUME NEW c \in good PROVE holds[c]["imsi"] # num - 1
    <3>1. PICK v \in Nat \union Cards : WrittenFor(c, v) /\ v \in Nat /\ v < num - 1
      BY <1>1, <1>8 DEF StackInv, GoodCard
    <3>2. holds[c]["imsi"] = v
      BY <1>8, <3>1 DEF WrittenFor
    <3>. QED  BY <1>2, <3>1, <3>2
  <2>3. \A c, d \in good : c # d => holds[c]["imsi"] # holds[d]["imsi"]
    BY <1>8 DEF StackInv
  <2>. QED  BY <1>1, <2>1, <2>2, <2>3
<1>9. \A c \in good' : GoodCard(c)'
  BY <1>1, <1>6, <1>7
<1>10. "state" \in given => state # None
  BY <1>2
<1>11. (Once /\ "imsi" \in P!Written(ctype))' => Once /\ "imsi" \in P!Written(ctype)
  BY <1>4
<1>. QED  BY <1>1, <1>3, <1>8, <1>9, <1>10, <1>11 DEF StackInv

\* A new run, that has no state file: either there is to be none, or no card is good.
LEMMA RestartStackStep == ASSUME StackInv, NEW n \in 0..1, P!Restart(n) PROVE StackInv'
<1>1. /\ pc = "dead" /\ state = None /\ pc' = "get" /\ reader' = None /\ num' = n
      /\ UNCHANGED <<ctype, source, given, erase, state, todo, holds, csv, good, bad, deaths>>
  BY DEF P!Restart, P!runVars
<1>2. StackType' /\ n \in Nat
  BY <1>1 DEF StackInv, StackType
<1>3. Once /\ Once' => good = {}
  BY <1>1 DEF StackInv, Once, StackType
<1>4. Once' = Once /\ P!Written(ctype)' = P!Written(ctype)
  BY <1>1, WrittenSame DEF Once
<1>5. ASSUME NEW c \in good PROVE GoodCard(c)'
  <2>1. PICK v \in Nat \union Cards : Recorded(v) /\ WrittenFor(c, v) /\ (source = "csv" => v = c)
    BY DEF StackInv, GoodCard
  <2>2. Recorded(v)' /\ WrittenFor(c, v)'
    BY <1>1, <1>4, <2>1 DEF Recorded, WrittenFor
  <2>3. ~Once'
    BY <1>3, <1>4, <1>5
  <2>. QED  BY <1>1, <2>1, <2>2, <2>3 DEF GoodCard
<1>6. "state" \in given /\ good # {} => state # None
  BY DEF StackInv
<1>7. \A c \in good' : GoodCard(c)'
  BY <1>1, <1>5
<1>8. Once' => good' = {}
  BY <1>1, <1>3, <1>4
<1>. QED  BY <1>1, <1>2, <1>6, <1>7, <1>8 DEF StackInv

\* The card is put to the bad bin; its number stays for the next one.
LEMMA ErrorStep == ASSUME StackInv, P!Error PROVE StackInv'
<1>1. /\ pc = "error" /\ pc' = "get" /\ reader' = None /\ todo' = <<>>
      /\ UNCHANGED <<ctype, source, given, erase, num, state, holds, csv, good, deaths>>
  BY DEF P!Error, P!runVars
<1>2. StackType' /\ num \in Nat /\ deaths \in Nat
  BY <1>1, EmptySeq DEF StackInv, StackType
<1>3. /\ \A c \in good' : GoodCard(c)'
      /\ (Once /\ "imsi" \in P!Written(ctype))' =>
           \A c, d \in good' : c # d => holds'[c]["imsi"] # holds'[d]["imsi"]
  BY <1>1, <1>2, GoodKept
<1>4. "state" \in given /\ good # {} => state # None
  BY DEF StackInv
<1>. QED  BY <1>1, <1>2, <1>3, <1>4 DEF StackInv

\* Every step of the batch keeps it.
LEMMA StackStep == StackInv /\ P!Next => StackInv'
<1>. SUFFICES ASSUME StackInv, P!Next PROVE StackInv'
  OBVIOUS
<1>0. /\ todo \in Seq(ProgramSteps) /\ <<>> \in Seq(ProgramSteps) /\ num \in Nat /\ deaths \in Nat
      /\ pc # "get" => reader \in Cards /\ reader \notin good
  BY EmptySeq DEF StackInv, StackType
<1>1. ASSUME NEW c \in Cards, P!Get(c) PROVE StackInv'
  <2>1. c \notin good /\ pc' \in {"erase", "params"} /\ reader' = c
    BY <1>1 DEF P!Get
  <2>. QED  BY <1>0, <1>1, <2>1, MovesOn DEF P!Get, P!runVars
<1>2. CASE P!Fails
  BY <1>0, <1>2, MovesOn DEF P!Fails, P!runVars
<1>3. CASE P!Die
  <2>1. reader' = reader /\ reader # None /\ pc # "get"
    BY <1>3 DEF P!Die, StackInv, StackType
  <2>. QED  BY <1>0, <1>3, <2>1, MovesOn DEF P!Die
<1>4. ASSUME NEW x \in BOOLEAN, P!SaveFails(x) PROVE StackInv'
  <2>1. state # None => state' # None
    BY <1>0, <1>4, StackAssumption DEF P!SaveFails
  <2>. QED  BY <1>0, <1>4, <2>1, MovesOn DEF P!SaveFails, P!runVars
<1>. QED  BY <1>1, <1>2, <1>3, <1>4, ErrorStep, RestartStackStep, EraseStep, GetParametersStep, SkipStepStep, ProgramStepStep,
            RecordStackStep, SaveStep, DoneStep, Zenon DEF P!Next

\* ... so it holds in every state.
LEMMA StackInvariance == Spec => []StackInv
<1>1. Init => StackInv
  BY StackInitial DEF Init
<1>2. StackInv /\ [Next]_vars => StackInv'
  <2>1. StackInv /\ UNCHANGED stack => StackInv'
    <3>. SUFFICES ASSUME StackInv, UNCHANGED stack PROVE StackInv'
      OBVIOUS
    <3>0. UNCHANGED <<ctype, source, given, erase, num, state, pc, todo, reader, holds, csv, good, bad, deaths>>
      BY DEF stack
    <3>1. StackType'
      BY <3>0 DEF StackInv, StackType
    <3>2. P!Written(ctype)' = P!Written(ctype) /\ (\A a : P!Has(a)' = P!Has(a)) /\ Once' = Once
          /\ P!Value' = P!Value /\ Whose' = Whose
      BY <3>0, WrittenSame DEF Once, P!Value, Whose
    <3>3. \A f : ToCome(f)' = ToCome(f)
      BY <3>0, <3>2 DEF ToCome, P!Has
    <3>4. \A c, v : WrittenFor(c, v)' = WrittenFor(c, v) /\ Recorded(v)' = Recorded(v)
      BY <3>0, <3>2 DEF WrittenFor, Recorded
    <3>5. \A c : GoodCard(c)' <=> GoodCard(c)
      BY <3>0, <3>2, <3>4 DEF GoodCard, WrittenFor, Recorded
    <3>6. pc = "program" => \A f \in P!Written(ctype)' : (holds[reader][f] = P!Value \/ ToCome(f))'
      BY <3>0, <3>2, <3>3 DEF StackInv
    <3>7. pc \in {"record", "save"} => WrittenFor(reader, P!Value)'
      BY <3>0, <3>2 DEF StackInv, WrittenFor
    <3>8. /\ pc = "save" => Recorded(P!Value)'
          /\ pc = "done" => WrittenFor(reader, Whose)' /\ Recorded(Whose)' /\ num > 0
      BY <3>0, <3>2 DEF StackInv, WrittenFor, Recorded
    <3>9. \A c \in good : GoodCard(c)'
      BY <3>5 DEF StackInv
    <3>. QED  BY <3>0, <3>1, <3>2, <3>6, <3>7, <3>8, <3>9 DEF StackInv
  <2>. QED  BY <2>1, StackStep DEF Next, vars
<1>. QED  BY <1>1, <1>2, PTL DEF Spec

\* For any number of cards of any of the types, and whatever parameters are given:
\* a card in the good bin holds every field its program() then writes with a
\* checked command, all from one set of parameters, and these are in the CSV file
\* if one is to be written, also when commands fail or pySim-prog dies between the
\* card, the record and the state file (process_card).
THEOREM GoodCardsAreComplete == Spec => []GoodComplete
<1>1. ASSUME StackInv PROVE P!GoodComplete
  <2>1. SUFFICES ASSUME NEW c \in good, NEW f \in P!Written(ctype), NEW g \in P!Written(ctype)
                 PROVE  holds[c][f] # None /\ holds[c][f] = holds[c][g] /\ ("csv" \in given => holds[c][f] \in csv)
    BY DEF P!GoodComplete
  <2>2. PICK v : Recorded(v) /\ WrittenFor(c, v)
    BY <1>1 DEF StackInv, GoodCard
  <2>. QED  BY <2>2 DEF Recorded, WrittenFor
<1>. QED  BY <1>1, StackInvariance, PTL DEF GoodComplete

\* No two cards of the good bin were given one IMSI, whatever failed between the
\* card, the record and the state file, in one run of pySim-prog and, if there is
\* a state file, over any number of them (process_card, init_batch, save_batch).
THEOREM NumbersAreUnique == Spec => []NumbersUnique
<1>1. ASSUME StackInv PROVE P!NumbersUnique
  <2>1. CASE source = "cmdline"
    BY <1>1, <2>1 DEF StackInv, P!NumbersUnique, Once
  <2>2. CASE source = "csv"
    <3>1. ASSUME NEW c \in good, "imsi" \in P!Written(ctype) PROVE holds[c]["imsi"] = c
      BY <1>1, <2>2, <3>1 DEF StackInv, GoodCard, WrittenFor
    <3>. QED  BY <3>1 DEF P!NumbersUnique
  <2>. QED  BY <1>1, <2>1, <2>2 DEF StackInv, StackType
<1>. QED  BY <1>1, StackInvariance, PTL DEF NumbersUnique

-----------------------------------------------------------------------------
(* The processes of the services. *)

\* That no service runs unnamed is inductive once the strays have their type.
ProcessesInv ==
    /\ stray \in [R!Services -> R!Strays]
    /\ R!NothingLeftRunning

\* At first there is no process of a service.
LEMMA ProcessesInit == R!Init => ProcessesInv
BY DEF R!Init, ProcessesInv, R!NothingLeftRunning, R!All, R!Services, R!Strays

\* stop and close take the process out of the table when they have ended it, and
\* only a GUI that dies leaves its children behind, which it is allowed to.
LEMMA ProcessesStep ==
    ASSUME ProcessesInv, R!Next \/ UNCHANGED processes
    PROVE  ProcessesInv'
<1>. USE DEF ProcessesInv, R!NothingLeftRunning
<1>1. CASE UNCHANGED processes
  BY <1>1 DEF processes
<1>2. ASSUME NEW s \in R!Services, R!Stop(s)
      PROVE  ProcessesInv'
  BY <1>2 DEF R!Stop, R!Stopped, R!Strays
<1>3. ASSUME NEW s \in R!Services, R!Dies(s) \/ R!Ends(s)
      PROVE  ProcessesInv'
  BY <1>3 DEF R!Dies, R!Ends, R!Strays
<1>4. ASSUME NEW s \in R!Services, NEW o, R!Start(s, o)
      PROVE  ProcessesInv'
  BY <1>4 DEF R!Start, R!KillOthers, R!Strays
<1>5. CASE R!Close
  BY <1>5 DEF R!Close, R!Stopped
<1>6. CASE R!Refresh \/ R!UpdateServiceStatus \/ R!GuiStarts
  BY <1>6 DEF R!Refresh, R!UpdateServiceStatus, R!GuiStarts
<1>7. CASE R!GuiDies
  BY <1>7 DEF R!GuiDies, R!Strays
<1>. QED  BY <1>1, <1>2, <1>3, <1>4, <1>5, <1>6, <1>7 DEF R!Next

\* As long as every GUI closed its window, no service runs that the process
\* table does not name, also when one ignores the terminate signal or dies by
\* itself (ProcessManager.stop_veuicc, stop_smdp, stop_all).
THEOREM NothingIsLeftRunning == Spec => []NothingLeftRunning
<1>1. Init => ProcessesInv
  BY ProcessesInit DEF Init
<1>2. ProcessesInv /\ [Next]_vars => ProcessesInv'
  BY ProcessesStep DEF Next, vars, processes
<1>3. ProcessesInv => NothingLeftRunning
  BY DEF ProcessesInv, NothingLeftRunning
<1>. QED  BY <1>1, <1>2, <1>3, PTL DEF Spec
-----------------------------------------------------------------------------
(* The reader. *)

\* The octets of the answer from the first after m to the nth.
FromTo(m, n) == [i \in 1..(n - m) |-> m + i]

\* The card carried the command out and gave the rest of its octets.
Whole == cmd.res \in T!Good /\ reply = FromTo(dropped, cmd.n)

\* Ranges of what is counted and named on the way to the card and back.
ReaderType ==
    /\ phase \in {"idle", "t0", "resent", "check", "fetch", "handle", "respond", "returned", "raised"}
    /\ cmd.n \in Nat /\ cmd.res \in {"90", "62", "63", "6f"}
    /\ sent \in 0..cmd.n /\ dropped \in 0..cmd.n /\ pro \in Nat
    /\ rv.sw \in {"none", "90", "61", "62", "6c", "6f"}

\* What the next step of a command relies on: while there is more to get, data
\* is the beginning that was sent; a last status word comes with all of it that
\* was not replaced; what was kept before the first FETCH stays the answer to the
\* command; and the status word announces a proactive command exactly when one
\* waits.
ReaderInv ==
    /\ ReaderType
    /\ fetched => phase \in {"handle", "respond", "raised"} \/ word = "6f"
    /\ phase = "idle" => cmd = T!NoCmd /\ dropped = 0
    /\ phase = "t0" =>
         /\ rv.sw = "none" /\ dropped = 0 /\ reply = FromTo(0, sent)
         /\ word \in {"90", "91", "61", "62", "6c", "63", "6f"}
         /\ word \in {"61", "62", "6c"} => cmd.res \in T!Good
         /\ word = "63" => cmd.res = "63"
    /\ phase = "resent" => rv.sw = "none" /\ word \in {"90", "91", "61", "62", "6c"}
    /\ phase \in {"t0", "resent", "check"} =>
         /\ word = "91" => pro > 0
         /\ word = "90" => pro = 0 /\ ~fetched
         /\ word \in {"90", "91"} /\ rv.sw = "none" => Whole
    /\ phase = "check" => word \in {"90", "91", "61", "62", "6c", "6f"} /\ rv.sw \in {"none", "90"}
    /\ phase = "fetch" => pro > 0
    /\ phase \in {"fetch", "handle", "respond"} => rv.sw = "90"
    /\ phase = "check" /\ rv.sw # "none" => word \in {"90", "91", "6f"}
    /\ rv.sw = "90" => cmd.res \in T!Good /\ rv.data = FromTo(dropped, cmd.n)
    /\ phase = "returned" => rv.sw = "90" /\ ((pro = 0 /\ ~fetched) \/ word = "6f")

\* No command was sent.
LEMMA ReaderInit == T!Init => ReaderInv
BY DEF T!Init, ReaderInv, ReaderType, T!NoCmd, T!NoAnswer

\* A piece that begins where the last one ended makes the beginning longer ...
LEMMA PieceFollows ==
    ASSUME NEW n \in Nat, NEW k \in Nat
    PROVE  FromTo(0, n) \o [i \in 1..k |-> n + i] = FromTo(0, n + k)
BY DEF FromTo

\* ... and is a part of the answer.
LEMMA PieceIs ==
    ASSUME cmd.n \in Nat, sent \in 0..cmd.n
    PROVE  \E m \in sent..cmd.n : /\ T!Piece(sent) = FromTo(sent, m)
                                  /\ Len(T!Piece(sent)) = m - sent
                                  /\ T!Piece(sent) = [i \in 1..(m - sent) |-> sent + i]
<1>. DEFINE k == IF cmd.n - sent < Block THEN cmd.n - sent ELSE Block
            p == T!Piece(sent)
<1>1. k \in Nat /\ sent + k \in sent..cmd.n /\ p = [i \in 1..k |-> sent + i] /\ (sent + k) - sent = k
  BY ReaderAssumption DEF T!Piece
<1>. HIDE DEF k, p
<1>2. Len(p) = k
  BY <1>1
<1>3. p = FromTo(sent, sent + k)
  BY <1>1, Zenon DEF FromTo
<1>. QED  BY <1>1, <1>2, <1>3 DEF p

\* The card's first answer: an error, all of the data, another length, the news
\* that there are data, or none.
LEMMA FirstAnswer ==
    ASSUME NEW c \in T!Commands, NEW w \in 0..MaxPro
    PROVE  LET a == T!CardExecutes(c, w)
           IN  \/ c.res \notin T!Good /\ a = [data |-> <<>>, sw |-> c.res, sent |-> 0]
               \/ c.res \in T!Good /\ a = [data |-> FromTo(0, c.n), sw |-> T!Final(c.res, w), sent |-> c.n]
               \/ c.res \in T!Good /\ a = [data |-> <<>>, sw |-> "6c", sent |-> 0]
               \/ /\ c.res \in T!Good
                  /\ a = [data |-> <<>>, sw |-> IF c.res = "62" THEN "62" ELSE "61", sent |-> 0]
               \/ /\ c.res \in T!Good /\ c.n = 0
                  /\ a = [data |-> <<>>, sw |-> T!Final(c.res, w), sent |-> 0]
<1>. DEFINE a == T!CardExecutes(c, w)
<1>1. c.n \in 0..MaxAnswer /\ c.n \in Nat /\ (c.case \in {2, 4} => c.n > 0) /\ Block \in Nat
  BY ReaderAssumption DEF T!Commands
<1>2. FromTo(0, c.n) = [i \in 1..c.n |-> i]
  BY <1>1 DEF FromTo
<1>3. CASE c.res \notin T!Good
  <2>1. a = [data |-> <<>>, sw |-> c.res, sent |-> 0]
    BY <1>3 DEF T!CardExecutes
  <2>. QED  BY <1>3, <2>1
<1>4. CASE c.res \in T!Good /\ c.case = 2 /\ c.le = c.n /\ c.n <= Block
  <2>1. a = [data |-> [i \in 1..c.n |-> i], sw |-> T!Final(c.res, w), sent |-> c.n]
    <3>1. ~(c.case # 2 \/ c.n > Block)
      BY <1>1, <1>4
    <3>. QED  BY <1>4, <3>1 DEF T!CardExecutes
  <2>2. a = [data |-> FromTo(0, c.n), sw |-> T!Final(c.res, w), sent |-> c.n]
    BY <1>2, <2>1, Zenon
  <2>. QED  BY <1>4, <2>2
<1>5. CASE c.res \in T!Good /\ c.case = 2 /\ c.le # c.n /\ c.n <= Block
  <2>1. a = [data |-> <<>>, sw |-> "6c", sent |-> 0]
    <3>1. ~(c.case # 2 \/ c.n > Block) /\ c.le # c.n
      BY <1>1, <1>5
    <3>. QED  BY <1>5, <3>1 DEF T!CardExecutes
  <2>. QED  BY <1>5, <2>1
<1>6. CASE c.res \in T!Good /\ c.n > 0 /\ (c.case # 2 \/ c.n > Block)
  <2>1. ~(c.case = 2 /\ c.n <= Block)
    BY <1>1, <1>6
  <2>2. a = [data |-> <<>>, sw |-> IF c.res = "62" THEN "62" ELSE "61", sent |-> 0]
    BY <1>6, <2>1 DEF T!CardExecutes
  <2>. QED  BY <1>6, <2>2
<1>7. CASE c.res \in T!Good /\ c.n = 0 /\ c.case # 2
  <2>1. ~(c.n > 0)
    BY <1>7
  <2>2. a = [data |-> <<>>, sw |-> T!Final(c.res, w), sent |-> 0]
    BY <1>7, <2>1 DEF T!CardExecutes
  <2>. QED  BY <1>7, <2>2
<1>. HIDE DEF a
<1>8. c.n = 0 \/ c.n > 0
  BY <1>1
<1>9. c.n <= Block \/ c.n > Block
  BY <1>1
<1>10. c.case = 2 => c.n > 0
  BY <1>1
<1>. QED  BY <1>3, <1>4, <1>5, <1>6, <1>7, <1>8, <1>9, <1>10 DEF a

\* Every step of __send_apdu_T0 and of the loop over proactive commands in
\* send_apdu_checksw keeps it.
LEMMA ReaderStep ==
    ASSUME ReaderInv, T!Next \/ UNCHANGED answer
    PROVE  ReaderInv'
<1>. USE DEF ReaderInv, ReaderType, T!Good
<1>1. CASE UNCHANGED answer
  BY <1>1 DEF answer, Whole
<1>2. ASSUME NEW c \in T!Commands, NEW w \in 0..MaxPro, T!Send(c, w)
      PROVE  ReaderInv'
  <2>. DEFINE a == T!CardExecutes(c, w)
  <2>1. /\ cmd' = c /\ pro' = w /\ phase' = "t0" /\ rv' = T!NoAnswer /\ fetched' = fetched /\ ~fetched
        /\ reply' = a.data /\ word' = a.sw /\ sent' = a.sent /\ dropped' = 0
    BY <1>2 DEF T!Send
  <2>2. /\ c.n \in 0..MaxAnswer /\ c.res \in {"90", "62", "63", "6f"} /\ c.case \in 1..4 /\ w \in Nat
    BY ReaderAssumption DEF T!Commands
  <2>3. \/ c.res \notin T!Good /\ a = [data |-> <<>>, sw |-> c.res, sent |-> 0]
        \/ c.res \in T!Good /\ a = [data |-> FromTo(0, c.n), sw |-> T!Final(c.res, w), sent |-> c.n]
        \/ c.res \in T!Good /\ a = [data |-> <<>>, sw |-> "6c", sent |-> 0]
        \/ c.res \in T!Good /\ a = [data |-> <<>>, sw |-> IF c.res = "62" THEN "62" ELSE "61", sent |-> 0]
        \/ c.res \in T!Good /\ c.n = 0 /\ a = [data |-> <<>>, sw |-> T!Final(c.res, w), sent |-> 0]
    BY FirstAnswer
  <2>4. FromTo(0, 0) = <<>>
    BY DEF FromTo
  <2>. HIDE DEF a
  <2>. QED  BY <2>1, <2>2, <2>3, <2>4 DEF T!Final, T!NoAnswer, Whole
<1>3. CASE T!GetResponse
  <2>1. CASE /\ word' \in {"6f", "6c"} /\ UNCHANGED <<reply, sent>> /\ (word' = "6c" => T!Has)
    BY <1>3, <2>1 DEF T!GetResponse, T!More, T!Has, Whole
  <2>2. CASE /\ T!Has /\ reply' = reply \o T!Piece(sent) /\ sent' = sent + Len(T!Piece(sent))
             /\ word' \in T!AfterPiece(sent')
    <3>1. PICK m \in sent..cmd.n :
                 Len(T!Piece(sent)) = m - sent /\ T!Piece(sent) = [i \in 1..(m - sent) |-> sent + i]
      BY PieceIs
    <3>2. sent \in Nat /\ m - sent \in Nat /\ sent + (m - sent) = m /\ m \in Nat
      BY <3>1
    <3>3. reply = FromTo(0, sent)
      BY <1>3 DEF T!GetResponse
    <3>4. reply' = FromTo(0, m) /\ sent' = m
      BY <2>2, <3>1, <3>2, <3>3, PieceFollows
    <3>5. /\ phase = "t0" /\ UNCHANGED <<phase, cmd, strict, dropped, rv, pro, fetched>>
          /\ cmd.res \in T!Good /\ word \in {"61", "62", "63", "9f"}
      BY <1>3, <2>2 DEF T!GetResponse, T!More, T!Has
    <3>6. /\ rv.sw = "none" /\ dropped = 0 /\ ~fetched /\ pro \in Nat /\ m \in 0..cmd.n
      BY <3>1, <3>5
    <3>7. \/ word' \in {"62", "61"}
          \/ m = cmd.n /\ word' = IF pro > 0 THEN "91" ELSE "90"
      BY <2>2, <3>1, <3>4 DEF T!AfterPiece, T!Final
    <3>. QED  BY <3>4, <3>5, <3>6, <3>7 DEF Whole
  <2>. QED  BY <1>3, <2>1, <2>2 DEF T!GetResponse
<1>4. CASE T!Resend
  <2>1. /\ phase' = "resent" /\ UNCHANGED <<cmd, strict, rv, pro, fetched>> /\ dropped' = Len(reply)
        /\ reply = FromTo(0, sent) /\ cmd.res \in T!Good /\ rv.sw = "none" /\ word = "6c" /\ phase = "t0"
    BY <1>4 DEF T!Resend
  <2>2. dropped' = sent
    BY <2>1 DEF FromTo
  <2>3. CASE word' \in {"61", "6c"} /\ UNCHANGED sent
    BY <2>1, <2>2, <2>3 DEF Whole
  <2>4. CASE /\ reply' = T!Piece(sent) /\ sent' = sent + Len(T!Piece(sent))
             /\ word' \in T!AfterPiece(sent')
    <3>1. PICK m \in sent..cmd.n : T!Piece(sent) = FromTo(sent, m) /\ Len(T!Piece(sent)) = m - sent
      BY PieceIs
    <3>2. reply' = FromTo(sent, m) /\ sent' = m
      BY <2>4, <3>1
    <3>. QED  BY <2>1, <2>2, <2>4, <3>1, <3>2 DEF T!AfterPiece, T!Final, Whole
  <2>. QED  BY <1>4, <2>3, <2>4 DEF T!Resend
<1>5. CASE T!T0Done
  BY <1>5 DEF T!T0Done, T!More, Whole
<1>6. CASE T!Proactive
  <2>1. rv'.sw = "90" /\ cmd'.res \in T!Good /\ rv'.data = FromTo(dropped', cmd'.n)
    BY <1>6 DEF T!Proactive, Whole
  <2>. QED  BY <1>6, <2>1 DEF T!Proactive, Whole
<1>7. CASE T!Fetch \/ T!TerminalResponse
  BY <1>7 DEF T!Fetch, T!TerminalResponse, T!Final, Whole
<1>8. CASE T!Check
  BY <1>8 DEF T!Check, Whole
<1>9. CASE T!Again
  BY <1>9 DEF T!Again, T!NoCmd, T!NoAnswer
<1>10. CASE \E raises \in BOOLEAN : T!Handle(raises)
  BY <1>10 DEF T!Handle, Whole
<1>. QED  BY <1>1, <1>2, <1>3, <1>4, <1>5, <1>6, <1>7, <1>8, <1>9, <1>10 DEF T!Next, T!Step

\* ... so it holds in every state.
LEMMA ReaderInvariance == Spec => []ReaderInv
<1>1. Init => ReaderInv
  BY ReaderInit DEF Init
<1>2. ReaderInv /\ [Next]_vars => ReaderInv'
  BY ReaderStep DEF Next, vars, answer
<1>. QED  BY <1>1, <1>2, PTL DEF Spec

\* What send_apdu_checksw returns is the answer of the command itself to its last
\* octet, for any number of GET RESPONSE of any size and of proactive commands in
\* between; only what a repeated GET RESPONSE replaced is missing.
THEOREM AnswersAreWhole == Spec => []AnswerWhole
<1>1. ReaderInv => AnswerWhole
  BY DEF ReaderInv, AnswerWhole, T!AnswerWhole, FromTo
<1>. QED  BY <1>1, ReaderInvariance, PTL

\* A command that returns leaves no proactive command of the card waiting, and
\* none fetched and unanswered, but where the TERMINAL RESPONSE was refused
\* (send_apdu_checksw).
THEOREM AllAreAnswered == Spec => []AllAnswered
<1>1. ReaderInv => AllAnswered
  BY DEF ReaderInv, ReaderType, AllAnswered, T!AllAnswered
<1>. QED  BY <1>1, ReaderInvariance, PTL

=============================================================================
