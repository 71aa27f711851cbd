-------------------------- MODULE MCProfilesProofs --------------------------
(***************************************************************************)
(* Proofs about the service tables of a card, for every length of EF.SST   *)
(* and every set of services, about the list of elements of an eSIM        *)
(* profile, for any number of calls on it, and about the bound profile     *)
(* package, for every profile, size of segment and size of block.          *)
(***************************************************************************)
EXTENDS MCProfiles, ListTheorems, TLAPS

-----------------------------------------------------------------------------
(* The service tables. *)

\* The bit of EF.SST that allocates (0) or activates (1) a service.
SstBitOf(s, bit) == <<E!SstBit(s)[1], E!SstBit(s)[2] + bit>>

\* A bit is set for the services that are wanted and for no other number.
ServiceInv ==
    /\ \A s \in Services : <<"ust", s>> \in want <=> E!UstBit(s) \in ust
    /\ \A p \in ust : \E s \in Services : p = E!UstBit(s)
    /\ \A s \in Services : \A bit \in {0, 1} : <<"sst", bit, s>> \in want <=> SstBitOf(s, bit) \in sst
    /\ \A p \in sst : p[1] < TableLen /\ \E s \in Services : \E bit \in {0, 1} : p = SstBitOf(s, bit)

\* Number and bit determine each other: in EF.UST ...
LEMMA UstBitNumber ==
    ASSUME NEW s \in Nat \ {0}
    PROVE  E!UstBit(s)[1] * 8 + E!UstBit(s)[2] + 1 = s
BY DEF E!UstBit

\* ... so no two services share a bit of EF.UST ...
LEMMA UstBitOnce ==
    ASSUME NEW s \in Nat \ {0}, NEW t \in Nat \ {0}, E!UstBit(s) = E!UstBit(t)
    PROVE  s = t
<1>1. E!UstBit(s)[1] * 8 + E!UstBit(s)[2] + 1 = s
  BY UstBitNumber
<1>2. E!UstBit(t)[1] * 8 + E!UstBit(t)[2] + 1 = t
  BY UstBitNumber
<1>. QED  BY <1>1, <1>2

\* ... and no two states of services share a bit of EF.SST.
LEMMA SstBitOnce ==
    ASSUME NEW s \in Nat \ {0}, NEW t \in Nat \ {0}, NEW a \in {0, 1}, NEW b \in {0, 1},
           SstBitOf(s, a) = SstBitOf(t, b)
    PROVE  s = t /\ a = b
<1>. DEFINE m == s - 1
            n == t - 1
<1>1. m \div 4 = n \div 4 /\ (m % 4) * 2 + a = (n % 4) * 2 + b
  BY DEF SstBitOf, E!SstBit
<1>2. m % 4 \in 0..3 /\ n % 4 \in 0..3 /\ m = 4 * (m \div 4) + (m % 4) /\ n = 4 * (n \div 4) + (n % 4)
  OBVIOUS
<1>3. m % 4 = n % 4 /\ a = b
  BY <1>1, <1>2
<1>. QED  BY <1>1, <1>2, <1>3

\* The tables start empty and nothing is wanted.
LEMMA ServiceInitial == E!Init => ServiceInv
BY DEF E!Init, ServiceInv

\* ust_update turns the bit of its service and no other bit.
LEMMA UstUpdateStep ==
    ASSUME ServiceInv, NEW s \in Services, NEW on \in BOOLEAN, E!UstUpdate(s, on)
    PROVE  ServiceInv'
<1>. DEFINE b == E!UstBit(s)
            w == <<"ust", s>>
<1>1. /\ ust' = (IF on THEN ust \union {b} ELSE ust \ {b})
      /\ want' = (IF on THEN want \union {w} ELSE want \ {w})
      /\ sst' = sst
  BY DEF E!UstUpdate
<1>2. \A t \in Services : E!UstBit(t) = b => t = s
  BY UstBitOnce, ServicesAssumption
<1>3. \A t \in Services : <<"ust", t>> = w => t = s
  OBVIOUS
<1>4. \A t \in Services : \A bit \in {0, 1} : <<"sst", bit, t>> # w
  OBVIOUS
<1>. HIDE DEF b, w
<1>5. \A t \in Services : <<"ust", t>> \in want' <=> E!UstBit(t) \in ust'
  BY <1>1, <1>2, <1>3, Zenon DEF ServiceInv, b, w
<1>6. \A p \in ust' : \E t \in Services : p = E!UstBit(t)
  BY <1>1 DEF ServiceInv, b
<1>7. \A t \in Services : \A bit \in {0, 1} : <<"sst", bit, t>> \in want' <=> <<"sst", bit, t>> \in want
  BY <1>1, <1>4
<1>. QED  BY <1>1, <1>5, <1>6, <1>7 DEF ServiceInv

\* _adjust_service turns one of the two bits of its service and no other bit,
\* and only inside the file.
LEMMA SstAdjustStep ==
    ASSUME ServiceInv, NEW s \in Services, NEW bit \in {0, 1}, NEW on \in BOOLEAN, E!SstAdjust(s, bit, on)
    PROVE  ServiceInv'
<1>. DEFINE b == SstBitOf(s, bit)
            w == <<"sst", bit, s>>
<1>1. /\ sst' = (IF on THEN sst \union {b} ELSE sst \ {b}) /\ b[1] < TableLen
      /\ want' = (IF on THEN want \union {w} ELSE want \ {w})
      /\ ust' = ust
  BY DEF E!SstAdjust, SstBitOf
<1>2. \A t \in Services : \A a \in {0, 1} : SstBitOf(t, a) = b => t = s /\ a = bit
  BY SstBitOnce, ServicesAssumption
<1>3. \A t \in Services : \A a \in {0, 1} : <<"sst", a, t>> = w => t = s /\ a = bit
  OBVIOUS
<1>4. \A t \in Services : <<"ust", t>> # w
  OBVIOUS
<1>. HIDE DEF b, w
<1>5. \A t \in Services : \A a \in {0, 1} : <<"sst", a, t>> \in want' <=> SstBitOf(t, a) \in sst'
  BY <1>1, <1>2, <1>3, Zenon DEF ServiceInv, b, w
<1>6. \A p \in sst' : p[1] < TableLen /\ \E t \in Services : \E a \in {0, 1} : p = SstBitOf(t, a)
  BY <1>1 DEF ServiceInv, b
<1>7. \A t \in Services : <<"ust", t>> \in want' <=> <<"ust", t>> \in want
  BY <1>1, <1>4
<1>. QED  BY <1>1, <1>5, <1>6, <1>7 DEF ServiceInv

\* No other step of the card touches the tables.
LEMMA ServiceStep ==
    ASSUME ServiceInv, E!Next \/ UNCHANGED card
    PROVE  ServiceInv'
<1>1. CASE UNCHANGED <<ust, sst, want>>
  BY <1>1 DEF ServiceInv
<1>2. CASE E!Add \/ E!Write \/ \E f : E!Read(f)
  BY <1>1, <1>2 DEF E!Add, E!Write, E!Read
<1>. QED  BY <1>1, <1>2, UstUpdateStep, SstAdjustStep DEF E!Next, card

\* The bits are those of the wanted services, always.
LEMMA ServiceInvariance == Spec => []ServiceInv
<1>1. Init => ServiceInv
  BY ServiceInitial DEF Init
<1>2. ServiceInv /\ [Next]_vars => ServiceInv'
  BY ServiceStep DEF Next, vars, card
<1>. QED  BY <1>1, <1>2, PTL DEF Spec

\* After any sequence of ust_update and _adjust_service, the services that the
\* decoders of EF.UST and EF.SST list are those last asked for: numbering a bit
\* when the table is written and when it is read is the same, and changing one
\* service leaves the others as they were.
THEOREM ServicesAreAsAsked == Spec => []ServicesAsAsked
<1>1. ServiceInv => E!ServicesAsAsked
  <2>. SUFFICES ASSUME ServiceInv PROVE E!ServicesAsAsked
    OBVIOUS
  <2>1. \A s \in Services : s \in Nat \ {0}
    BY ServicesAssumption
  <2>2. E!UstActive = {s \in Services : <<"ust", s>> \in want}
    <3>1. \A s \in Services : E!UstBit(s)[1] * 8 + E!UstBit(s)[2] + 1 = s
      BY <2>1, UstBitNumber
    <3>2. ASSUME NEW p \in ust
          PROVE  p[1] * 8 + p[2] + 1 \in {s \in Services : <<"ust", s>> \in want}
      BY <3>1 DEF ServiceInv
    <3>3. ASSUME NEW s \in Services, <<"ust", s>> \in want
          PROVE  \E p \in ust : s = p[1] * 8 + p[2] + 1
      BY <3>1, <3>3 DEF ServiceInv
    <3>. QED  BY <3>2, <3>3 DEF E!UstActive
  <2>3. ASSUME NEW bit \in {0, 1}
        PROVE  E!SstState(bit) = {s \in Services : <<"sst", bit, s>> \in want}
    <3>. DEFINE bitAt(i) == <<i \div 4, (i % 4) * 2 + bit>>
    <3>1. \A i \in Nat : bitAt(i) = SstBitOf(i + 1, bit)
      BY DEF SstBitOf, E!SstBit
    <3>2. ASSUME NEW i \in 0..(TableLen * 4 - 1), bitAt(i) \in sst
          PROVE  i + 1 \in Services /\ <<"sst", bit, i + 1>> \in want
      <4>1. i \in Nat /\ i + 1 \in Nat \ {0}
        BY ServicesAssumption
      <4>2. SstBitOf(i + 1, bit) \in sst
        BY <3>1, <3>2, <4>1
      <4>3. PICK s \in Services : \E a \in {0, 1} : SstBitOf(i + 1, bit) = SstBitOf(s, a)
        BY <4>2 DEF ServiceInv
      <4>4. s = i + 1
        BY <2>1, <4>1, <4>3, SstBitOnce
      <4>. QED  BY <4>2, <4>4 DEF ServiceInv
    <3>3. ASSUME NEW s \in Services, <<"sst", bit, s>> \in want
          PROVE  s - 1 \in 0..(TableLen * 4 - 1) /\ bitAt(s - 1) \in sst /\ s = (s - 1) + 1
      <4>1. s - 1 \in Nat /\ s = (s - 1) + 1
        BY <2>1
      <4>2. SstBitOf(s, bit) \in sst
        BY <3>3 DEF ServiceInv
      <4>3. bitAt(s - 1) \in sst
        BY <3>1, <4>1, <4>2
      <4>4. (s - 1) \div 4 < TableLen
        BY <4>3 DEF ServiceInv
      <4>5. s - 1 < TableLen * 4
        BY <4>1, <4>4, ServicesAssumption
      <4>. QED  BY <4>1, <4>3, <4>5, ServicesAssumption
    <3>. HIDE DEF bitAt
    <3>4. E!SstState(bit) = {i + 1 : i \in {i \in 0..(TableLen * 4 - 1) : bitAt(i) \in sst}}
      BY DEF E!SstState, bitAt
    <3>. QED  BY <3>2, <3>3, <3>4
  <2>. QED  BY <2>2, <2>3 DEF E!ServicesAsAsked
<1>2. ServiceInv => ServicesAsAsked
  BY <1>1 DEF ServicesAsAsked
<1>. QED  BY <1>2, ServiceInvariance, PTL

-----------------------------------------------------------------------------
(* What a loop keeps of a list. *)

\* Keep gives a list of the elements that are in the list and in the set: by
\* induction over the list.
LEMMA KeepKeeps ==
    ASSUME NEW V, NEW list \in Seq(V), NEW set
    PROVE  /\ S!Keep(list, set) \in Seq(V)
           /\ S!ToSet(S!Keep(list, set)) = S!ToSet(list) \cap set
<1>. DEFINE n == Len(list)
            W == Seq(V)
            One(s, x) == IF x \in set THEN Append(s, x) ELSE s
            G == [p \in W \X (1..n) |-> One(p[1], list[p[2]])]
            Body(f) == [i \in 0..n |-> IF i = 0 THEN <<>> ELSE One(f[i - 1], list[i])]
            g == CHOOSE f : f = Body(f)
<1>1. n \in Nat /\ \A i \in 1..n : list[i] \in V
  BY LenProperties, ElementOfSeq
<1>2. \A s \in W : \A x \in V : One(s, x) \in W /\ S!ToSet(One(s, x)) = S!ToSet(s) \union ({x} \cap set)
  <2>. SUFFICES ASSUME NEW s \in W, NEW x \in V
                PROVE  One(s, x) \in W /\ S!ToSet(One(s, x)) = S!ToSet(s) \union ({x} \cap set)
    OBVIOUS
  <2>. DEFINE k == Append(s, x)
  <2>1. k \in W /\ Len(k) = Len(s) + 1 /\ (\A i \in 1..Len(s) : k[i] = s[i]) /\ k[Len(s) + 1] = x
    BY AppendProperties
  <2>2. DOMAIN s = 1..Len(s) /\ DOMAIN k = 1..(Len(s) + 1) /\ Len(s) \in Nat
    BY <2>1, LenProperties
  <2>. HIDE DEF k
  <2>3. S!ToSet(k) = S!ToSet(s) \union {x}
    BY <2>1, <2>2 DEF S!ToSet
  <2>. QED  BY <2>1, <2>3 DEF k
<1>. HIDE DEF One
<1>3. G \in [W \X (1..n) -> W]
  BY <1>1, <1>2
<1>4. PICK f \in [0..n -> W] : f[0] = <<>> /\ \A i \in 1..n : f[i] = G[<<f[i - 1], i>>]
  <2>1. <<>> \in W
    OBVIOUS
  <2>2. \E f : Unfolds(f, n, W, <<>>, G)
    <3>. HIDE DEF G, W, n
    <3>. QED  BY <1>1, <1>3, <2>1, Recursion
  <2>. HIDE DEF G, W, n
  <2>. QED  BY <2>2 DEF Unfolds
<1>5. f = Body(f)
  <2>1. \A i \in 1..n : f[i] = One(f[i - 1], list[i])
    <3>1. ASSUME NEW i \in 1..n
          PROVE  G[<<f[i - 1], i>>] = One(f[i - 1], list[i])
      <4>1. f[i - 1] \in W
        BY <1>1, <1>4
      <4>. DEFINE p == <<f[i - 1], i>>
      <4>2. p \in W \X (1..n) /\ p[1] = f[i - 1] /\ p[2] = i
        BY <4>1
      <4>. HIDE DEF p
      <4>3. G[p] = One(p[1], list[p[2]])
        BY <4>2
      <4>. QED  BY <4>2, <4>3 DEF p
    <3>. HIDE DEF G
    <3>. QED  BY <1>4, <3>1
  <2>. QED  BY <1>4, <2>1
<1>6. g = Body(g)
  <2>. HIDE DEF Body
  <2>. QED  BY <1>5
<1>7. S!Keep(list, set) = g[n]
  BY DEF S!Keep, One
<1>8. g[0] = <<>> /\ \A i \in 1..n : g[i] = One(g[i - 1], list[i])
  <2>. HIDE DEF g
  <2>. QED  BY <1>1, <1>6
<1>. HIDE DEF g
<1>. DEFINE Q == {k \in Nat : k <= n => g[k] \in W /\ S!ToSet(g[k]) = {list[i] : i \in 1..k} \cap set}
<1>9. 0 \in Q
  <2>1. S!ToSet(g[0]) = {} /\ g[0] \in W
    BY <1>8 DEF S!ToSet
  <2>2. {list[i] : i \in 1..0} = {}
    OBVIOUS
  <2>. HIDE DEF W, n
  <2>. QED  BY <2>1, <2>2
<1>10. ASSUME NEW k \in Nat, k \in Q
       PROVE  k + 1 \in Q
  <2>1. CASE k + 1 <= n
    <3>1. k + 1 \in 1..n /\ k <= n /\ (k + 1) - 1 = k
      BY <1>1, <2>1
    <3>2. g[k + 1] = One(g[k], list[k + 1]) /\ list[k + 1] \in V
      BY <1>1, <1>8, <3>1
    <3>3. g[k] \in W /\ S!ToSet(g[k]) = {list[i] : i \in 1..k} \cap set
      BY <1>10, <3>1
    <3>4. g[k + 1] \in W /\ S!ToSet(g[k + 1]) = S!ToSet(g[k]) \union ({list[k + 1]} \cap set)
      <4>. HIDE DEF W, n
      <4>1. g[k] \in W /\ list[k + 1] \in V
        BY <3>2, <3>3
      <4>2. /\ One(g[k], list[k + 1]) \in W
            /\ S!ToSet(One(g[k], list[k + 1])) = S!ToSet(g[k]) \union ({list[k + 1]} \cap set)
        BY <1>2, <4>1
      <4>. QED  BY <3>2, <4>2
    <3>5. {list[i] : i \in 1..(k + 1)} = {list[i] : i \in 1..k} \union {list[k + 1]}
      <4>1. 1..(k + 1) = (1..k) \union {k + 1}
        OBVIOUS
      <4>. HIDE DEF n
      <4>. QED  BY <4>1, Zenon
    <3>6. S!ToSet(g[k + 1]) = {list[i] : i \in 1..(k + 1)} \cap set
      BY <3>3, <3>4, <3>5, Zenon
    <3>. QED  BY <3>4, <3>6
  <2>2. CASE ~(k + 1 <= n)
    BY <2>2
  <2>. QED  BY <2>1, <2>2
<1>11. n \in Q
  <2>. HIDE DEF Q
  <2>. QED  BY <1>1, <1>9, <1>10, SetInduction
<1>12. S!ToSet(list) = {list[i] : i \in 1..n}
  BY <1>1, LenProperties DEF S!ToSet
<1>. QED  BY <1>7, <1>11, <1>12

-----------------------------------------------------------------------------
(* The list of elements and its indexes. *)

\* The elements a list can have.
Names == DOMAIN S!PE

\* No two elements of a list that have a header have the same number in it.
Unique(list, num) ==
    \A m, n \in S!ToSet(list) : m # n /\ S!HasHeader(m) /\ S!HasHeader(n) => num[m] # num[n] /\ num[m] # 0

\* The index of NAAs has every element of each, in one of the instances it lists.
Covers(index, list) ==
    /\ index \in [S!Starts -> Seq(Seq(Names))]
    /\ \A naa \in S!Naas : \A n : S!Belongs(list, n, naa)
          => \E i \in DOMAIN index[naa] : n \in S!ToSet(index[naa][i])

\* What holds of the profile and of the encoding a new object is made of.
SequenceInv ==
    /\ pe_list \in Seq(Names) /\ der.list \in Seq(Names)
    /\ by_type = S!ByType(pe_list)
    /\ Covers(by_naa, pe_list)
    /\ Unique(pe_list, ident) /\ Unique(der.list, der.ident)

\* The names that the model uses are those of elements.
LEMMA NamesAre ==
    /\ S!Given \in Seq(Names)
    /\ S!Spare \subseteq Names
BY DEF Names, S!PE, S!Given, S!Spare, S!Pe

\* The applications are types of elements, and so are the others asked for.
LEMMA TypesAre ==
    /\ S!Naas \subseteq S!Types \cap S!Starts
    /\ {"rfm", "securityDomain"} \subseteq S!Types
    /\ \A n \in Names : S!Type(n) \in S!Types
<1>1. \A n \in Names : S!Type(n) \in S!Types
  BY DEF Names, S!Types, S!Type
<1>2. {"usim", "isim", "rfm", "sd"} \subseteq Names
  BY DEF Names, S!PE
<1>3. S!Type("usim") = "usim" /\ S!Type("isim") = "isim" /\ S!Type("rfm") = "rfm" /\ S!Type("sd") = "securityDomain"
  BY DEF S!Type, S!PE, S!Pe
<1>. QED  BY <1>1, <1>2, <1>3 DEF S!Naas, S!Starts

\* renumber_identification gives different numbers to different elements.
LEMMA RenumberUnique ==
    ASSUME NEW list \in Seq(Names)
    PROVE  Unique(list, S!Renumber(list))
<1>. DEFINE set == {n \in Names : S!HasHeader(n)}
            numbered == S!Keep(list, set)
            num(n) == CHOOSE i \in DOMAIN numbered : numbered[i] = n
<1>1. S!ToSet(numbered) = S!ToSet(list) \cap set
  BY KeepKeeps
<1>2. numbered \in Seq(Names)
  BY KeepKeeps
<1>. HIDE DEF numbered
<1>3. DOMAIN numbered \subseteq Nat \ {0}
  BY <1>2, LenProperties
<1>4. S!ToSet(list) \subseteq Names
  BY LenProperties, ElementOfSeq DEF S!ToSet
<1>5. ASSUME NEW n \in S!ToSet(list), S!HasHeader(n)
      PROVE  /\ S!Renumber(list)[n] = num(n)
             /\ num(n) \in Nat \ {0} /\ numbered[num(n)] = n
  <2>1. n \in S!ToSet(numbered) /\ n \in Names
    BY <1>1, <1>4, <1>5
  <2>2. S!Renumber(list)[n] = num(n)
    BY <2>1 DEF S!Renumber, numbered, Names
  <2>3. num(n) \in DOMAIN numbered /\ numbered[num(n)] = n
    BY <2>1 DEF S!ToSet
  <2>. QED  BY <1>3, <2>2, <2>3
<1>. HIDE DEF num
<1>. QED  BY <1>5 DEF Unique

\* A shorter list with the same numbers.
LEMMA UniqueBelow ==
    ASSUME NEW list, NEW less, NEW num, S!ToSet(less) \subseteq S!ToSet(list), Unique(list, num)
    PROVE  Unique(less, num)
BY DEF Unique

\* The index by type lists, for each type, the elements of it.
LEMMA ByTypeLists ==
    ASSUME NEW list \in Seq(Names), NEW t \in S!Types
    PROVE  /\ S!ByType(list)[t] \in Seq(Names)
           /\ S!ToSet(S!ByType(list)[t]) = {n \in S!ToSet(list) : S!Type(n) = t}
<1>. DEFINE set == {n \in Names : S!Type(n) = t}
<1>1. S!ByType(list)[t] = S!Keep(list, set)
  BY DEF S!ByType, Names
<1>2. S!ToSet(list) \subseteq Names
  BY LenProperties, ElementOfSeq DEF S!ToSet
<1>3. S!Keep(list, set) \in Seq(Names) /\ S!ToSet(S!Keep(list, set)) = S!ToSet(list) \cap set
  BY KeepKeeps
<1>4. S!ToSet(list) \cap set = {n \in S!ToSet(list) : S!Type(n) = t}
  BY <1>2
<1>. QED  BY <1>1, <1>3, <1>4, Zenon

\* Every element of an NAA is in an instance, which is one of those listed: the
\* one that starts with the NAA's ADF ends only where another NAA or MF starts.
LEMMA InstancesCover ==
    ASSUME NEW list \in Seq(Names), NEW naa \in S!Starts
    PROVE  /\ S!Instances(list, naa) \in Seq(Seq(Names))
           /\ \A n : S!Belongs(list, n, naa)
                 => \E g \in S!ToSet(S!Instances(list, naa)) : n \in S!ToSet(g)
<1>. DEFINE rel == S!Related(list)
            len == Len(rel)
            ends(i) == {j \in (i + 1)..(len + 1) : j = len + 1 \/ S!Type(rel[j]) \in S!Starts}
            least(i) == CHOOSE j \in ends(i) : \A k \in ends(i) : j <= k
            positions == [i \in 1..len |-> i]
            set == {i \in 1..len : S!Type(rel[i]) = naa}
            starts == S!Keep(positions, set)
            inst == [k \in DOMAIN starts |-> SubSeq(rel, starts[k], least(starts[k]) - 1)]
<1>1. S!Instances(list, naa) = inst
  BY DEF S!Instances
<1>2. /\ rel \in Seq(Names)
      /\ S!ToSet(rel) = {n \in S!ToSet(list) : S!Type(n) \notin S!Skipped}
  <2>. DEFINE kept == {n \in Names : S!Type(n) \notin S!Skipped}
  <2>1. rel = S!Keep(list, kept)
    BY DEF S!Related, Names
  <2>2. S!ToSet(list) \subseteq Names
    BY LenProperties, ElementOfSeq DEF S!ToSet
  <2>3. S!Keep(list, kept) \in Seq(Names) /\ S!ToSet(S!Keep(list, kept)) = S!ToSet(list) \cap kept
    BY KeepKeeps
  <2>4. S!ToSet(list) \cap kept = {n \in S!ToSet(list) : S!Type(n) \notin S!Skipped}
    BY <2>2
  <2>. HIDE DEF kept, rel
  <2>. QED  BY <2>1, <2>3, <2>4
<1>. HIDE DEF rel
<1>3. len \in Nat /\ DOMAIN rel = 1..len /\ \A i \in 1..len : rel[i] \in Names
  BY <1>2, LenProperties, ElementOfSeq
<1>. HIDE DEF len
<1>4. positions \in Seq(1..len) /\ Len(positions) = len
  BY <1>3, FunctionIsSeq
<1>5. S!ToSet(positions) = 1..len
  BY <1>3 DEF S!ToSet
<1>. HIDE DEF positions
<1>6. starts \in Seq(1..len) /\ S!ToSet(starts) = set
  <2>1. starts \in Seq(1..len) /\ S!ToSet(starts) = S!ToSet(positions) \cap set
    BY <1>4, KeepKeeps
  <2>. HIDE DEF starts
  <2>. QED  BY <1>5, <2>1
<1>. HIDE DEF starts
<1>7. DOMAIN starts = 1..Len(starts) /\ Len(starts) \in Nat /\ \A k \in DOMAIN starts : starts[k] \in 1..len
  BY <1>6, LenProperties, ElementOfSeq
<1>8. ASSUME NEW i \in 1..len
      PROVE  /\ least(i) \in Int /\ least(i) > i /\ least(i) <= len + 1
             /\ least(i) = len + 1 \/ S!Type(rel[least(i)]) \in S!Starts
  <2>1. len + 1 \in ends(i) /\ ends(i) \subseteq Nat
    BY <1>3
  <2>2. \E j \in ends(i) : \A k \in ends(i) : j <= k
    <3>. HIDE DEF ends
    <3>. QED  BY <2>1, LeastNumber
  <2>3. least(i) \in ends(i)
    <3>. HIDE DEF ends
    <3>. QED  BY <2>2
  <2>. HIDE DEF least
  <2>. QED  BY <1>3, <2>3
<1>. HIDE DEF least
<1>9. ASSUME NEW k \in DOMAIN starts
      PROVE  /\ inst[k] \in Seq(Names)
             /\ \A m \in starts[k]..(least(starts[k]) - 1) : rel[m] \in S!ToSet(inst[k])
  <2>. DEFINE i == starts[k]
              j == least(i) - 1
  <2>1. i \in 1..len /\ j \in Int /\ i <= j /\ j <= len
    BY <1>3, <1>7, <1>8
  <2>2. inst[k] = SubSeq(rel, i, j)
    OBVIOUS
  <2>. HIDE DEF i, j
  <2>3. \A m \in i..j : rel[m] \in Names
    BY <1>3, <2>1
  <2>. DEFINE sub == SubSeq(rel, i, j)
  <2>4. /\ sub \in Seq(Names) /\ Len(sub) = j - i + 1
        /\ \A m \in 1..(j - i + 1) : sub[m] = rel[i + m - 1]
    <3>1. /\ SubSeq(rel, i, j) \in Seq(Names)
          /\ Len(SubSeq(rel, i, j)) = (IF i <= j THEN j - i + 1 ELSE 0)
          /\ \A m \in 1..(j - i + 1) : SubSeq(rel, i, j)[m] = rel[i + m - 1]
      <4>1. i \in Int /\ j \in Int
        BY <2>1
      <4>. QED  BY <2>3, <4>1, SubSeqProperties
    <3>. HIDE DEF sub
    <3>. QED  BY <2>1, <3>1 DEF sub
  <2>. HIDE DEF sub
  <2>5. ASSUME NEW m \in i..j
        PROVE  rel[m] \in S!ToSet(sub)
    <3>. DEFINE q == m - i + 1
    <3>1. q \in 1..(j - i + 1) /\ i + q - 1 = m
      BY <2>1
    <3>2. DOMAIN sub = 1..(j - i + 1)
      BY <2>4, LenProperties
    <3>. HIDE DEF q
    <3>3. q \in DOMAIN sub /\ sub[q] = rel[m]
      BY <2>4, <3>1, <3>2
    <3>. QED  BY <3>3 DEF S!ToSet
  <2>6. \A m \in i..j : rel[m] \in S!ToSet(sub)
    BY <2>5
  <2>. QED  BY <2>2, <2>4, <2>6 DEF sub, i, j
<1>10. DOMAIN inst = DOMAIN starts
  OBVIOUS
<1>. HIDE DEF inst
<1>11. inst \in Seq(Seq(Names))
  <2>1. inst \in [1..Len(starts) -> Seq(Names)]
    <3>1. inst = [k \in DOMAIN inst |-> inst[k]]
      BY DEF inst
    <3>. QED  BY <1>7, <1>9, <1>10, <3>1
  <2>. QED  BY <1>7, <2>1, FunctionIsSeq
<1>12. ASSUME NEW n, S!Belongs(list, n, naa)
       PROVE  \E g \in S!ToSet(inst) : n \in S!ToSet(g)
  <2>1. \E i, j \in 1..len :
           /\ i <= j /\ rel[j] = n /\ S!Type(rel[i]) = naa
           /\ \A k \in (i + 1)..j : S!Type(rel[k]) \notin S!Starts
    <3>1. \E i, j \in DOMAIN rel :
             /\ i <= j /\ rel[j] = n /\ S!Type(rel[i]) = naa
             /\ \A k \in (i + 1)..j : S!Type(rel[k]) \notin S!Starts
      BY <1>12 DEF S!Belongs, rel
    <3>. QED  BY <1>3, <3>1
  <2>2. PICK i \in 1..len, j \in 1..len :
           /\ i <= j /\ rel[j] = n /\ S!Type(rel[i]) = naa
           /\ \A k \in (i + 1)..j : S!Type(rel[k]) \notin S!Starts
    BY <2>1
  <2>3. j \in i..(least(i) - 1)
    <3>1. ASSUME least(i) <= j PROVE FALSE
      <4>1. least(i) \in (i + 1)..j /\ least(i) # len + 1
        BY <1>3, <1>8, <2>2, <3>1
      <4>. QED  BY <1>8, <2>2, <4>1
    <3>. QED  BY <1>3, <1>8, <2>2, <3>1
  <2>4. PICK k \in DOMAIN starts : starts[k] = i
    <3>1. i \in S!ToSet(starts)
      BY <1>6, <2>2
    <3>. QED  BY <3>1 DEF S!ToSet
  <2>5. n \in S!ToSet(inst[k])
    BY <1>9, <2>2, <2>3, <2>4
  <2>6. inst[k] \in S!ToSet(inst)
    BY <1>10 DEF S!ToSet
  <2>. QED  BY <2>5, <2>6
<1>. QED  BY <1>1, <1>11, <1>12

\* _rebuild_pes_by_naa lists every instance of the list, whatever it listed before.
LEMMA ByNaaCovers ==
    ASSUME NEW list \in Seq(Names), NEW had \in [S!Starts -> Seq(Seq(Names))]
    PROVE  Covers(S!ByNaa(list, had), list)
<1>. DEFINE index == S!ByNaa(list, had)
<1>1. ASSUME NEW naa \in S!Starts
      PROVE  /\ index[naa] \in Seq(Seq(Names))
             /\ S!ToSet(S!Instances(list, naa)) \subseteq S!ToSet(index[naa])
  <2>. DEFINE inst == S!Instances(list, naa)
              new == S!Keep(inst, S!ToSet(inst) \ S!ToSet(had[naa]))
  <2>1. index[naa] = had[naa] \o new
    BY DEF S!ByNaa
  <2>2. inst \in Seq(Seq(Names))
    BY InstancesCover
  <2>. HIDE DEF inst
  <2>3. new \in Seq(Seq(Names)) /\ S!ToSet(new) = S!ToSet(inst) \cap (S!ToSet(inst) \ S!ToSet(had[naa]))
    BY <2>2, KeepKeeps
  <2>. HIDE DEF new, index
  <2>. DEFINE old == had[naa]
  <2>4. old \in Seq(Seq(Names))
    OBVIOUS
  <2>. HIDE DEF old
  <2>5. /\ old \o new \in Seq(Seq(Names)) /\ Len(old \o new) = Len(old) + Len(new)
        /\ \A i \in 1..(Len(old) + Len(new)) :
              (old \o new)[i] = IF i <= Len(old) THEN old[i] ELSE new[i - Len(old)]
    BY <2>3, <2>4, ConcatProperties
  <2>6. /\ DOMAIN old = 1..Len(old) /\ Len(old) \in Nat
        /\ DOMAIN new = 1..Len(new) /\ Len(new) \in Nat
        /\ DOMAIN (old \o new) = 1..(Len(old) + Len(new))
    BY <2>3, <2>4, <2>5, LenProperties
  <2>7. S!ToSet(old) \subseteq S!ToSet(old \o new)
    <3>1. ASSUME NEW i \in DOMAIN old PROVE i \in DOMAIN (old \o new) /\ (old \o new)[i] = old[i]
      BY <2>5, <2>6
    <3>. QED  BY <3>1, Zenon DEF S!ToSet
  <2>8. S!ToSet(new) \subseteq S!ToSet(old \o new)
    <3>1. ASSUME NEW i \in DOMAIN new
          PROVE  \E j \in DOMAIN (old \o new) : (old \o new)[j] = new[i]
      <4>1. Len(old) + i \in DOMAIN (old \o new) /\ ~(Len(old) + i <= Len(old)) /\ (Len(old) + i) - Len(old) = i
        BY <2>6
      <4>2. (old \o new)[Len(old) + i] = new[i]
        BY <2>5, <2>6, <4>1
      <4>. QED  BY <4>1, <4>2
    <3>. QED  BY <3>1, Zenon DEF S!ToSet
  <2>. QED  BY <2>1, <2>3, <2>5, <2>7, <2>8 DEF old, inst
<1>2. index \in [S!Starts -> Seq(Seq(Names))]
  <2>1. index = [naa \in S!Starts |-> index[naa]]
    BY DEF S!ByNaa
  <2>. HIDE DEF index
  <2>. QED  BY <1>1, <2>1
<1>3. ASSUME NEW naa \in S!Naas, NEW n, S!Belongs(list, n, naa)
      PROVE  \E i \in DOMAIN index[naa] : n \in S!ToSet(index[naa][i])
  <2>1. naa \in S!Starts
    BY TypesAre
  <2>2. PICK g \in S!ToSet(S!Instances(list, naa)) : n \in S!ToSet(g)
    BY <1>3, <2>1, InstancesCover
  <2>. HIDE DEF index
  <2>3. g \in S!ToSet(index[naa])
    BY <1>1, <2>1, <2>2
  <2>. QED  BY <2>2, <2>3 DEF S!ToSet
<1>. HIDE DEF index
<1>4. Covers(index, list)
  BY <1>2, <1>3 DEF Covers
<1>. QED  BY <1>4 DEF index

\* The profile that is loaded first.
LEMMA SequenceInitial == S!Init => SequenceInv
<1>. SUFFICES ASSUME S!Init PROVE SequenceInv
  OBVIOUS
<1>1. pe_list = S!Given /\ der.list = S!Given /\ der.ident = ident /\ ident = S!NumberOf(S!Given)
  BY DEF S!Init
<1>2. S!Given \in Seq(Names)
  BY NamesAre
<1>3. Covers(by_naa, pe_list)
  <2>1. S!NoNaa \in [S!Starts -> Seq(Seq(Names))]
    BY DEF S!NoNaa
  <2>. QED  BY <1>1, <1>2, <2>1, ByNaaCovers DEF S!Init
<1>4. Unique(S!Given, ident)
  <2>. DEFINE list == S!Given
              num(n) == CHOOSE i \in DOMAIN list : list[i] = n
  <2>1. DOMAIN list \subseteq Nat \ {0} /\ S!ToSet(list) \subseteq Names
    BY <1>2, LenProperties, ElementOfSeq DEF S!ToSet
  <2>. HIDE DEF list
  <2>2. ASSUME NEW n \in S!ToSet(list), S!HasHeader(n)
        PROVE  ident[n] = num(n) /\ num(n) \in Nat \ {0} /\ list[num(n)] = n
    <3>1. ident[n] = num(n)
      BY <1>1, <2>1, <2>2 DEF S!NumberOf, list, Names
    <3>2. num(n) \in DOMAIN list /\ list[num(n)] = n
      BY DEF S!ToSet
    <3>. QED  BY <2>1, <3>1, <3>2
  <2>. HIDE DEF num
  <2>. QED  BY <2>2 DEF Unique, list
<1>. QED  BY <1>1, <1>2, <1>3, <1>4 DEF SequenceInv, S!Init

\* insert_at_index keeps a list a list, and numbers it again.
LEMMA InsertStep ==
    ASSUME SequenceInv, NEW i \in 0..Len(pe_list), NEW n \in Names, S!InsertPe(i, n)
    PROVE  SequenceInv'
<1>. DEFINE left == SubSeq(pe_list, 1, i)
            right == SubSeq(pe_list, i + 1, Len(pe_list))
<1>1. /\ pe_list' = left \o <<n>> \o right
      /\ by_type' = S!ByType(pe_list') /\ by_naa' = S!ByNaa(pe_list', by_naa)
      /\ ident' = S!Renumber(pe_list')
      /\ der' = der
  BY DEF S!InsertPe, S!ProcessPeList, S!content
<1>2. Len(pe_list) \in Nat /\ \A j \in 1..Len(pe_list) : pe_list[j] \in Names
  BY LenProperties, ElementOfSeq DEF SequenceInv
<1>3. left \in Seq(Names)
  <2>1. \A j \in 1..i : pe_list[j] \in Names
    BY <1>2
  <2>. QED  BY <2>1, SubSeqProperties
<1>4. right \in Seq(Names)
  <2>1. (\A j \in (i + 1)..Len(pe_list) : pe_list[j] \in Names) /\ i + 1 \in Int /\ Len(pe_list) \in Int
    BY <1>2
  <2>. QED  BY <2>1, SubSeqProperties
<1>. HIDE DEF left, right
<1>5. pe_list' \in Seq(Names)
  BY <1>1, <1>3, <1>4
<1>6. by_naa \in [S!Starts -> Seq(Seq(Names))]
  BY DEF SequenceInv, Covers
<1>. DEFINE list == pe_list'
<1>7. list \in Seq(Names) /\ ident' = S!Renumber(list) /\ by_naa' = S!ByNaa(list, by_naa)
  BY <1>1, <1>5
<1>8. Unique(list, S!Renumber(list)) /\ Covers(S!ByNaa(list, by_naa), list)
  <2>. HIDE DEF list
  <2>. QED  BY <1>6, <1>7, RenumberUnique, ByNaaCovers
<1>9. Unique(pe_list, ident)' /\ Covers(by_naa, pe_list)'
  BY <1>7, <1>8
<1>10. Unique(der.list, der.ident)'
  BY <1>1 DEF SequenceInv, Unique
<1>. QED  BY <1>1, <1>5, <1>9, <1>10 DEF SequenceInv

\* So do the calls that insert an element, which all find a place in the list.
LEMMA InsertsStep ==
    ASSUME SequenceInv,
           \/ \E n \in S!Spare : S!AppendPe(n) \/ \E b \in S!ToSet(pe_list) : S!InsertAfterPe(b, n)
           \/ S!AddSsd \/ S!AddApp
    PROVE  SequenceInv'
<1>1. Len(pe_list) \in Nat /\ DOMAIN pe_list = 1..Len(pe_list)
  BY LenProperties DEF SequenceInv
<1>. DEFINE at1(b) == CHOOSE i \in DOMAIN pe_list : pe_list[i] = b
<1>2. ASSUME NEW b \in S!ToSet(pe_list) PROVE at1(b) \in 0..Len(pe_list)
  <2>1. at1(b) \in DOMAIN pe_list
    BY DEF S!ToSet
  <2>. HIDE DEF at1
  <2>. QED  BY <1>1, <2>1
<1>3. S!Spare \subseteq Names
  BY NamesAre
<1>4. ASSUME NEW n \in S!Spare, S!AppendPe(n) PROVE SequenceInv'
  <2>1. S!InsertPe(Len(pe_list), n) /\ Len(pe_list) \in 0..Len(pe_list)
    BY <1>1, <1>4 DEF S!AppendPe
  <2>. QED  BY <1>3, <2>1, InsertStep
<1>5. ASSUME NEW n \in S!Spare, NEW b \in S!ToSet(pe_list), S!InsertAfterPe(b, n) PROVE SequenceInv'
  <2>1. S!InsertPe(at1(b), n)
    BY <1>5 DEF S!InsertAfterPe
  <2>. HIDE DEF at1
  <2>. QED  BY <1>2, <1>3, <2>1, InsertStep
<1>6. CASE S!AddSsd \/ S!AddApp
  <2>. DEFINE sds == by_type["securityDomain"]
  <2>1. sds \in Seq(Names) /\ S!ToSet(sds) \subseteq S!ToSet(pe_list)
    BY TypesAre, ByTypeLists DEF SequenceInv
  <2>2. sds # <<>>
    BY <1>6, <2>1 DEF S!AddSsd, S!AddApp
  <2>3. PICK n \in Names : S!InsertPe(at1(sds[1]), n)
    <3>1. "ssd" \in Names /\ "app" \in Names
      BY <1>3 DEF S!Spare
    <3>. QED  BY <1>6, <3>1 DEF S!AddSsd, S!AddApp
  <2>. HIDE DEF sds
  <2>4. sds[1] \in S!ToSet(pe_list)
    <3>1. 1 \in DOMAIN sds
      BY <2>1, <2>2, EmptySeq, LenProperties
    <3>. QED  BY <2>1, <3>1 DEF S!ToSet
  <2>. HIDE DEF at1
  <2>. QED  BY <1>2, <2>3, <2>4, InsertStep
<1>. QED  BY <1>4, <1>5, <1>6

\* A call that only takes elements out leaves the numbers of the others.
LEMMA RemoveStep ==
    ASSUME SequenceInv, NEW set, pe_list' = S!Keep(pe_list, set), S!ProcessPeList(pe_list'),
           UNCHANGED <<ident, der>>
    PROVE  SequenceInv'
<1>. DEFINE list == S!Keep(pe_list, set)
<1>1. list \in Seq(Names) /\ S!ToSet(list) \subseteq S!ToSet(pe_list)
  BY KeepKeeps DEF SequenceInv
<1>. HIDE DEF list
<1>2. pe_list' = list /\ by_type' = S!ByType(list) /\ by_naa' = S!ByNaa(list, by_naa)
  BY DEF S!ProcessPeList, list
<1>3. Unique(list, ident)
  BY <1>1, UniqueBelow DEF SequenceInv
<1>4. Covers(S!ByNaa(list, by_naa), list)
  BY <1>1, ByNaaCovers DEF SequenceInv, Covers
<1>5. Unique(pe_list, ident)' /\ Covers(by_naa, pe_list)'
  BY <1>2, <1>3, <1>4
<1>6. Unique(der.list, der.ident)'
  BY DEF SequenceInv, Unique
<1>. QED  BY <1>1, <1>2, <1>5, <1>6 DEF SequenceInv

\* from_der of what to_der gave: the indexes of a new object are built afresh.
LEMMA ParseStep ==
    ASSUME SequenceInv, S!Parse
    PROVE  SequenceInv'
<1>. DEFINE list == der.list
            num == der.ident
<1>1. /\ pe_list' = list /\ ident' = num /\ der' = der
      /\ by_type' = S!ByType(list) /\ by_naa' = S!ByNaa(list, S!NoNaa)
  BY DEF S!Parse
<1>2. list \in Seq(Names) /\ Unique(list, num)
  BY DEF SequenceInv
<1>. HIDE DEF list, num
<1>3. Covers(S!ByNaa(list, S!NoNaa), list)
  <2>1. S!NoNaa \in [S!Starts -> Seq(Seq(Names))]
    BY DEF S!NoNaa
  <2>. QED  BY <1>2, <2>1, ByNaaCovers
<1>4. Unique(pe_list, ident)' /\ Covers(by_naa, pe_list)'
  BY <1>1, <1>2, <1>3
<1>5. der'.list \in Seq(Names) /\ Unique(der.list, der.ident)'
  BY <1>1, <1>2 DEF list, num
<1>. QED  BY <1>1, <1>2, <1>4, <1>5 DEF SequenceInv

\* Every call keeps the list, its numbers and its indexes together.
LEMMA SequenceStep ==
    ASSUME SequenceInv, S!Next \/ UNCHANGED sequence
    PROVE  SequenceInv'
<1>1. CASE UNCHANGED <<pe_list, by_type, by_naa, ident, der>>
  BY <1>1 DEF SequenceInv, Unique, Covers
<1>2. CASE \/ \E n \in S!Spare : S!AppendPe(n) \/ \E b \in S!ToSet(pe_list) : S!InsertAfterPe(b, n)
           \/ S!AddSsd \/ S!AddApp
  BY <1>2, InsertsStep
<1>3. ASSUME NEW id, NEW type, S!RemovePe(id, type) PROVE SequenceInv'
  <2>1. UNCHANGED <<ident, der>> /\ S!ProcessPeList(pe_list')
        /\ \E set : pe_list' = S!Keep(pe_list, set)
    BY <1>3 DEF S!RemovePe, S!content
  <2>. QED  BY <2>1, RemoveStep
<1>4. ASSUME NEW naa \in S!Naas, S!RemoveNaa(naa) PROVE SequenceInv'
  <2>1. UNCHANGED <<ident, der>>
    BY <1>4 DEF S!RemoveNaa, S!content
  <2>2. CASE gfste # {}
    BY <1>1, <1>4, <2>1, <2>2 DEF S!RemoveNaa
  <2>3. CASE gfste = {}
    <3>1. S!ProcessPeList(pe_list') /\ \E set : pe_list' = S!Keep(pe_list, set)
      BY <1>4, <2>3 DEF S!RemoveNaa
    <3>. QED  BY <2>1, <3>1, RemoveStep
  <2>. QED  BY <2>2, <2>3
<1>5. CASE S!Encode
  <2>1. UNCHANGED <<pe_list, by_type, by_naa, ident>> /\ der'.list = pe_list /\ der'.ident = ident
    BY <1>5 DEF S!Encode, S!Snapshot
  <2>2. Unique(der.list, der.ident)'
    BY <2>1 DEF SequenceInv, Unique
  <2>. QED  BY <2>1, <2>2 DEF SequenceInv, Unique, Covers
<1>6. CASE S!Parse
  BY <1>6, ParseStep
<1>7. CASE \/ \E s \in {"mbms"}, add \in BOOLEAN : S!EditServices(s, add)
           \/ S!RebuildServices \/ S!RebuildGfste
  BY <1>1, <1>7 DEF S!EditServices, S!RebuildServices, S!RebuildGfste, S!content
<1>8. CASE \/ \E k \in Keys, v \in Values : S!AddKey(k, v) \/ S!SdKey(k, v)
           \/ \E k \in Keys : S!RemoveKey(k)
  BY <1>1, <1>8 DEF S!AddKey, S!SdKey, S!RemoveKey, S!Same
<1>9. CASE \E v \in Values : S!Personalize(v)
  <2>1. \A where, v : S!Apply(where, v) => S!Same
    BY DEF S!Apply
  <2>2. S!Same
    BY <1>9, <2>1 DEF S!Personalize
  <2>. QED  BY <1>1, <2>2 DEF S!Same
<1>. QED  BY <1>1, <1>2, <1>3, <1>4, <1>5, <1>6, <1>7, <1>8, <1>9 DEF S!Next, sequence

\* List, numbers and indexes belong together, always.
LEMMA SequenceInvariance == Spec => []SequenceInv
<1>1. Init => SequenceInv
  BY SequenceInitial DEF Init
<1>2. SequenceInv /\ [Next]_vars => SequenceInv'
  BY SequenceStep DEF Next, vars, sequence
<1>. QED  BY <1>1, <1>2, PTL DEF Spec

\* After any calls on a profile, however many and however long it has become, no
\* two elements share a number and pe_by_type lists exactly the elements of the
\* profile in their order (renumber_identification, _process_pelist).  What is
\* parsed again has been numbered before it was written.
THEOREM NumbersAndIndexesAgree == Spec => []IndexesAgree
<1>1. SequenceInv => IndexesAgree
  BY DEF SequenceInv, Unique, IndexesAgree, S!IndexesAgree
<1>. QED  BY <1>1, SequenceInvariance, PTL

\* What is listed for the NAA goes, all that belongs to it, and what names its ADF.
LEMMA RemoveNaaRemoves ==
    ASSUME SequenceInv, NEW naa \in S!Naas, S!RemoveNaa(naa), gfste = {}, NEW n \in S!ToSet(pe_list')
    PROVE  /\ ~S!Belongs(pe_list, n, naa)
           /\ S!Type(n) = "rfm" => \A m \in S!ToSet(pe_list) : S!Type(m) = naa => S!PE[m].aid # S!PE[n].aid
<1>. DEFINE gone == S!Gone(naa)
            rfms == {r \in S!ToSet(by_type["rfm"]) : S!PE[r].aid \in S!AdfNames(naa)}
            set == Names \ (gone \union rfms)
<1>1. pe_list' = S!Keep(pe_list, set)
  BY DEF S!RemoveNaa, Names
<1>2. n \in S!ToSet(pe_list) /\ n \notin gone /\ n \notin rfms
  <2>1. S!ToSet(S!Keep(pe_list, set)) = S!ToSet(pe_list) \cap set
    BY KeepKeeps DEF SequenceInv
  <2>. HIDE DEF gone, rfms
  <2>. QED  BY <1>1, <2>1
<1>3. ~S!Belongs(pe_list, n, naa)
  BY <1>2 DEF SequenceInv, Covers, S!Gone
<1>4. ASSUME S!Type(n) = "rfm", NEW m \in S!ToSet(pe_list), S!Type(m) = naa
      PROVE  S!PE[m].aid # S!PE[n].aid
  <2>1. /\ S!ToSet(by_type["rfm"]) = {x \in S!ToSet(pe_list) : S!Type(x) = "rfm"}
        /\ S!ToSet(by_type[naa]) = {x \in S!ToSet(pe_list) : S!Type(x) = naa}
    BY TypesAre, ByTypeLists DEF SequenceInv
  <2>2. n \in S!ToSet(by_type["rfm"]) /\ m \in S!ToSet(by_type[naa])
    BY <1>2, <1>4, <2>1
  <2>3. S!PE[m].aid \in S!AdfNames(naa)
    BY <2>2 DEF S!AdfNames
  <2>4. S!PE[n].aid \notin S!AdfNames(naa)
    BY <1>2, <2>2
  <2>. QED  BY <2>3, <2>4
<1>. QED  BY <1>3, <1>4

\* remove_naas_of_type leaves none of the elements the NAA had, from its ADF to the
\* last before the next NAA or MF, and no remote file management of its ADF, after
\* any insertions and removals: pes_by_naa is never emptied (its reset names another
\* member), but what it lists includes every instance there is.
THEOREM NaasGoWhole == Spec => NaaGone
<1>. DEFINE Removed == \A naa \in S!Naas : S!RemoveNaa(naa) /\ gfste = {}
                         => \A n \in S!ToSet(pe_list') :
                              /\ ~S!Belongs(pe_list, n, naa)
                              /\ S!Type(n) = "rfm" => \A m \in S!ToSet(pe_list) : S!Type(m) = naa
                                                                     => S!PE[m].aid # S!PE[n].aid
<1>1. SequenceInv => Removed
  BY RemoveNaaRemoves
<1>2. []SequenceInv => [][Removed]_S!vars
  BY <1>1, PTL
<1>3. [][Removed]_S!vars => NaaGone
  BY DEF NaaGone, S!NaaGone
<1>. QED  BY <1>2, <1>3, SequenceInvariance

-----------------------------------------------------------------------------
(* The bound profile package: data, segments and the two ends. *)

\* What is protected, what a segment carries, what a chaining value is made of.
Texts == Seq(B!Octets)
Payloads == [key : {"none", "session", "ppk"}, nr : Nat, text : Texts]
Links == [key : {"session", "ppk"}, tag : Nat, len : Nat, val : Payloads]
Segments == [tag : Nat, val : Payloads, mac : Seq(Links)]
BspInstances == [s : {"session", "ppk"}, nr : Nat, chain : Seq(Links)]

\* The octets of the first i pieces.
Beginning(d, i) == SubSeq(d, 1, IF i * B!MaxPayload < Len(d) THEN i * B!MaxPayload ELSE Len(d))

\* As many pieces as it takes, and no more.
LEMMA CutsCut ==
    ASSUME NEW x \in Nat
    PROVE  /\ B!MaxPayload \in Nat \ {0}
           /\ B!Cuts(x) \in Nat /\ B!Cuts(x) * B!MaxPayload >= x /\ B!Cuts(x) * B!MaxPayload < x + B!MaxPayload
<1>1. B!MaxPayload \in Nat \ {0}
  BY BspAssumption DEF B!MaxPayload
<1>. DEFINE m == B!MaxPayload
<1>. HIDE DEF m
<1>2. m \in Nat \ {0}
  BY <1>1 DEF m
<1>. DEFINE n == (x + m - 1) \div m
<1>3. n \in Nat /\ n * m >= x /\ n * m < x + m
  BY <1>2
<1>4. B!Cuts(x) = n
  BY DEF B!Cuts, m
<1>. HIDE DEF n
<1>5. B!Cuts(x) \in Nat /\ B!Cuts(x) * m >= x /\ B!Cuts(x) * m < x + m
  BY <1>3, <1>4
<1>. QED  BY <1>1, <1>5 DEF m

\* The pieces before the last are full.
LEMMA BeforeLast ==
    ASSUME NEW x \in Nat, NEW i \in Nat, i < B!Cuts(x)
    PROVE  i * B!MaxPayload \in Nat /\ i * B!MaxPayload < x
<1>. DEFINE m == B!MaxPayload
            n == B!Cuts(x)
<1>1. m \in Nat \ {0} /\ n \in Nat /\ n * m < x + m
  BY CutsCut
<1>2. i < n
  OBVIOUS
<1>. HIDE DEF m, n
<1>3. i * m + m <= n * m
  <2>1. n - i - 1 \in Nat
    BY <1>1, <1>2
  <2>2. n * m = i * m + m + (n - i - 1) * m
    BY <1>1
  <2>3. (n - i - 1) * m \in Nat
    BY <1>1, <2>1
  <2>4. i * m \in Nat /\ n * m \in Nat
    BY <1>1
  <2>. DEFINE u == (n - i - 1) * m
              v == i * m
              w == n * m
  <2>. HIDE DEF u, v, w
  <2>5. w = v + m + u /\ u \in Nat /\ v \in Nat /\ w \in Nat
    BY <2>2, <2>3, <2>4 DEF u, v, w
  <2>6. v + m <= w
    BY <1>1, <2>5
  <2>. QED  BY <2>6 DEF v, w
<1>. DEFINE v == i * m
            w == n * m
<1>4. v \in Nat /\ w \in Nat /\ v + m <= w /\ w < x + m
  BY <1>1, <1>3
<1>. HIDE DEF v, w
<1>5. v \in Nat /\ v < x
  BY <1>1, <1>4
<1>. QED  BY <1>5 DEF v, m

\* _unpad takes off what _pad_to_multiple has put on.
LEMMA UnpadPad ==
    ASSUME NEW d \in Texts
    PROVE  /\ B!Pad(d) \in Texts
           /\ B!Unpad(B!Pad(d)) = [ok |-> TRUE, val |-> d]
<1>. DEFINE k == (Block - ((Len(d) + 1) % Block)) % Block
            z == B!Zeros(k)
            p == B!Pad(d)
<1>1. k \in Nat /\ Len(d) \in Nat
  BY BspAssumption, LenProperties DEF Texts
<1>2. p = d \o <<128>> \o z
  BY DEF B!Pad
<1>3. z \in Texts /\ Len(z) = k /\ \A i \in 1..k : z[i] = 0
  <2>. HIDE DEF k
  <2>1. z \in [1..k -> B!Octets] /\ \A i \in 1..k : z[i] = 0
    BY DEF B!Zeros, B!Octets
  <2>. HIDE DEF z
  <2>. QED  BY <1>1, <2>1, FunctionIsSeq DEF Texts
<1>. HIDE DEF k, z, p
<1>4. <<128>> \in Texts /\ Len(<<128>>) = 1
  BY DEF Texts, B!Octets
<1>. DEFINE c == d \o <<128>>
<1>5. c \in Texts /\ Len(c) = Len(d) + 1 /\ (\A i \in 1..Len(d) : c[i] = d[i]) /\ c[Len(d) + 1] = 128
  BY <1>1, <1>4 DEF Texts
<1>. HIDE DEF c
<1>6. /\ p \in Texts /\ Len(p) = Len(d) + 1 + k
      /\ \A i \in 1..(Len(d) + 1) : p[i] = c[i]
      /\ \A i \in (Len(d) + 2)..Len(p) : p[i] = 0
  <2>1. p = c \o z
    BY <1>2 DEF c
  <2>2. /\ c \o z \in Texts /\ Len(c \o z) = Len(c) + Len(z)
        /\ \A i \in 1..(Len(c) + Len(z)) : (c \o z)[i] = IF i <= Len(c) THEN c[i] ELSE z[i - Len(c)]
    <3>1. c \in Seq(B!Octets) /\ z \in Seq(B!Octets)
      BY <1>3, <1>5 DEF Texts
    <3>2. /\ c \o z \in Seq(B!Octets) /\ Len(c \o z) = Len(c) + Len(z)
          /\ \A i \in 1..(Len(c) + Len(z)) : (c \o z)[i] = IF i <= Len(c) THEN c[i] ELSE z[i - Len(c)]
      BY <3>1, ConcatProperties
    <3>. QED  BY <3>2 DEF Texts
  <2>3. /\ p \in Texts /\ Len(p) = Len(d) + 1 + k
        /\ \A i \in 1..(Len(d) + 1 + k) : p[i] = IF i <= Len(d) + 1 THEN c[i] ELSE z[i - (Len(d) + 1)]
    BY <1>3, <1>5, <2>1, <2>2
  <2>4. ASSUME NEW i \in (Len(d) + 2)..Len(p) PROVE p[i] = 0
    <3>1. i - (Len(d) + 1) \in 1..k /\ i \in 1..(Len(d) + 1 + k) /\ ~(i <= Len(d) + 1)
      BY <1>1, <2>3
    <3>. QED  BY <1>3, <2>3, <3>1
  <2>. QED  BY <1>1, <2>3, <2>4
<1>. DEFINE I == {i \in 1..Len(p) : p[i] # 0}
            last1 == B!SelectLastInSeq(p, LAMBDA x : x # 0)
<1>7. Len(d) + 1 \in I /\ \A i \in I : i <= Len(d) + 1
  BY <1>1, <1>5, <1>6
<1>8. last1 = Len(d) + 1
  <2>1. last1 = IF I # {} THEN B!Max(I) ELSE 0
    BY DEF B!SelectLastInSeq
  <2>2. \A i \in I : i \in Int
    BY <1>6
  <2>3. B!Max(I) = Len(d) + 1
    <3>. HIDE DEF I
    <3>1. \A x \in I : (\A y \in I : x >= y) => x = Len(d) + 1
      BY <1>1, <1>7, <2>2
    <3>2. \A y \in I : Len(d) + 1 >= y
      BY <1>1, <1>7, <2>2
    <3>. QED  BY <1>7, <3>1, <3>2 DEF B!Max
  <2>. QED  BY <1>7, <2>1, <2>3
<1>. HIDE DEF I
<1>9. SubSeq(p, 1, Len(d)) = d
  <2>. DEFINE s == SubSeq(p, 1, Len(d))
  <2>1. \A i \in 1..Len(d) : p[i] \in B!Octets /\ p[i] = d[i]
    BY <1>1, <1>5, <1>6, ElementOfSeq DEF Texts
  <2>2. s \in Seq(B!Octets) /\ Len(s) = Len(d) /\ \A i \in 1..Len(d) : s[i] = d[i]
    BY <1>1, <2>1, SubSeqProperties
  <2>. HIDE DEF s
  <2>. QED  BY <2>2, SeqEqual DEF Texts, s
<1>10. p[Len(d) + 1] = 128 /\ Len(d) + 1 # 0 /\ (Len(d) + 1) - 1 = Len(d)
  BY <1>1, <1>5, <1>6
<1>11. B!Unpad(p) = IF last1 = 0 \/ p[last1] # 128 THEN [ok |-> FALSE, val |-> p]
                    ELSE [ok |-> TRUE, val |-> SubSeq(p, 1, last1 - 1)]
  BY DEF B!Unpad
<1>. HIDE DEF last1
<1>12. B!Unpad(p) = [ok |-> TRUE, val |-> d]
  BY <1>8, <1>9, <1>10, <1>11
<1>. QED  BY <1>6, <1>12 DEF p


\* One piece goes on where the ones before it end.
LEMMA Pieces ==
    ASSUME NEW d \in Texts, NEW i \in 1..B!Cuts(Len(d))
    PROVE  /\ B!Piece(d, i) \in Texts
           /\ Beginning(d, i - 1) \o B!Piece(d, i) = Beginning(d, i)
<1>. DEFINE m == B!MaxPayload
            x == Len(d)
            lo == (i - 1) * m
            hi == i * m
            to == IF hi < x THEN hi ELSE x
<1>1. x \in Nat /\ \A j \in 1..x : d[j] \in B!Octets
  BY LenProperties, ElementOfSeq DEF Texts
<1>2. m \in Nat \ {0} /\ i \in Nat /\ i - 1 \in Nat /\ i - 1 < B!Cuts(x)
  <2>. HIDE DEF m, x
  <2>1. B!Cuts(x) \in Nat
    BY <1>1, CutsCut
  <2>. QED  BY <1>1, <2>1, CutsCut DEF m, x
<1>3. lo \in Nat /\ lo < x
  <2>. HIDE DEF x
  <2>. QED  BY <1>1, <1>2, BeforeLast
<1>4. hi = lo + m /\ hi \in Nat
  <2>. HIDE DEF m
  <2>. QED  BY <1>2
<1>5. B!Piece(d, i) = SubSeq(d, lo + 1, to) /\ Beginning(d, i) = SubSeq(d, 1, to) /\ Beginning(d, i - 1) = SubSeq(d, 1, lo)
  BY <1>3 DEF B!Piece, Beginning
<1>6. to \in Nat /\ lo < to /\ to <= x
  <2>. HIDE DEF m, x, lo, hi
  <2>. QED  BY <1>1, <1>2, <1>3, <1>4
<1>. HIDE DEF m, x, lo, hi, to
<1>7. SubSeq(d, lo + 1, to) \in Texts
  <2>1. (\A j \in (lo + 1)..to : d[j] \in B!Octets) /\ lo + 1 \in Int /\ to \in Int
    BY <1>1, <1>3, <1>6
  <2>. QED  BY <2>1, SubSeqProperties DEF Texts
<1>8. SubSeq(d, 1, lo) \o SubSeq(d, lo + 1, to) = SubSeq(d, 1, to)
  <2>1. 1 \in 1..(Len(d) + 1) /\ lo \in (1 - 1)..Len(d) /\ to \in lo..Len(d)
    BY <1>1, <1>3, <1>6 DEF x
  <2>. QED  BY <2>1, ConcatAdjacentSubSeq DEF Texts
<1>. QED  BY <1>5, <1>7, <1>8

\* What the first pieces give is a beginning of the data, and the data once the
\* last piece is there, not before.
LEMMA Beginnings ==
    ASSUME NEW d \in Texts, NEW i \in 0..B!Cuts(Len(d))
    PROVE  /\ Beginning(d, i) \in Texts
           /\ B!IsPrefix(Beginning(d, i), d)
           /\ Beginning(d, 0) = <<>>
           /\ Beginning(d, i) = d <=> i = B!Cuts(Len(d))
<1>. DEFINE m == B!MaxPayload
            x == Len(d)
            n == B!Cuts(x)
            to == IF i * m < x THEN i * m ELSE x
<1>1. x \in Nat /\ \A j \in 1..x : d[j] \in B!Octets
  BY LenProperties, ElementOfSeq DEF Texts
<1>2. m \in Nat \ {0} /\ n \in Nat /\ n * m >= x /\ i \in Nat /\ i <= n
  <2>. HIDE DEF x
  <2>1. m \in Nat \ {0} /\ n \in Nat /\ n * m >= x
    BY <1>1, CutsCut
  <2>. QED  BY <2>1 DEF x
<1>3. i < n => i * m \in Nat /\ i * m < x
  <2>. HIDE DEF x
  <2>. QED  BY <1>1, <1>2, BeforeLast
<1>4. /\ to \in Nat /\ to <= x
      /\ i < n => to # x
      /\ i = n => to = x
  <2>. HIDE DEF m, x, n
  <2>1. CASE i < n
    BY <1>1, <1>3, <2>1
  <2>2. CASE i = n
    BY <1>1, <1>2, <2>2
  <2>. QED  BY <1>2, <2>1, <2>2
<1>5. Beginning(d, i) = SubSeq(d, 1, to)
  BY DEF Beginning
<1>6. Beginning(d, 0) = <<>>
  <2>1. 0 * m = 0
    <3>. HIDE DEF m
    <3>. QED  BY <1>2
  <2>2. Beginning(d, 0) = SubSeq(d, 1, 0)
    <3>. DEFINE y == 0 * m
    <3>1. Beginning(d, 0) = SubSeq(d, 1, IF y < Len(d) THEN y ELSE Len(d)) /\ y = 0
      BY <2>1 DEF Beginning
    <3>. HIDE DEF y
    <3>. QED  BY <1>1, <3>1
  <2>. QED  BY <2>2, SubSeqEmpty
<1>. HIDE DEF m, x, n, to
<1>. DEFINE a == SubSeq(d, 1, to)
<1>7. /\ a \in Texts /\ Len(a) = to
      /\ \A j \in 1..to : a[j] = d[j]
  <2>1. \A j \in 1..to : d[j] \in B!Octets
    BY <1>1, <1>4
  <2>. QED  BY <1>4, <2>1, SubSeqProperties DEF Texts
<1>8. to = x => a = d
  BY SubSeqFull DEF x, Texts
<1>9. B!IsPrefix(a, d)
  <2>1. SubSeq(a, 1, Len(a)) = a
    <3>. HIDE DEF a
    <3>. QED  BY <1>7, SubSeqFull DEF Texts
  <2>2. SubSeq(d, 1, Len(a)) = a
    BY <1>7
  <2>. QED  BY <1>4, <1>7, <2>1, <2>2 DEF B!IsPrefix, x
<1>. HIDE DEF a
<1>10. a = d <=> to = x
  BY <1>7, <1>8 DEF x
<1>11. Beginning(d, i) = a
  BY <1>5 DEF a
<1>12. a = d <=> i = n
  BY <1>2, <1>4, <1>10
<1>. QED  BY <1>6, <1>7, <1>9, <1>11, <1>12 DEF n, x


\* The tags of segments: encrypted ones and, 88, those with a MAC only.
SegmentTags == {86, 87, 88}

\* The instance after i segments of out, if it was b before: the chaining value is
\* the last MAC.
After(b, out, i) == IF i = 0 THEN b ELSE [s |-> b.s, nr |-> b.nr + i, chain |-> out[i].mac]

\* A segment, and the instance after it.
LEMMA OneSegment ==
    ASSUME NEW b \in BspInstances, NEW tag \in SegmentTags, NEW d \in Texts, NEW i \in 1..B!Cuts(Len(d)),
           NEW r, r = B!ProtectOne(b, tag, d, i)
    PROVE  /\ r.out \in Segments
           /\ r.out.tag = tag
           /\ r.out.mac = B!Auth(b, tag, r.out.val)
           /\ r.bsp = B!Advance(b, r.out.mac)
           /\ r.bsp \in BspInstances
<1>. DEFINE x == B!Piece(d, i)
            v == IF tag = 88 THEN B!Clear(x) ELSE B!Encrypt(b, x)
            mac == B!Auth(b, tag, v)
<1>1. x \in Texts
  BY Pieces
<1>2. b.s \in {"session", "ppk"} /\ b.nr \in Nat /\ b.chain \in Seq(Links)
  BY DEF BspInstances
<1>3. r = [out |-> [tag |-> tag, val |-> v, mac |-> mac], bsp |-> B!Advance(b, mac)]
  BY DEF B!ProtectOne, B!MacOnlyOne, B!EncryptAndMacOne, B!Segment
<1>. HIDE DEF x
<1>4. v \in Payloads
  BY <1>1, <1>2, UnpadPad DEF Payloads, B!Clear, B!Encrypt
<1>. HIDE DEF v
<1>5. mac \in Seq(Links)
  <2>1. Len(v.text) \in Nat
    BY <1>4, LenProperties DEF Payloads, Texts
  <2>2. [key |-> b.s, tag |-> tag, len |-> Len(v.text), val |-> v] \in Links
    BY <1>2, <1>4, <2>1 DEF Links, SegmentTags
  <2>. QED  BY <1>2, <2>2 DEF B!Auth
<1>6. r.out.tag = tag /\ r.out.mac = mac /\ r.out.val = v /\ mac = B!Auth(b, tag, v) /\ r.bsp = B!Advance(b, mac)
  BY <1>3
<1>. HIDE DEF mac
<1>7. r.out \in Segments
  BY <1>3, <1>4, <1>5 DEF Segments, SegmentTags
<1>8. r.bsp \in BspInstances
  BY <1>2, <1>5, <1>6 DEF BspInstances, B!Advance
<1>. QED  BY <1>6, <1>7, <1>8

\* A MAC is one link longer than the chaining value it is computed over.
LEMMA AuthLonger ==
    ASSUME NEW b \in BspInstances, NEW tag, NEW val
    PROVE  Len(B!Auth(b, tag, val)) = Len(b.chain) + 1 /\ Len(b.chain) \in Nat
BY LenProperties DEF B!Auth, BspInstances

\* demac_and_decrypt_one and demac_only_one, in the state the segment was made in.
LEMMA OpenOne ==
    ASSUME NEW b \in BspInstances, NEW tag \in SegmentTags, NEW d \in Texts, NEW i \in 1..B!Cuts(Len(d)),
           NEW r, r = B!ProtectOne(b, tag, d, i), NEW enc \in BOOLEAN, enc <=> tag # 88
    PROVE  B!Open(b, r.out, enc) = [ok |-> TRUE, val |-> B!Piece(d, i), bsp |-> r.bsp]
<1>. DEFINE x == B!Piece(d, i)
            v == IF tag = 88 THEN B!Clear(x) ELSE B!Encrypt(b, x)
            y == B!Advance(b, B!Auth(b, r.out.tag, r.out.val))
            e == IF enc THEN B!Decrypt(b, r.out.val) ELSE [ok |-> TRUE, val |-> r.out.val.text]
<1>1. x \in Texts
  BY Pieces
<1>2. r.out.val = v
  BY DEF B!ProtectOne, B!MacOnlyOne, B!EncryptAndMacOne, B!Segment
<1>. HIDE DEF x
<1>3. (tag # 88 => B!Decrypt(b, v) = [ok |-> TRUE, val |-> x]) /\ (tag = 88 => v.text = x)
  BY <1>1, UnpadPad DEF B!Decrypt, B!Encrypt, B!Clear
<1>. HIDE DEF v
<1>4. r.out.tag = tag /\ r.out.mac = B!Auth(b, tag, r.out.val) /\ r.bsp = B!Advance(b, r.out.mac)
  BY OneSegment
<1>5. B!Verify(b, r.out)
  BY <1>4 DEF B!Verify
<1>6. e = [ok |-> TRUE, val |-> x]
  BY <1>2, <1>3
<1>7. y = r.bsp
  BY <1>4
<1>8. B!Open(b, r.out, enc) = [ok |-> B!Verify(b, r.out) /\ e.ok, val |-> e.val, bsp |-> y]
  BY DEF B!Open
<1>. HIDE DEF e, y
<1>. QED  BY <1>5, <1>6, <1>7, <1>8 DEF x

\* encrypt_and_mac and mac_only: a segment for each piece, each made by the
\* instance that the ones before have left; by induction over the pieces.
LEMMA ProtectSegments ==
    ASSUME NEW b \in BspInstances, NEW tag \in SegmentTags, NEW d \in Texts
    PROVE  LET n == B!Cuts(Len(d))
               out == B!Protect(b, tag, d).out
           IN  /\ n \in Nat /\ out \in Seq(Segments) /\ Len(out) = n
               /\ B!Protect(b, tag, d).bsp = After(b, out, n)
               /\ \A i \in 0..n : After(b, out, i) \in BspInstances /\ Len(After(b, out, i).chain) = Len(b.chain) + i
               /\ \A i \in 1..n : /\ out[i] = B!ProtectOne(After(b, out, i - 1), tag, d, i).out
                                  /\ Len(out[i].mac) = Len(b.chain) + i
<1>. DEFINE n == B!Cuts(Len(d))
            V == [out : Seq(Segments), bsp : BspInstances]
            First == [out |-> <<>>, bsp |-> b]
            One(acc, i) == LET r == B!ProtectOne(acc.bsp, tag, d, i)
                           IN  [out |-> Append(acc.out, r.out), bsp |-> r.bsp]
            G == [p \in V \X (1..n) |-> One(p[1], p[2])]
            Body(f) == [i \in 0..n |-> IF i = 0 THEN First ELSE One(f[i - 1], i)]
            g == CHOOSE f : f = Body(f)
            Good(acc, k) ==
              /\ acc \in V /\ Len(acc.out) = k
              /\ acc.bsp = After(b, acc.out, k)
              /\ \A i \in 0..k : After(b, acc.out, i) \in BspInstances /\ Len(After(b, acc.out, i).chain) = Len(b.chain) + i
              /\ \A i \in 1..k : /\ acc.out[i] = B!ProtectOne(After(b, acc.out, i - 1), tag, d, i).out
                                 /\ Len(acc.out[i].mac) = Len(b.chain) + i
<1>1. n \in Nat
  <2>1. Len(d) \in Nat
    BY LenProperties DEF Texts
  <2>. QED  BY <2>1, CutsCut
<1>2. First \in V /\ Good(First, 0)
  <2>1. Len(b.chain) \in Nat
    BY LenProperties DEF BspInstances
  <2>2. First \in V
    BY EmptySeq
  <2>. QED  BY <2>1, <2>2, EmptySeq DEF After
<1>3. ASSUME NEW acc \in V, NEW i \in 1..n PROVE One(acc, i) \in V
  <2>. DEFINE r == B!ProtectOne(acc.bsp, tag, d, i)
  <2>1. r.out \in Segments /\ r.bsp \in BspInstances
    BY OneSegment
  <2>. HIDE DEF r
  <2>2. Append(acc.out, r.out) \in Seq(Segments)
    BY <2>1
  <2>. QED  BY <2>1, <2>2 DEF r
<1>4. ASSUME NEW k \in Nat, k + 1 <= n, NEW acc, Good(acc, k) PROVE Good(One(acc, k + 1), k + 1)
  <2>. DEFINE r == B!ProtectOne(acc.bsp, tag, d, k + 1)
              new == Append(acc.out, r.out)
  <2>1. k + 1 \in 1..n
    BY <1>1, <1>4
  <2>2. acc \in V /\ acc.bsp \in BspInstances /\ acc.out \in Seq(Segments) /\ Len(acc.out) = k
    BY <1>4
  <2>3. /\ r.out \in Segments /\ Len(r.out.mac) = Len(acc.bsp.chain) + 1
        /\ r.bsp = B!Advance(acc.bsp, r.out.mac) /\ r.bsp \in BspInstances
    <3>. DEFINE bb == acc.bsp
    <3>1. bb \in BspInstances /\ r = B!ProtectOne(bb, tag, d, k + 1)
      BY <2>2
    <3>. HIDE DEF bb, r
    <3>2. r.out \in Segments /\ r.bsp = B!Advance(bb, r.out.mac) /\ r.bsp \in BspInstances
          /\ r.out.mac = B!Auth(bb, tag, r.out.val)
      BY <2>1, <3>1, OneSegment
    <3>3. Len(r.out.mac) = Len(bb.chain) + 1
      BY <3>1, <3>2, AuthLonger
    <3>. QED  BY <3>2, <3>3 DEF bb
  <2>. HIDE DEF r
  <2>4. new \in Seq(Segments) /\ Len(new) = k + 1 /\ (\A i \in 1..k : new[i] = acc.out[i]) /\ new[k + 1] = r.out
    BY <2>2, <2>3, AppendProperties
  <2>. HIDE DEF new
  <2>5. One(acc, k + 1) = [out |-> new, bsp |-> r.bsp]
    BY DEF r, new
  <2>6. \A i \in 0..k : After(b, new, i) = After(b, acc.out, i)
    BY <2>4 DEF After
  <2>7. acc.bsp = After(b, acc.out, k) /\ Len(acc.bsp.chain) = Len(b.chain) + k
    BY <1>4
  <2>8. Len(b.chain) \in Nat /\ b.nr \in Nat
    BY LenProperties DEF BspInstances
  <2>9. acc.bsp.s = b.s /\ acc.bsp.nr = b.nr + k
    BY <2>7, <2>8 DEF After
  <2>10. r.bsp = After(b, new, k + 1)
    <3>1. After(b, new, k + 1) = [s |-> b.s, nr |-> b.nr + (k + 1), chain |-> r.out.mac]
      BY <2>4 DEF After
    <3>2. (b.nr + k) + 1 = b.nr + (k + 1)
      BY <2>8
    <3>. QED  BY <2>3, <2>9, <3>1, <3>2 DEF B!Advance
  <2>11. Len(r.out.mac) = Len(b.chain) + (k + 1) /\ Len(r.bsp.chain) = Len(b.chain) + (k + 1)
    <3>1. r.bsp.chain = r.out.mac
      BY <2>3 DEF B!Advance
    <3>. DEFINE y == Len(b.chain)
    <3>2. y \in Nat /\ Len(r.out.mac) = (y + k) + 1
      BY <2>3, <2>7, <2>8
    <3>. HIDE DEF y
    <3>3. Len(r.out.mac) = y + (k + 1)
      BY <3>2
    <3>. QED  BY <3>1, <3>3 DEF y
  <2>12. \A i \in 0..(k + 1) : After(b, new, i) \in BspInstances /\ Len(After(b, new, i).chain) = Len(b.chain) + i
    <3>1. \A i \in 0..k : After(b, new, i) \in BspInstances /\ Len(After(b, new, i).chain) = Len(b.chain) + i
      BY <1>4, <2>6
    <3>2. After(b, new, k + 1) \in BspInstances /\ Len(After(b, new, k + 1).chain) = Len(b.chain) + (k + 1)
      BY <2>3, <2>10, <2>11
    <3>3. \A i \in 0..(k + 1) : i \in 0..k \/ i = k + 1
      OBVIOUS
    <3>. QED  BY <3>1, <3>2, <3>3
  <2>13. ASSUME NEW i \in 1..(k + 1)
         PROVE  /\ new[i] = B!ProtectOne(After(b, new, i - 1), tag, d, i).out
                /\ Len(new[i].mac) = Len(b.chain) + i
    <3>1. CASE i = k + 1
      <4>1. After(b, new, i - 1) = acc.bsp
        BY <2>6, <2>7, <3>1
      <4>. QED  BY <2>4, <2>11, <3>1, <4>1 DEF r
    <3>2. CASE i \in 1..k
      <4>1. After(b, new, i - 1) = After(b, acc.out, i - 1) /\ new[i] = acc.out[i]
        BY <2>4, <2>6, <3>2
      <4>. QED  BY <1>4, <3>2, <4>1
    <3>. QED  BY <3>1, <3>2
  <2>14. One(acc, k + 1) \in V
    BY <1>3, <2>1, <2>2
  <2>. DEFINE res == One(acc, k + 1)
  <2>15. res.out = new /\ res.bsp = r.bsp /\ res \in V
    BY <2>5, <2>14
  <2>. HIDE DEF res, V
  <2>. QED  BY <2>4, <2>10, <2>12, <2>13, <2>15 DEF res
<1>. HIDE DEF Good
<1>5. PICK f \in [0..n -> V] : f[0] = First /\ \A i \in 1..n : f[i] = G[<<f[i - 1], i>>]
  <2>1. G \in [V \X (1..n) -> V]
    BY <1>3
  <2>2. \E f : Unfolds(f, n, V, First, G)
    <3>. HIDE DEF G, V, n, First
    <3>. QED  BY <1>1, <1>2, <2>1, Recursion
  <2>. HIDE DEF G, V, n, First
  <2>. QED  BY <2>2 DEF Unfolds
<1>. HIDE DEF One, V, First
<1>6. f = Body(f)
  <2>1. \A i \in 1..n : f[i] = One(f[i - 1], i)
    <3>1. ASSUME NEW i \in 1..n
          PROVE  G[<<f[i - 1], i>>] = One(f[i - 1], i)
      <4>1. f[i - 1] \in V
        BY <1>1, <1>5
      <4>. DEFINE p == <<f[i - 1], i>>
      <4>2. p \in V \X (1..n) /\ p[1] = f[i - 1] /\ p[2] = i
        BY <4>1
      <4>. HIDE DEF p
      <4>3. G[p] = One(p[1], p[2])
        BY <4>2
      <4>. QED  BY <4>2, <4>3 DEF p
    <3>. HIDE DEF G
    <3>. QED  BY <1>5, <3>1
  <2>. QED  BY <1>5, <2>1
<1>7. g = Body(g)
  <2>. HIDE DEF Body
  <2>. QED  BY <1>6
<1>8. B!Protect(b, tag, d) = g[n]
  BY DEF B!Protect, One, First
<1>9. g[0] = First /\ \A i \in 1..n : g[i] = One(g[i - 1], i)
  <2>. HIDE DEF g
  <2>. QED  BY <1>1, <1>7
<1>. HIDE DEF g, n
<1>. DEFINE Q == {k \in Nat : k <= n => Good(g[k], k)}
<1>10. 0 \in Q
  BY <1>2, <1>9
<1>11. ASSUME NEW k \in Nat, k \in Q PROVE k + 1 \in Q
  <2>1. CASE k + 1 <= n
    <3>1. k + 1 \in 1..n /\ (k + 1) - 1 = k /\ Good(g[k], k)
      BY <1>1, <1>11, <2>1
    <3>2. g[k + 1] = One(g[k], k + 1)
      BY <1>9, <3>1
    <3>. QED  BY <1>4, <2>1, <3>1, <3>2
  <2>2. CASE ~(k + 1 <= n)
    BY <2>2
  <2>. QED  BY <2>1, <2>2
<1>12. n \in Q
  <2>. HIDE DEF Q
  <2>. QED  BY <1>1, <1>10, <1>11, SetInduction
<1>13. Good(B!Protect(b, tag, d), n)
  BY <1>1, <1>8, <1>12
<1>. QED  BY <1>1, <1>13 DEF Good, V, n


\* The other end, in the state the i-th segment was made in, reads its piece and is
\* in the state the next one was made in.
LEMMA Receives ==
    ASSUME NEW b \in BspInstances, NEW tag \in SegmentTags, NEW d \in Texts, NEW i \in 1..B!Cuts(Len(d)),
           NEW out, out = B!Protect(b, tag, d).out, NEW enc \in BOOLEAN, enc <=> tag # 88
    PROVE  B!Open(After(b, out, i - 1), out[i], enc)
             = [ok |-> TRUE, val |-> B!Piece(d, i), bsp |-> After(b, out, i)]
<1>. DEFINE n == B!Cuts(Len(d))
            a == After(b, out, i - 1)
            r == B!ProtectOne(a, tag, d, i)
<1>1. n \in Nat /\ i - 1 \in 0..n
  BY ProtectSegments
<1>2. a \in BspInstances
  BY <1>1, ProtectSegments
<1>3. out[i] = r.out
  BY ProtectSegments
<1>. HIDE DEF a
<1>4. B!Open(a, r.out, enc) = [ok |-> TRUE, val |-> B!Piece(d, i), bsp |-> r.bsp] /\ r.bsp = B!Advance(a, r.out.mac)
  BY <1>2, OpenOne, OneSegment
<1>. HIDE DEF r
<1>5. r.bsp = After(b, out, i)
  <2>1. a.s = b.s /\ a.nr = b.nr + (i - 1) /\ b.nr \in Nat
    <3>1. b.nr \in Nat
      BY DEF BspInstances
    <3>. QED  BY <3>1 DEF a, After
  <2>2. a.nr + 1 = b.nr + i
    BY <2>1
  <2>. QED  BY <1>3, <1>4, <2>1, <2>2 DEF B!Advance, After
<1>. QED  BY <1>3, <1>4, <1>5 DEF a

\* ... and it refuses every other segment of the sequence, because its MAC has
\* another place in the chain.
LEMMA Refuses ==
    ASSUME NEW b \in BspInstances, NEW tag \in SegmentTags, NEW d \in Texts, NEW i \in 0..B!Cuts(Len(d)),
           NEW out, out = B!Protect(b, tag, d).out, NEW seg \in S!ToSet(out),
           B!Verify(After(b, out, i), seg)
    PROVE  i + 1 \in 1..B!Cuts(Len(d)) /\ seg = out[i + 1]
<1>. DEFINE n == B!Cuts(Len(d))
            a == After(b, out, i)
<1>1. n \in Nat /\ out \in Seq(Segments) /\ Len(out) = n
  BY ProtectSegments
<1>2. PICK j \in 1..n : seg = out[j]
  BY <1>1, LenProperties DEF S!ToSet
<1>3. a \in BspInstances /\ Len(a.chain) = Len(b.chain) + i
  BY ProtectSegments
<1>4. Len(out[j].mac) = Len(b.chain) + j
  BY ProtectSegments
<1>5. Len(b.chain) \in Nat
  BY LenProperties DEF BspInstances
<1>. HIDE DEF a
<1>6. Len(seg.mac) = Len(a.chain) + 1
  <2>1. B!Auth(a, seg.tag, seg.val) = seg.mac
    BY DEF B!Verify, a
  <2>. QED  BY <1>3, <2>1, AuthLonger
<1>. DEFINE y == Len(b.chain)
<1>7. y \in Nat /\ y + j = (y + i) + 1
  BY <1>2, <1>3, <1>4, <1>5, <1>6
<1>. HIDE DEF y, n
<1>8. j = i + 1
  BY <1>1, <1>7
<1>. QED  BY <1>2, <1>8 DEF n

\* With other keys it refuses all of them.
LEMMA OtherKeys ==
    ASSUME NEW b \in BspInstances, NEW tag \in SegmentTags, NEW d \in Texts,
           NEW out, out = B!Protect(b, tag, d).out, NEW seg \in S!ToSet(out),
           NEW c \in BspInstances, c.s # b.s
    PROVE  ~B!Verify(c, seg)
<1>. DEFINE n == B!Cuts(Len(d))
<1>1. n \in Nat /\ out \in Seq(Segments) /\ Len(out) = n
  BY ProtectSegments
<1>2. PICK j \in 1..n : seg = out[j]
  BY <1>1, LenProperties DEF S!ToSet
<1>. DEFINE a == After(b, out, j - 1)
            r == B!ProtectOne(a, tag, d, j)
<1>3. a \in BspInstances
  <2>1. j - 1 \in 0..n
    BY <1>1
  <2>. QED  BY <2>1, ProtectSegments
<1>4. seg = r.out
  BY <1>2, ProtectSegments
<1>5. a.s = b.s
  BY DEF After
<1>. HIDE DEF a
<1>6. seg.mac = B!Auth(a, tag, seg.val)
  BY <1>3, <1>4, OneSegment
<1>7. SUFFICES ASSUME B!Verify(c, seg) PROVE FALSE
  OBVIOUS
<1>. DEFINE k1 == [key |-> a.s, tag |-> tag, len |-> Len(seg.val.text), val |-> seg.val]
            k2 == [key |-> c.s, tag |-> seg.tag, len |-> Len(seg.val.text), val |-> seg.val]
<1>8. Append(a.chain, k1) = Append(c.chain, k2)
  BY <1>6, <1>7 DEF B!Verify, B!Auth
<1>9. k1.key # k2.key
  BY <1>5
<1>10. k1 = k2
  <2>1. a.chain \in Seq(Links) /\ c.chain \in Seq(Links)
    BY <1>3 DEF BspInstances
  <2>. HIDE DEF k1, k2
  <2>. DEFINE u == a.chain
              w == c.chain
              V == Links \union {k1, k2}
  <2>2. u \in Seq(V) /\ w \in Seq(V) /\ k1 \in V /\ k2 \in V
    BY <2>1
  <2>. HIDE DEF u, w, V
  <2>3. /\ Len(Append(u, k1)) = Len(u) + 1 /\ Append(u, k1)[Len(u) + 1] = k1
        /\ Len(Append(w, k2)) = Len(w) + 1 /\ Append(w, k2)[Len(w) + 1] = k2
    BY <2>2, AppendProperties
  <2>. QED  BY <1>8, <2>3 DEF u, w
<1>. QED  BY <1>9, <1>10

-----------------------------------------------------------------------------
(* The package. *)

\* What a sequence carries, which instance it begins with, and its segments, for
\* the keys k and the profile u.
Data(u, tag) == IF tag = 163 THEN u ELSE B!Request(tag)
Sealed160 == B!Protect(B!FromKdf, 87, B!Conf)
Sealed161 == B!Protect(Sealed160.bsp, 88, B!Metadata)
Start(k, tag) ==
    CASE tag = 160 -> B!FromKdf
      [] tag = 161 -> Sealed160.bsp
      [] tag = 162 -> Sealed161.bsp
      [] tag = 163 -> IF k = "ppk" THEN B!Replaced ELSE Sealed161.bsp
Sealed(k, u, tag) == B!Protect(Start(k, tag), B!Member(tag), Data(u, tag))
Number(u, tag) == B!Cuts(Len(Data(u, tag)))
PackageTags == {160, 161, 162, 163}

\* A profile is data, of one octet at least.
LEMMA ProfileIsText ==
    ASSUME NEW u \in B!Profiles
    PROVE  u \in Texts
<1>1. PICK n \in 1..MaxProfile : u \in [1..n -> B!Octets]
  BY DEF B!Profiles
<1>. QED  BY <1>1, BspAssumption, FunctionIsSeq DEF Texts

\* Every sequence has its data, its segments and the instances at its two ends.
LEMMA SequenceTypes ==
    ASSUME NEW k \in {"session", "ppk"}, NEW u \in Texts, NEW tag \in PackageTags
    PROVE  /\ Start(k, tag) \in BspInstances /\ Data(u, tag) \in Texts /\ B!Member(tag) \in SegmentTags
           /\ B!Member(tag) = 88 <=> tag = 161
           /\ Number(u, tag) \in Nat
           /\ Sealed(k, u, tag).out \in Seq(Segments) /\ Len(Sealed(k, u, tag).out) = Number(u, tag)
           /\ Sealed(k, u, tag).bsp = After(Start(k, tag), Sealed(k, u, tag).out, Number(u, tag))
<1>1. B!Conf \in Texts /\ B!Rsk \in Texts
  BY DEF B!Conf, B!Rsk, Texts, B!Octets
<1>2. B!Metadata \in Texts
  <2>1. B!MaxPayload + 1 \in Nat
    BY BspAssumption DEF B!MaxPayload
  <2>. DEFINE m == B!MaxPayload + 1
  <2>2. B!Metadata \in [1..m -> B!Octets]
    BY DEF B!Metadata, B!Octets
  <2>. HIDE DEF m
  <2>. QED  BY <2>1, <2>2, FunctionIsSeq DEF Texts, m
<1>3. Data(u, tag) \in Texts
  BY <1>1, <1>2 DEF Data, B!Request, PackageTags
<1>4. B!FromKdf \in BspInstances /\ B!Replaced \in BspInstances
  BY DEF B!FromKdf, B!Replaced, B!New, BspInstances
<1>5. Sealed160.bsp \in BspInstances
  <2>1. 87 \in SegmentTags
    BY DEF SegmentTags
  <2>2. B!Cuts(Len(B!Conf)) \in 0..B!Cuts(Len(B!Conf))
    BY <1>1, <1>4, <2>1, ProtectSegments
  <2>. QED  BY <1>1, <1>4, <2>1, <2>2, ProtectSegments DEF Sealed160
<1>6. Sealed161.bsp \in BspInstances
  <2>1. 88 \in SegmentTags
    BY DEF SegmentTags
  <2>2. B!Cuts(Len(B!Metadata)) \in 0..B!Cuts(Len(B!Metadata))
    BY <1>2, <1>5, <2>1, ProtectSegments
  <2>. QED  BY <1>2, <1>5, <2>1, <2>2, ProtectSegments DEF Sealed161
<1>7. Start(k, tag) \in BspInstances
  BY <1>4, <1>5, <1>6 DEF Start, PackageTags
<1>8. B!Member(tag) \in SegmentTags /\ (B!Member(tag) = 88 <=> tag = 161)
  BY DEF B!Member, SegmentTags, PackageTags
<1>9. /\ Number(u, tag) \in Nat
      /\ Sealed(k, u, tag).out \in Seq(Segments) /\ Len(Sealed(k, u, tag).out) = Number(u, tag)
      /\ Sealed(k, u, tag).bsp = After(Start(k, tag), Sealed(k, u, tag).out, Number(u, tag))
  BY <1>3, <1>7, <1>8, ProtectSegments DEF Sealed, Number
<1>. QED  BY <1>3, <1>7, <1>8, <1>9

\* The instance at the end of one sequence is the one the next begins with.
LEMMA SequencesChain ==
    ASSUME NEW k \in {"session", "ppk"}, NEW u \in Texts
    PROVE  /\ Sealed(k, u, 160).bsp = Start(k, 161)
           /\ Sealed(k, u, 161).bsp = Start(k, 162)
           /\ k = "session" => Start(k, 163) = Start(k, 162)
           /\ k = "ppk" => Start(k, 163) = B!Replaced
           /\ Start(k, 162).s = "session"
<1>1. Sealed(k, u, 160) = Sealed160
  BY DEF Sealed, Start, Data, Sealed160, B!Member, B!Request
<1>2. Sealed(k, u, 161) = Sealed161
  BY DEF Sealed, Start, Data, Sealed161, B!Member, B!Request
<1>3. Sealed160.bsp.s = "session"
  <2>1. 160 \in PackageTags
    BY DEF PackageTags
  <2>2. Sealed(k, u, 160).bsp = After(Start(k, 160), Sealed(k, u, 160).out, Number(u, 160))
    BY <2>1, SequenceTypes
  <2>. QED  BY <1>1, <2>2 DEF After, Start, B!FromKdf, B!New
<1>4. Sealed161.bsp.s = "session"
  <2>1. 161 \in PackageTags
    BY DEF PackageTags
  <2>2. Sealed(k, u, 161).bsp = After(Start(k, 161), Sealed(k, u, 161).out, Number(u, 161))
    BY <2>1, SequenceTypes
  <2>3. Start(k, 161).s = "session"
    BY <1>3 DEF Start
  <2>. QED  BY <1>2, <2>2, <2>3 DEF After
<1>. QED  BY <1>1, <1>2, <1>4 DEF Start


\* The package when nothing has happened to it, and the parts of one that has lost,
\* doubled or moved segments: every segment is one of its sequence.
Order(k) == IF k = "ppk" THEN <<160, 161, 162, 163>> ELSE <<160, 161, 163>>
Whole(k, u, tag) == [tag |-> tag, segs |-> Sealed(k, u, tag).out]
Parts == [tag : PackageTags, segs : Seq(Segments)]
LooseParts(k, u) ==
    {x \in Parts : /\ x.tag = 162 => k = "ppk"
                   /\ x.segs \in Seq(S!ToSet(Sealed(k, u, x.tag).out))}

\* The first sequences of the package, in their order.
Built(p, k, u) ==
    /\ p \in Seq(LooseParts(k, u)) /\ Len(p) <= Len(Order(k))
    /\ \A q \in 1..Len(p) : p[q] = Whole(k, u, Order(k)[q])

\* Which sequence may come after which, and which does if none was lost.
Chained(p) ==
    /\ p # <<>> /\ p[Len(p)].tag = 163
    /\ \A q \in 1..(Len(p) - 1) : \/ p[q].tag = 160 /\ p[q + 1].tag = 161
                                  \/ p[q].tag = 161 /\ p[q + 1].tag \in {162, 163}
                                  \/ p[q].tag = 162 /\ p[q + 1].tag = 163
Untouched(p, k, u) ==
    \A q \in 2..Len(p) : /\ p[q].segs = Sealed(k, u, p[q].tag).out
                         /\ k = "ppk" /\ p[q].tag = 163 => p[q - 1].tag = 162

\* What is left of a list after i elements.
From(s, i) == SubSeq(s, i + 1, Len(s))

\* Where the other end is in the first sequence of p: it has read i pieces of it;
\* or, the replacement of the keys being lost, it will read none.
Reached(p, k, u, c, text, i, bad) ==
    LET t == p[1].tag IN
    /\ i \in 0..Number(u, t)
    /\ c = After(Start(k, t), Sealed(k, u, t).out, i)
    /\ text = Beginning(Data(u, t), i)
    /\ bad \/ p[1].segs = From(Sealed(k, u, t).out, i)
KeysLost(p, k, c, text, bad) ==
    p[1].tag = 163 /\ k = "ppk" /\ c \in BspInstances /\ c.s = "session" /\ text = <<>> /\ bad

PackageInv ==
    /\ keys \in {"session", "ppk"} /\ upp \in B!Profiles /\ faulty \in BOOLEAN
    /\ state \in {"start", "building", "sent", "decoding", "done", "error"}
    /\ state \in {"start", "building", "sent"} => peer = B!FromKdf /\ got = <<>>
    /\ state \in {"start", "building"} => ~faulty
    /\ state = "start" => pkg = <<>> /\ bsp = B!FromKdf
    /\ state = "building" =>
          /\ Built(pkg, keys, upp) /\ Len(pkg) < Len(Order(keys))
          /\ Len(pkg) < 3 => bsp = Start(keys, 160 + Len(pkg))
          /\ keys = "ppk" => ppp.out = Sealed("ppk", upp, 163).out
    /\ state = "sent" =>
          /\ pkg \in Seq(LooseParts(keys, upp))
          /\ ~faulty => Built(pkg, keys, upp) /\ Len(pkg) = Len(Order(keys))
    /\ state = "decoding" =>
          /\ pkg \in Seq(LooseParts(keys, upp)) /\ Chained(pkg)
          /\ ~faulty => Untouched(pkg, keys, upp)
          /\ \/ \E i \in Nat : Reached(pkg, keys, upp, peer, got, i, faulty)
             \/ KeysLost(pkg, keys, peer, got, faulty)
    /\ state = "done" =>
          /\ \E i \in 0..Number(upp, 163) : got = Beginning(upp, i)
          /\ ~faulty => got = upp
    /\ state = "error" => faulty

-----------------------------------------------------------------------------
(* Lists that lose, double or exchange elements. *)

\* A list without one of its elements.
LEMMA OneRemoved ==
    ASSUME NEW V, NEW s \in Seq(V), NEW i \in DOMAIN s
    PROVE  B!RemoveAt(s, i) \in Seq(V)
<1>1. Len(s) \in Nat /\ DOMAIN s = 1..Len(s) /\ \A j \in 1..Len(s) : s[j] \in V
  BY LenProperties, ElementOfSeq
<1>2. i - 1 \in Int /\ i + 1 \in Int /\ Len(s) \in Int
  BY <1>1
<1>3. SubSeq(s, 1, i - 1) \in Seq(V)
  <2>1. \A j \in 1..(i - 1) : s[j] \in V
    BY <1>1
  <2>. QED  BY <1>2, <2>1, SubSeqProperties
<1>4. SubSeq(s, i + 1, Len(s)) \in Seq(V)
  <2>1. \A j \in (i + 1)..Len(s) : s[j] \in V
    BY <1>1
  <2>. QED  BY <1>2, <2>1, SubSeqProperties
<1>. QED  BY <1>3, <1>4, ConcatProperties DEF B!RemoveAt

\* A list with one element more.
LEMMA OneInserted ==
    ASSUME NEW V, NEW s \in Seq(V), NEW i \in DOMAIN s, NEW e \in V
    PROVE  B!InsertAt(s, i, e) \in Seq(V)
<1>1. Len(s) \in Nat /\ DOMAIN s = 1..Len(s) /\ \A j \in 1..Len(s) : s[j] \in V
  BY LenProperties, ElementOfSeq
<1>2. i - 1 \in Int /\ i \in Int /\ Len(s) \in Int
  BY <1>1
<1>3. SubSeq(s, 1, i - 1) \in Seq(V)
  <2>1. \A j \in 1..(i - 1) : s[j] \in V
    BY <1>1
  <2>. QED  BY <1>2, <2>1, SubSeqProperties
<1>4. SubSeq(s, i, Len(s)) \in Seq(V)
  <2>1. \A j \in i..Len(s) : s[j] \in V
    BY <1>1
  <2>. QED  BY <1>2, <2>1, SubSeqProperties
<1>5. <<e>> \in Seq(V)
  OBVIOUS
<1>6. SubSeq(s, 1, i - 1) \o <<e>> \in Seq(V)
  BY <1>3, <1>5, ConcatProperties
<1>. QED  BY <1>4, <1>6, ConcatProperties DEF B!InsertAt

\* A list with two elements exchanged.
LEMMA OneExchanged ==
    ASSUME NEW V, NEW s \in Seq(V), NEW i \in DOMAIN s, NEW j \in DOMAIN s
    PROVE  [s EXCEPT ![i] = s[j], ![j] = s[i]] \in Seq(V)
<1>1. Len(s) \in Nat /\ DOMAIN s = 1..Len(s) /\ s \in [1..Len(s) -> V]
  BY LenProperties, ElementOfSeq
<1>. DEFINE n == Len(s)
            r == [s EXCEPT ![i] = s[j], ![j] = s[i]]
<1>2. r \in [1..n -> V]
  <2>. HIDE DEF n
  <2>. QED  BY <1>1 DEF n
<1>. HIDE DEF r
<1>3. r \in Seq(V)
  BY <1>1, <1>2, FunctionIsSeq
<1>. QED  BY <1>3 DEF r

\* A package with other segments of the same sequence in one of its parts.
With(p, q, r) == [p EXCEPT ![q].segs = r]

\* ... is still one of parts, the others unchanged.
LEMMA OtherSegments ==
    ASSUME NEW k, NEW u, NEW p \in Seq(LooseParts(k, u)), NEW q \in DOMAIN p,
           Sealed(k, u, p[q].tag).out \in Seq(Segments),
           NEW r \in Seq(S!ToSet(Sealed(k, u, p[q].tag).out))
    PROVE  /\ With(p, q, r) \in Seq(LooseParts(k, u))
           /\ Len(With(p, q, r)) = Len(p)
           /\ \A x \in DOMAIN p : With(p, q, r)[x].tag = p[x].tag
           /\ \A x \in DOMAIN p : x # q => With(p, q, r)[x] = p[x]
           /\ With(p, q, r)[q].segs = r
<1>. DEFINE n == Len(p)
            W == LooseParts(k, u)
            new == [p[q] EXCEPT !.segs = r]
            res == With(p, q, r)
<1>1. n \in Nat /\ DOMAIN p = 1..n /\ p \in [1..n -> W]
  BY LenProperties, ElementOfSeq
<1>2. p[q] \in Parts /\ p[q] \in W
  BY <1>1 DEF LooseParts
<1>3. r \in Seq(Segments)
  <2>1. S!ToSet(Sealed(k, u, p[q].tag).out) \subseteq Segments
    BY LenProperties, ElementOfSeq DEF S!ToSet
  <2>. QED  BY <2>1
<1>4. new = [tag |-> p[q].tag, segs |-> r]
  BY <1>2, <1>3 DEF Parts
<1>5. new \in W
  <2>1. new \in Parts
    BY <1>2, <1>3, <1>4 DEF Parts
  <2>2. new.tag = p[q].tag /\ new.segs = r
    BY <1>4
  <2>. HIDE DEF new
  <2>. QED  BY <1>2, <2>1, <2>2 DEF LooseParts
<1>6. res = [x \in 1..n |-> IF x = q THEN new ELSE p[x]]
  BY <1>1 DEF With
<1>. HIDE DEF W, n, new, res
<1>7. res \in [1..n -> W] /\ (\A x \in 1..n : x # q => res[x] = p[x]) /\ res[q] = new
  BY <1>1, <1>5, <1>6
<1>8. res \in Seq(W) /\ Len(res) = n
  BY <1>1, <1>7, FunctionIsSeq
<1>9. res[q].tag = p[q].tag /\ res[q].segs = r
  BY <1>4, <1>7
<1>10. \A x \in DOMAIN p : res[x].tag = p[x].tag
  BY <1>1, <1>7, <1>9
<1>. QED  BY <1>1, <1>7, <1>8, <1>9, <1>10 DEF W, n, res


-----------------------------------------------------------------------------
(* The SM-DP+ makes the package. *)

\* Nothing is bound yet.
LEMMA PackageInitial == B!Init => PackageInv
BY DEF B!Init, PackageInv

\* A whole sequence is a part of the package.
LEMMA WholeIsPart ==
    ASSUME NEW k \in {"session", "ppk"}, NEW u \in Texts, NEW tag \in PackageTags, tag = 162 => k = "ppk"
    PROVE  Whole(k, u, tag) \in LooseParts(k, u)
<1>. DEFINE out == Sealed(k, u, tag).out
            x == Whole(k, u, tag)
<1>1. out \in Seq(Segments)
  BY SequenceTypes
<1>2. x.tag = tag /\ x.segs = out /\ x = [tag |-> tag, segs |-> out]
  BY DEF Whole
<1>. HIDE DEF out, x
<1>3. x \in Parts
  BY <1>1, <1>2 DEF Parts
<1>4. out \in Seq(S!ToSet(out))
  <2>1. out \in [1..Len(out) -> S!ToSet(out)] /\ Len(out) \in Nat
    BY <1>1, LenProperties DEF S!ToSet
  <2>. QED  BY <2>1, FunctionIsSeq
<1>5. x.segs \in Seq(S!ToSet(Sealed(k, u, x.tag).out))
  BY <1>2, <1>4 DEF out
<1>6. x \in LooseParts(k, u)
  BY <1>2, <1>3, <1>5 DEF LooseParts
<1>. QED  BY <1>6 DEF x

\* The next sequence is put at the end.
LEMMA BuiltNext ==
    ASSUME NEW k \in {"session", "ppk"}, NEW u \in Texts, NEW p, Built(p, k, u), Len(p) < Len(Order(k)),
           NEW new, new = Append(p, Whole(k, u, Order(k)[Len(p) + 1]))
    PROVE  Built(new, k, u) /\ Len(new) = Len(p) + 1
<1>. DEFINE n == Len(p)
            W == LooseParts(k, u)
            tag == Order(k)[n + 1]
            x == Whole(k, u, tag)
<1>1. p \in Seq(W) /\ n \in Nat /\ n + 1 <= Len(Order(k)) /\ \A q \in 1..n : p[q] = Whole(k, u, Order(k)[q])
  <2>1. p \in Seq(W) /\ n \in Nat /\ \A q \in 1..n : p[q] = Whole(k, u, Order(k)[q])
    BY LenProperties DEF Built
  <2>2. Len(Order(k)) \in Nat
    BY DEF Order
  <2>. QED  BY <2>1, <2>2
<1>2. tag \in PackageTags /\ (tag = 162 => k = "ppk")
  <2>1. n + 1 \in 1..Len(Order(k))
    BY <1>1 DEF Order
  <2>2. \A q \in 1..Len(Order(k)) : Order(k)[q] \in PackageTags /\ (Order(k)[q] = 162 => k = "ppk")
    BY DEF Order, PackageTags
  <2>. DEFINE y == n + 1
              L == Len(Order(k))
  <2>3. y \in 1..L /\ \A q \in 1..L : Order(k)[q] \in PackageTags /\ (Order(k)[q] = 162 => k = "ppk")
    BY <2>1, <2>2
  <2>. HIDE DEF y, L
  <2>4. Order(k)[y] \in PackageTags /\ (Order(k)[y] = 162 => k = "ppk")
    BY <2>3
  <2>. QED  BY <2>4 DEF y
<1>. HIDE DEF tag
<1>3. x \in W
  BY <1>2, WholeIsPart
<1>. HIDE DEF W, x, n
<1>4. new = Append(p, x)
  BY DEF x, tag, n
<1>5. new \in Seq(W) /\ Len(new) = n + 1 /\ (\A q \in 1..n : new[q] = p[q]) /\ new[n + 1] = x
  BY <1>1, <1>3, <1>4, AppendProperties DEF n
<1>6. ASSUME NEW q \in 1..(n + 1) PROVE new[q] = Whole(k, u, Order(k)[q])
  <2>1. CASE q \in 1..n
    BY <1>1, <1>5, <2>1
  <2>2. CASE q = n + 1
    BY <1>5, <2>2 DEF x, tag
  <2>3. n \in Nat
    BY <1>1
  <2>4. q \in 1..n \/ q = n + 1
    BY <2>3
  <2>. QED  BY <2>1, <2>2, <2>4
<1>. QED  BY <1>1, <1>5, <1>6 DEF Built, W, n

\* from_upp: a PPP is protected with its own keys, or nothing yet.
LEMMA FromStep ==
    ASSUME PackageInv, B!FromUpp \/ B!FromNoPpp
    PROVE  PackageInv'
<1>1. /\ state = "start" /\ state' = "building" /\ pkg = <<>> /\ ~faulty /\ bsp = B!FromKdf
      /\ UNCHANGED <<upp, keys, bsp, pkg, faulty, peer, got>>
      /\ peer = B!FromKdf /\ got = <<>>
  BY DEF PackageInv, B!FromUpp, B!FromNoPpp
<1>2. keys = "ppk" => ppp'.out = Sealed("ppk", upp, 163).out
  BY DEF B!FromUpp, B!FromNoPpp, Sealed, Start, Data, B!Replaced, B!Member
<1>3. Len(pkg) = 0 /\ bsp = Start(keys, 160 + 0)
  BY <1>1 DEF Start
<1>4. Built(pkg, keys, upp) /\ Len(pkg) < Len(Order(keys))
  BY <1>1, <1>3 DEF Built, Order
<1>5. (state \in {"start", "building", "sent", "decoding", "done", "error"})' /\ (keys \in {"session", "ppk"})' /\ (upp \in B!Profiles)' /\ (faulty \in BOOLEAN)'
  BY <1>1 DEF PackageInv
<1>6. Built(pkg, keys, upp)' /\ (Len(pkg) < Len(Order(keys)))' /\ (Len(pkg) < 3 => bsp = Start(keys, 160 + Len(pkg)))'
  BY <1>1, <1>3, <1>4
<1>. QED  BY <1>1, <1>2, <1>5, <1>6 DEF PackageInv

\* encode puts the next sequence at the end, made by the instance the ones before
\* have left.
LEMMA EncodeStep ==
    ASSUME PackageInv, B!Encode
    PROVE  PackageInv'
<1>. DEFINE n == Len(pkg)
            k == keys
            u == upp
<1>1. /\ k \in {"session", "ppk"} /\ u \in B!Profiles /\ u \in Texts /\ state = "building" /\ ~faulty
      /\ Built(pkg, k, u) /\ n < Len(Order(k)) /\ n \in Nat
      /\ n < 3 => bsp = Start(k, 160 + n)
      /\ k = "ppk" => ppp.out = Sealed("ppk", u, 163).out
      /\ peer = B!FromKdf /\ got = <<>>
  <2>1. u \in B!Profiles /\ Built(pkg, k, u)
    BY DEF PackageInv, B!Encode
  <2>2. n \in Nat
    BY <2>1, LenProperties DEF Built
  <2>. QED  BY <2>1, <2>2, ProfileIsText DEF PackageInv, B!Encode
<1>2. UNCHANGED <<upp, keys, faulty, peer, got>>
  BY DEF B!Encode
<1>3. Len(Order(k)) = IF k = "ppk" THEN 4 ELSE 3
  BY <1>1 DEF Order
<1>4. /\ k = "ppk" => Order(k)[1] = 160 /\ Order(k)[2] = 161 /\ Order(k)[3] = 162 /\ Order(k)[4] = 163
      /\ k # "ppk" => Order(k)[1] = 160 /\ Order(k)[2] = 161 /\ Order(k)[3] = 163
  BY <1>1 DEF Order
<1>. DEFINE new == Append(pkg, Whole(k, u, Order(k)[n + 1]))
<1>5. Built(new, k, u) /\ Len(new) = n + 1
  BY <1>1, BuiltNext
<1>6. /\ Sealed(k, u, 160).bsp = Start(k, 161) /\ Sealed(k, u, 161).bsp = Start(k, 162)
      /\ k = "session" => Start(k, 163) = Start(k, 162)
  BY <1>1, SequencesChain
<1>7. /\ pkg' = new /\ state' \in {"sent", "building"} /\ (state' = "sent" <=> n + 1 = Len(Order(k)))
      /\ n + 1 < 3 => bsp' = Start(k, 160 + (n + 1))
      /\ k = "ppk" => ppp' = ppp
  <2>1. CASE n = 0
    <3>1. bsp = Start(k, 160) /\ B!Add(160, B!Conf) /\ UNCHANGED <<ppp, state>>
      BY <1>1, <2>1 DEF B!Encode
    <3>2. B!Protect(bsp, B!Member(160), B!Conf) = Sealed(k, u, 160)
      BY <3>1 DEF Sealed, Data, B!Request
    <3>3. pkg' = Append(pkg, Whole(k, u, 160)) /\ bsp' = Sealed(k, u, 160).bsp
      BY <3>1, <3>2 DEF B!Add, Whole
    <3>. QED  BY <1>1, <1>3, <1>4, <1>6, <2>1, <3>1, <3>3
  <2>2. CASE n = 1
    <3>1. bsp = Start(k, 161) /\ B!Add(161, B!Metadata) /\ UNCHANGED <<ppp, state>>
      BY <1>1, <2>2 DEF B!Encode
    <3>2. B!Protect(bsp, B!Member(161), B!Metadata) = Sealed(k, u, 161)
      BY <3>1 DEF Sealed, Data, B!Request
    <3>3. pkg' = Append(pkg, Whole(k, u, 161)) /\ bsp' = Sealed(k, u, 161).bsp
      BY <3>1, <3>2 DEF B!Add, Whole
    <3>. QED  BY <1>1, <1>3, <1>4, <1>6, <2>2, <3>1, <3>3
  <2>3. CASE n = 2 /\ k = "ppk"
    <3>1. bsp = Start(k, 162) /\ B!Add(162, B!Rsk) /\ UNCHANGED <<ppp, state>>
      BY <1>1, <2>3 DEF B!Encode
    <3>2. B!Protect(bsp, B!Member(162), B!Rsk) = Sealed(k, u, 162)
      BY <3>1 DEF Sealed, Data, B!Request
    <3>3. pkg' = Append(pkg, Whole(k, u, 162))
      BY <3>1, <3>2 DEF B!Add, Whole
    <3>. QED  BY <1>1, <1>3, <1>4, <2>3, <3>1, <3>3
  <2>4. CASE n = 2 /\ k = "session"
    <3>1. bsp = Start(k, 163) /\ B!Add(163, u) /\ state' = "sent"
      BY <1>1, <1>6, <2>4 DEF B!Encode
    <3>2. B!Protect(bsp, B!Member(163), u) = Sealed(k, u, 163)
      BY <3>1 DEF Sealed, Data
    <3>3. pkg' = Append(pkg, Whole(k, u, 163))
      BY <3>1, <3>2 DEF B!Add, Whole
    <3>. QED  BY <1>1, <1>3, <1>4, <2>4, <3>1, <3>3
  <2>5. CASE n = 3
    <3>1. k = "ppk"
      BY <1>1, <1>3, <2>5
    <3>2. pkg' = Append(pkg, [tag |-> 163, segs |-> ppp.out]) /\ state' = "sent" /\ ppp' = ppp
      BY <2>5 DEF B!Encode
    <3>3. pkg' = Append(pkg, Whole(k, u, 163))
      BY <1>1, <3>1, <3>2 DEF Whole
    <3>. QED  BY <1>1, <1>3, <1>4, <2>5, <3>1, <3>2, <3>3
  <2>6. n \in {0, 1, 2, 3} /\ (n = 2 => k \in {"session", "ppk"})
    <3>1. n < 4
      BY <1>1, <1>3
    <3>2. n \in {0, 1, 2, 3}
      <4>1. n \in Nat
        BY <1>1
      <4>. HIDE DEF n
      <4>. QED  BY <3>1, <4>1
    <3>. QED  BY <1>1, <3>2
  <2>. HIDE DEF new, n
  <2>. QED  BY <2>1, <2>2, <2>3, <2>4, <2>5, <2>6
<1>. HIDE DEF new
<1>8. Built(pkg, keys, upp)' /\ Len(pkg') = n + 1
  BY <1>2, <1>5, <1>7
<1>9. new \in Seq(LooseParts(k, u))
  BY <1>5 DEF Built
<1>10. (pkg \in Seq(LooseParts(keys, upp)))'
  BY <1>2, <1>7, <1>9
<1>11. (state \in {"start", "building", "sent", "decoding", "done", "error"})' /\ (keys \in {"session", "ppk"})' /\ (upp \in B!Profiles)' /\ (faulty \in BOOLEAN)'
  <2>1. faulty \in BOOLEAN
    BY DEF PackageInv
  <2>. QED  BY <1>1, <1>2, <1>7, <2>1
<1>12. state' = "sent" => Len(pkg') = Len(Order(keys')) /\ Built(pkg, keys, upp)'
  BY <1>2, <1>7, <1>8
<1>13. state' = "building" => /\ Built(pkg, keys, upp)' /\ (Len(pkg) < Len(Order(keys)))'
                              /\ (Len(pkg) < 3 => bsp = Start(keys, 160 + Len(pkg)))'
                              /\ (keys = "ppk" => ppp.out = Sealed("ppk", upp, 163).out)'
  <2>1. state' = "building" => n + 1 < Len(Order(k))
    BY <1>1, <1>3, <1>7
  <2>. QED  BY <1>1, <1>2, <1>7, <1>8, <2>1
<1>14. state' \in {"building", "sent"} /\ ~faulty' /\ peer' = B!FromKdf /\ got' = <<>>
  BY <1>1, <1>2, <1>7
<1>. QED  BY <1>10, <1>11, <1>12, <1>13, <1>14 DEF PackageInv


-----------------------------------------------------------------------------
(* The package on its way, and taken apart. *)

\* The first of a package's parts.
LEMMA LoosePart ==
    ASSUME NEW k \in {"session", "ppk"}, NEW u \in Texts, NEW p \in Seq(LooseParts(k, u)), NEW q \in DOMAIN p
    PROVE  /\ Len(p) \in Nat /\ DOMAIN p = 1..Len(p)
           /\ p[q].tag \in PackageTags /\ (p[q].tag = 162 => k = "ppk")
           /\ p[q].segs \in Seq(S!ToSet(Sealed(k, u, p[q].tag).out))
           /\ Sealed(k, u, p[q].tag).out \in Seq(Segments)
<1>1. Len(p) \in Nat /\ DOMAIN p = 1..Len(p) /\ p[q] \in LooseParts(k, u)
  BY LenProperties, ElementOfSeq
<1>2. p[q].tag \in PackageTags /\ (p[q].tag = 162 => k = "ppk") /\ p[q].segs \in Seq(S!ToSet(Sealed(k, u, p[q].tag).out))
  BY <1>1 DEF LooseParts, Parts
<1>3. Sealed(k, u, p[q].tag).out \in Seq(Segments)
  BY <1>2, SequenceTypes
<1>. QED  BY <1>1, <1>2, <1>3

\* What happens on the way leaves every segment in its sequence.
LEMMA DamageStep ==
    ASSUME PackageInv, B!Damage
    PROVE  PackageInv'
<1>. DEFINE W == LooseParts(keys, upp)
<1>1. /\ state = "sent" /\ pkg \in Seq(W) /\ peer = B!FromKdf /\ got = <<>>
      /\ keys \in {"session", "ppk"} /\ upp \in B!Profiles /\ upp \in Texts
  <2>1. upp \in B!Profiles
    BY DEF PackageInv
  <2>. QED  BY <2>1, ProfileIsText DEF PackageInv, B!Damage
<1>2. UNCHANGED <<upp, keys, ppp, bsp, state, peer, got>> /\ faulty' = TRUE
  BY DEF B!Damage
<1>3. pkg' \in Seq(W)
  <2>1. CASE \E q \in DOMAIN pkg : pkg' = B!RemoveAt(pkg, q)
    <3>. HIDE DEF W
    <3>. QED  BY <1>1, <2>1, OneRemoved
  <2>2. CASE \E q \in DOMAIN pkg : \E i, j \in DOMAIN pkg[q].segs :
               pkg' = [pkg EXCEPT ![q].segs =
                          IF i = j THEN B!RemoveAt(pkg[q].segs, i)
                          ELSE IF i < j THEN [pkg[q].segs EXCEPT ![i] = pkg[q].segs[j], ![j] = pkg[q].segs[i]]
                          ELSE B!InsertAt(pkg[q].segs, i, pkg[q].segs[j])]
    <3>1. PICK q \in DOMAIN pkg : \E i, j \in DOMAIN pkg[q].segs :
               pkg' = [pkg EXCEPT ![q].segs =
                          IF i = j THEN B!RemoveAt(pkg[q].segs, i)
                          ELSE IF i < j THEN [pkg[q].segs EXCEPT ![i] = pkg[q].segs[j], ![j] = pkg[q].segs[i]]
                          ELSE B!InsertAt(pkg[q].segs, i, pkg[q].segs[j])]
      BY <2>2
    <3>. DEFINE s == pkg[q].segs
                V == S!ToSet(Sealed(keys, upp, pkg[q].tag).out)
    <3>2. s \in Seq(V) /\ Sealed(keys, upp, pkg[q].tag).out \in Seq(Segments)
      BY <1>1, LoosePart
    <3>3. PICK i \in DOMAIN s, j \in DOMAIN s :
               pkg' = [pkg EXCEPT ![q].segs =
                          IF i = j THEN B!RemoveAt(s, i)
                          ELSE IF i < j THEN [s EXCEPT ![i] = s[j], ![j] = s[i]]
                          ELSE B!InsertAt(s, i, s[j])]
      BY <3>1
    <3>. DEFINE r == IF i = j THEN B!RemoveAt(s, i)
                     ELSE IF i < j THEN [s EXCEPT ![i] = s[j], ![j] = s[i]]
                     ELSE B!InsertAt(s, i, s[j])
    <3>. HIDE DEF s
    <3>4. r \in Seq(V)
      <4>. HIDE DEF V
      <4>1. s[j] \in V
        BY <3>2, LenProperties, ElementOfSeq
      <4>2. B!RemoveAt(s, i) \in Seq(V)
        BY <3>2, OneRemoved
      <4>3. [s EXCEPT ![i] = s[j], ![j] = s[i]] \in Seq(V)
        BY <3>2, OneExchanged
      <4>4. B!InsertAt(s, i, s[j]) \in Seq(V)
        BY <3>2, <4>1, OneInserted
      <4>. QED  BY <4>2, <4>3, <4>4
    <3>5. pkg' = [pkg EXCEPT ![q].segs = r]
      BY <3>3
    <3>. HIDE DEF r
    <3>6. With(pkg, q, r) \in Seq(LooseParts(keys, upp))
      BY <1>1, <3>2, <3>4, OtherSegments
    <3>. QED  BY <3>5, <3>6 DEF With
  <2>. QED  BY <2>1, <2>2 DEF B!Damage
<1>4. (pkg \in Seq(LooseParts(keys, upp)))'
  BY <1>2, <1>3
<1>. QED  BY <1>1, <1>2, <1>4 DEF PackageInv

\* The other end comes to a sequence in the state it was made in.
LEMMA Begins ==
    ASSUME NEW k \in {"session", "ppk"}, NEW u \in Texts, NEW p, NEW t \in PackageTags, p[1].tag = t,
           NEW c, c = Start(k, t), NEW bad \in BOOLEAN, bad \/ p[1].segs = Sealed(k, u, t).out
    PROVE  Reached(p, k, u, c, <<>>, 0, bad)
<1>. DEFINE n == Number(u, t)
            out == Sealed(k, u, t).out
            d == Data(u, t)
<1>1. n \in Nat /\ out \in Seq(Segments) /\ Len(out) = n /\ d \in Texts
  BY SequenceTypes
<1>2. From(out, 0) = out
  <2>. HIDE DEF out, n
  <2>. QED  BY <1>1, SubSeqFull DEF From
<1>3. Beginning(d, 0) = <<>>
  <2>1. 0 \in 0..B!Cuts(Len(d))
    BY <1>1 DEF Number
  <2>. QED  BY <1>1, <2>1, Beginnings
<1>4. After(Start(k, t), out, 0) = c
  BY DEF After
<1>5. 0 \in 0..n
  BY <1>1
<1>6. bad \/ p[1].segs = From(out, 0)
  BY <1>2
<1>. QED  BY <1>3, <1>4, <1>5, <1>6 DEF Reached

\* The tags of a whole package.
LEMMA OrderIs ==
    ASSUME NEW k \in {"session", "ppk"}
    PROVE  LET n == Len(Order(k)) IN
           /\ n \in {3, 4} /\ DOMAIN Order(k) = 1..n
           /\ Order(k) = [q \in 1..n |-> Order(k)[q]]
           /\ Order(k) \in {<<160, 161, 163>>, <<160, 161, 162, 163>>}
           /\ Order(k)[1] = 160
           /\ \A q \in 2..n : k = "ppk" /\ Order(k)[q] = 163 => Order(k)[q - 1] = 162
<1>1. CASE k = "ppk"
  <2>1. Order(k) = <<160, 161, 162, 163>>
    BY <1>1 DEF Order
  <2>. DEFINE o == Order(k)
  <2>2. /\ DOMAIN o = 1..4 /\ Len(o) = 4 /\ o[1] = 160 /\ o[2] = 161 /\ o[3] = 162 /\ o[4] = 163
        /\ o = [q \in 1..4 |-> o[q]]
    BY <2>1
  <2>. HIDE DEF o
  <2>3. \A q \in 2..4 : o[q] = 163 => o[q - 1] = 162
    <3>1. \A q \in 2..4 : q = 2 \/ q = 3 \/ (q = 4 /\ q - 1 = 3)
      OBVIOUS
    <3>. QED  BY <2>2, <3>1
  <2>. QED  BY <2>1, <2>2, <2>3 DEF o
<1>2. CASE k = "session"
  <2>1. Order(k) = <<160, 161, 163>>
    BY <1>2 DEF Order
  <2>2. /\ DOMAIN Order(k) = 1..3 /\ Len(Order(k)) = 3 /\ Order(k)[1] = 160
        /\ Order(k) = [q \in 1..3 |-> Order(k)[q]]
    BY <2>1
  <2>. QED  BY <1>2, <2>1, <2>2
<1>. QED  BY <1>1, <1>2

\* decode begins with the first sequence in the state it was made in; a package
\* nothing has happened to has its sequences in order.
LEMMA SplitStep ==
    ASSUME PackageInv, B!Split
    PROVE  PackageInv'
<1>. DEFINE k == keys
            u == upp
            n == Len(pkg)
            ok == B!Tags \in {<<160, 161, 163>>, <<160, 161, 162, 163>>}
<1>1. /\ state = "sent" /\ pkg \in Seq(LooseParts(k, u)) /\ peer = B!FromKdf /\ got = <<>>
      /\ k \in {"session", "ppk"} /\ u \in B!Profiles /\ u \in Texts
      /\ ~faulty => Built(pkg, k, u) /\ n = Len(Order(k))
  <2>1. u \in B!Profiles
    BY DEF PackageInv
  <2>. QED  BY <2>1, ProfileIsText DEF PackageInv, B!Split
<1>2. faulty \in BOOLEAN
  BY DEF PackageInv
<1>3. UNCHANGED <<upp, keys, ppp, bsp, pkg, faulty, peer, got>> /\ (ok => state' = "decoding") /\ (~ok => state' = "error")
  BY DEF B!Split
<1>4. n \in Nat /\ DOMAIN pkg = 1..n
  BY <1>1, LenProperties
<1>5. DOMAIN B!Tags = 1..n /\ \A q \in 1..n : B!Tags[q] = pkg[q].tag
  BY <1>4 DEF B!Tags
<1>6. ASSUME ~faulty PROVE ok /\ Untouched(pkg, k, u) /\ n >= 1 /\ pkg[1].segs = Sealed(k, u, 160).out
  <2>1. \A q \in 1..n : pkg[q] = Whole(k, u, Order(k)[q])
    BY <1>1, <1>6 DEF Built
  <2>2. \A q \in 1..n : pkg[q].tag = Order(k)[q] /\ pkg[q].segs = Sealed(k, u, pkg[q].tag).out
    <3>1. \A t : Whole(k, u, t).tag = t /\ Whole(k, u, t).segs = Sealed(k, u, t).out
      BY DEF Whole
    <3>. QED  BY <2>1, <3>1
  <2>3. DOMAIN Order(k) = 1..n /\ n >= 3 /\ Order(k)[1] = 160
    <3>1. n \in {3, 4} /\ DOMAIN Order(k) = 1..n /\ Order(k)[1] = 160
      BY <1>1, <1>6, OrderIs
    <3>. HIDE DEF n, ok, k
    <3>. QED  BY <3>1
  <2>4. B!Tags = Order(k)
    <3>1. \A q \in 1..n : B!Tags[q] = Order(k)[q]
      BY <1>5, <2>2
    <3>2. B!Tags = [q \in 1..n |-> B!Tags[q]]
      BY <1>4 DEF B!Tags
    <3>3. Order(k) = [q \in 1..n |-> Order(k)[q]]
      BY <1>1, <1>6, OrderIs
    <3>. QED  BY <3>1, <3>2, <3>3
  <2>5. ok
    BY <1>1, <2>4, OrderIs
  <2>6. \A q \in 2..n : k = "ppk" /\ Order(k)[q] = 163 => Order(k)[q - 1] = 162
    BY <1>1, <1>6, OrderIs
  <2>7. Untouched(pkg, k, u)
    <3>1. \A q \in 2..n : q \in 1..n /\ q - 1 \in 1..n
      BY <1>4
    <3>. QED  BY <2>2, <2>6, <3>1 DEF Untouched
  <2>8. pkg[1].segs = Sealed(k, u, 160).out
    <3>1. 1 \in 1..n
      BY <1>4, <2>3
    <3>. QED  BY <2>2, <2>3, <3>1
  <2>. QED  BY <1>4, <2>3, <2>5, <2>7, <2>8
<1>7. ASSUME ok PROVE Chained(pkg) /\ n >= 1 /\ pkg[1].tag = 160
  <2>1. CASE B!Tags = <<160, 161, 163>>
    <3>1. n = 3
      <4>1. DOMAIN <<160, 161, 163>> = 1..3
        OBVIOUS
      <4>2. 1..n = 1..3
        BY <1>5, <2>1, <4>1
      <4>3. n \in Nat
        BY <1>4
      <4>. HIDE DEF n
      <4>4. 3 \in 1..n /\ ~(4 \in 1..n)
        BY <4>2
      <4>. QED  BY <4>3, <4>4
    <3>2. pkg[1].tag = 160 /\ pkg[2].tag = 161 /\ pkg[3].tag = 163
      <4>1. 1 \in 1..n /\ 2 \in 1..n /\ 3 \in 1..n
        BY <3>1
      <4>2. pkg[1].tag = B!Tags[1] /\ pkg[2].tag = B!Tags[2] /\ pkg[3].tag = B!Tags[3]
        BY <1>5, <4>1
      <4>. QED  BY <2>1, <4>2
    <3>3. pkg # <<>>
      BY <3>1
    <3>. QED  BY <3>1, <3>2, <3>3 DEF Chained
  <2>2. CASE B!Tags = <<160, 161, 162, 163>>
    <3>1. n = 4
      <4>1. DOMAIN <<160, 161, 162, 163>> = 1..4
        OBVIOUS
      <4>2. 1..n = 1..4
        BY <1>5, <2>2, <4>1
      <4>3. n \in Nat
        BY <1>4
      <4>. HIDE DEF n
      <4>4. 4 \in 1..n /\ ~(5 \in 1..n)
        BY <4>2
      <4>. QED  BY <4>3, <4>4
    <3>2. pkg[1].tag = 160 /\ pkg[2].tag = 161 /\ pkg[3].tag = 162 /\ pkg[4].tag = 163
      <4>1. 1 \in 1..n /\ 2 \in 1..n /\ 3 \in 1..n /\ 4 \in 1..n
        BY <3>1
      <4>2. pkg[1].tag = B!Tags[1] /\ pkg[2].tag = B!Tags[2] /\ pkg[3].tag = B!Tags[3] /\ pkg[4].tag = B!Tags[4]
        BY <1>5, <4>1
      <4>. QED  BY <2>2, <4>2
    <3>3. pkg # <<>>
      BY <3>1
    <3>. QED  BY <3>1, <3>2, <3>3 DEF Chained
  <2>. QED  BY <1>7, <2>1, <2>2
<1>8. (upp \in B!Profiles)' /\ (keys \in {"session", "ppk"})' /\ (faulty \in BOOLEAN)'
  BY <1>1, <1>2, <1>3
<1>9. CASE ok
  <2>1. Reached(pkg, k, u, peer, <<>>, 0, faulty)
    <3>1. peer = Start(k, 160) /\ 160 \in PackageTags
      BY <1>1 DEF Start, PackageTags
    <3>2. faulty \/ pkg[1].segs = Sealed(k, u, 160).out
      BY <1>2, <1>6
    <3>3. pkg[1].tag = 160
      BY <1>7, <1>9
    <3>. QED  BY <1>1, <1>2, <3>1, <3>2, <3>3, Begins
  <2>2. \E i \in Nat : Reached(pkg, k, u, peer, got, i, faulty)
    <3>1. 0 \in Nat /\ got = <<>>
      BY <1>1
    <3>. QED  BY <2>1, <3>1
  <2>3. /\ (\E i \in Nat : Reached(pkg, keys, upp, peer, got, i, faulty))'
        /\ (pkg \in Seq(LooseParts(keys, upp)))' /\ Chained(pkg') /\ (~faulty => Untouched(pkg, keys, upp))'
    BY <1>1, <1>2, <1>3, <1>6, <1>7, <1>9, <2>2
  <2>4. state' = "decoding"
    BY <1>3, <1>9
  <2>. QED  BY <1>8, <2>3, <2>4 DEF PackageInv
<1>10. CASE ~ok
  <2>1. state' = "error" /\ faulty'
    BY <1>2, <1>3, <1>6, <1>10
  <2>. QED  BY <1>8, <2>1 DEF PackageInv
<1>. QED  BY <1>9, <1>10


-----------------------------------------------------------------------------
(* The other end reads the package. *)

\* The segments of a sequence from the i-th on.
LEMMA Rest ==
    ASSUME NEW V, NEW s \in Seq(V), NEW i \in 0..Len(s)
    PROVE  /\ From(s, i) = <<>> <=> i = Len(s)
           /\ i < Len(s) => From(s, i)[1] = s[i + 1] /\ Tail(From(s, i)) = From(s, i + 1)
<1>. DEFINE n == Len(s)
            r == From(s, i)
<1>1. n \in Nat /\ i \in Nat /\ \A j \in 1..n : s[j] \in V
  BY LenProperties, ElementOfSeq
<1>. HIDE DEF n
<1>2. r = SubSeq(s, i + 1, n) /\ i \in 0..n
  BY DEF n, From
<1>. HIDE DEF r
<1>3. CASE i = n
  <2>1. r = <<>>
    BY <1>1, <1>2, <1>3, SubSeqEmpty
  <2>. QED  BY <1>1, <1>3, <2>1 DEF n, r
<1>4. CASE i < n
  <2>1. (\A j \in (i + 1)..n : s[j] \in V) /\ i + 1 \in Int /\ n \in Int /\ n - (i + 1) + 1 = n - i
    BY <1>1, <1>4
  <2>2. /\ r \in Seq(V) /\ Len(r) = n - i
        /\ \A j \in 1..(n - i) : r[j] = s[j + i]
    <3>1. /\ r \in Seq(V)
          /\ Len(r) = IF i + 1 <= n THEN n - (i + 1) + 1 ELSE 0
          /\ \A j \in 1..(n - (i + 1) + 1) : r[j] = s[(i + 1) + j - 1]
      BY <1>2, <2>1, SubSeqProperties
    <3>2. \A j \in 1..(n - i) : (i + 1) + j - 1 = j + i
      BY <1>1
    <3>. QED  BY <1>1, <1>4, <2>1, <3>1, <3>2
  <2>3. r # <<>> /\ 1 \in 1..(n - i)
    <3>1. n - i \in Nat \ {0}
      BY <1>1, <1>4
    <3>2. 1 \in 1..(n - i)
      BY <3>1
    <3>3. Len(r) # 0
      BY <2>2, <3>1
    <3>. QED  BY <3>2, <3>3, EmptySeq
  <2>4. r[1] = s[i + 1]
    BY <1>1, <2>2, <2>3
  <2>. DEFINE a == Tail(r)
              b == SubSeq(s, i + 2, n)
  <2>5. a \in Seq(V) /\ Len(a) = n - i - 1 /\ \A j \in 1..(n - i - 1) : a[j] = r[j + 1]
    <3>1. Tail(r) \in Seq(V) /\ Len(Tail(r)) = Len(r) - 1 /\ \A j \in 1..Len(Tail(r)) : Tail(r)[j] = r[j + 1]
      BY <2>2, <2>3, HeadTailProperties
    <3>. QED  BY <2>2, <3>1
  <2>6. b \in Seq(V) /\ Len(b) = n - i - 1 /\ \A j \in 1..(n - i - 1) : b[j] = s[j + 1 + i]
    <3>1. (\A j \in (i + 2)..n : s[j] \in V) /\ i + 2 \in Int /\ n - (i + 2) + 1 = n - i - 1
      BY <1>1, <1>4
    <3>2. /\ b \in Seq(V)
          /\ Len(b) = IF i + 2 <= n THEN n - (i + 2) + 1 ELSE 0
          /\ \A j \in 1..(n - (i + 2) + 1) : b[j] = s[(i + 2) + j - 1]
      BY <2>1, <3>1, SubSeqProperties
    <3>3. \A j \in 1..(n - i - 1) : (i + 2) + j - 1 = j + 1 + i
      BY <1>1
    <3>. QED  BY <1>1, <1>4, <3>1, <3>2, <3>3
  <2>7. \A j \in 1..(n - i - 1) : a[j] = b[j]
    <3>1. \A j \in 1..(n - i - 1) : j + 1 \in 1..(n - i)
      BY <1>1
    <3>. QED  BY <2>2, <2>5, <2>6, <3>1
  <2>. HIDE DEF a, b
  <2>8. a = b
    BY <2>5, <2>6, <2>7, SeqEqual
  <2>9. b = From(s, i + 1)
    <3>1. (i + 1) + 1 = i + 2
      BY <1>1
    <3>. QED  BY <3>1 DEF From, b, n
  <2>. QED  BY <1>1, <1>4, <2>3, <2>4, <2>8, <2>9 DEF a, n, r
<1>. QED  BY <1>1, <1>2, <1>3, <1>4

\* A sequence's segments are those of Protect, of the data it carries.
LEMMA SealedIs ==
    ASSUME NEW k \in {"session", "ppk"}, NEW u \in Texts, NEW t \in PackageTags
    PROVE  /\ Start(k, t) \in BspInstances /\ B!Member(t) \in SegmentTags /\ Data(u, t) \in Texts
           /\ (t # 161) <=> B!Member(t) # 88
           /\ Number(u, t) = B!Cuts(Len(Data(u, t)))
           /\ Sealed(k, u, t).out = B!Protect(Start(k, t), B!Member(t), Data(u, t)).out
<1>1. Number(u, t) = B!Cuts(Len(Data(u, t))) /\ Sealed(k, u, t).out = B!Protect(Start(k, t), B!Member(t), Data(u, t)).out
  BY DEF Number, Sealed
<1>. QED  BY <1>1, SequenceTypes

\* One segment of the sequence t, opened.
Opened(c, seg, t) == B!Open(c, seg, t # 161)

\* One segment, read where the other end is: if it can be opened it is the next one,
\* and the next one can.
ReadRight(k, u, t, i, seg) ==
    LET out == Sealed(k, u, t).out
        d == Opened(After(Start(k, t), out, i), seg, t)
    IN  /\ d.ok => i + 1 \in 1..Number(u, t) /\ seg = out[i + 1]
        /\ i + 1 \in 1..Number(u, t) /\ seg = out[i + 1] =>
              /\ d.ok /\ d.bsp = After(Start(k, t), out, i + 1)
              /\ Beginning(Data(u, t), i) \o d.val = Beginning(Data(u, t), i + 1)

\* This is so for every segment of the sequence.
LEMMA ReadOne ==
    ASSUME NEW k \in {"session", "ppk"}, NEW u \in Texts, NEW t \in PackageTags, NEW i \in 0..Number(u, t),
           NEW seg \in S!ToSet(Sealed(k, u, t).out)
    PROVE  ReadRight(k, u, t, i, seg)
<1>. DEFINE b == Start(k, t)
            m == B!Member(t)
            x == Data(u, t)
            n == B!Cuts(Len(x))
            enc == t # 161
            out == Sealed(k, u, t).out
            c == After(b, out, i)
            text == Beginning(x, i)
            d == Opened(c, seg, t)
<1>1. b \in BspInstances /\ m \in SegmentTags /\ x \in Texts /\ out = B!Protect(b, m, x).out /\ Number(u, t) = n /\ i \in 0..n
  BY SealedIs
<1>2. enc \in BOOLEAN /\ (enc <=> m # 88)
  BY SealedIs
<1>3. c = After(b, out, i) /\ text = Beginning(x, i) /\ d = B!Open(c, seg, enc) /\ seg \in S!ToSet(out)
  BY DEF Opened
<1>. HIDE DEF b, m, x, enc, out, c, text, d
<1>4. d.ok => B!Verify(c, seg)
  <2>. DEFINE e == IF enc THEN B!Decrypt(c, seg.val) ELSE [ok |-> TRUE, val |-> seg.val.text]
              y == B!Advance(c, B!Auth(c, seg.tag, seg.val))
              o == B!Verify(c, seg) /\ e.ok
  <2>1. d = [ok |-> o, val |-> e.val, bsp |-> y]
    BY <1>3 DEF B!Open
  <2>. HIDE DEF e, y, o
  <2>2. d.ok = o
    BY <2>1
  <2>. QED  BY <2>2, Zenon DEF o
<1>5. d.ok => i + 1 \in 1..n /\ seg = out[i + 1]
  <2>1. SUFFICES ASSUME B!Verify(After(b, out, i), seg) PROVE i + 1 \in 1..n /\ seg = out[i + 1]
    BY <1>3, <1>4
  <2>. HIDE DEF n
  <2>2. n = B!Cuts(Len(x))
    BY DEF n
  <2>. QED  BY <1>1, <1>3, <2>1, <2>2, Refuses
<1>6. ASSUME i + 1 \in 1..n, seg = out[i + 1]
      PROVE  d.ok /\ d.bsp = After(b, out, i + 1) /\ text \o d.val = Beginning(x, i + 1)
  <2>. DEFINE j == i + 1
  <2>1. j \in 1..n /\ j - 1 = i
    BY <1>1, <1>6
  <2>. HIDE DEF j, n
  <2>2. B!Open(After(b, out, j - 1), out[j], enc) = [ok |-> TRUE, val |-> B!Piece(x, j), bsp |-> After(b, out, j)]
    BY <1>1, <1>2, <2>1, Receives DEF n
  <2>3. d = [ok |-> TRUE, val |-> B!Piece(x, j), bsp |-> After(b, out, j)]
    BY <1>3, <1>6, <2>1, <2>2 DEF j
  <2>4. Beginning(x, j - 1) \o B!Piece(x, j) = Beginning(x, j)
    BY <1>1, <2>1, Pieces DEF n
  <2>5. text \o B!Piece(x, j) = Beginning(x, j)
    BY <1>3, <2>1, <2>4
  <2>. QED  BY <2>3, <2>5 DEF j
<1>. QED  BY <1>1, <1>5, <1>6 DEF ReadRight, b, x, out, c, text, d


\* A segment that can be opened takes the other end one piece further.
LEMMA DecodeSegmentStep ==
    ASSUME PackageInv, B!DecodeSegment
    PROVE  PackageInv'
<1>. DEFINE k == keys
            u == upp
            t == pkg[1].tag
            segs == pkg[1].segs
            out == Sealed(k, u, t).out
            seg == segs[1]
            n == Number(u, t)
            d == Opened(peer, seg, t)
            new == With(pkg, 1, Tail(segs))
<1>1. /\ state = "decoding" /\ pkg \in Seq(LooseParts(k, u)) /\ Chained(pkg)
      /\ k \in {"session", "ppk"} /\ u \in B!Profiles /\ u \in Texts
      /\ ~faulty => Untouched(pkg, k, u)
      /\ \/ \E i \in Nat : Reached(pkg, k, u, peer, got, i, faulty)
         \/ KeysLost(pkg, k, peer, got, faulty)
  <2>1. u \in B!Profiles
    BY DEF PackageInv
  <2>. QED  BY <2>1, ProfileIsText DEF PackageInv, B!DecodeSegment
<1>2. faulty \in BOOLEAN
  BY DEF PackageInv
<1>3. pkg # <<>> /\ Head(pkg) = pkg[1] /\ segs # <<>> /\ 1 \in DOMAIN pkg /\ Len(pkg) \in Nat /\ DOMAIN pkg = 1..Len(pkg)
  <2>1. pkg # <<>> /\ Head(pkg).segs # <<>>
    BY DEF B!DecodeSegment
  <2>2. Head(pkg) = pkg[1]
    BY <1>1, <2>1, HeadTailProperties
  <2>3. 1 \in DOMAIN pkg
    BY <1>1, <2>1, LenProperties, EmptySeq
  <2>. QED  BY <1>1, <2>1, <2>2, <2>3, LenProperties
<1>4. /\ t \in PackageTags /\ segs \in Seq(S!ToSet(out)) /\ out \in Seq(Segments)
  BY <1>1, <1>3, LoosePart
<1>5. n \in Nat /\ Len(out) = n
  BY <1>1, <1>4, SequenceTypes
<1>6. seg = Head(segs) /\ seg \in S!ToSet(out) /\ Tail(segs) \in Seq(S!ToSet(out))
  <2>. DEFINE V == S!ToSet(out)
              s == segs
  <2>1. s \in Seq(V) /\ s # <<>>
    BY <1>3, <1>4
  <2>. HIDE DEF V, s
  <2>2. s[1] = Head(s) /\ Head(s) \in V /\ Tail(s) \in Seq(V)
    BY <2>1, HeadTailProperties
  <2>. QED  BY <2>2 DEF V, s
<1>7. /\ (d.ok => state' = "decoding") /\ (~d.ok => state' = "error")
      /\ peer' = d.bsp /\ got' = got \o d.val /\ pkg' = new
      /\ UNCHANGED <<upp, keys, ppp, bsp, faulty>>
  <2>1. d = B!Open(peer, Head(Head(pkg).segs), Head(pkg).tag # 161)
    BY <1>3, <1>6 DEF Opened
  <2>2. pkg' = [pkg EXCEPT ![1].segs = Tail(@)]
    BY DEF B!DecodeSegment
  <2>3. pkg' = new
    BY <2>2 DEF With
  <2>. HIDE DEF d, new
  <2>. QED  BY <1>1, <2>1, <2>3 DEF B!DecodeSegment
<1>8. /\ new \in Seq(LooseParts(k, u)) /\ Len(new) = Len(pkg)
      /\ \A x \in DOMAIN pkg : new[x].tag = pkg[x].tag
      /\ \A x \in DOMAIN pkg : x # 1 => new[x] = pkg[x]
      /\ new[1].segs = Tail(segs)
  <2>. DEFINE r == Tail(segs)
  <2>1. r \in Seq(S!ToSet(Sealed(k, u, pkg[1].tag).out))
    BY <1>6
  <2>. HIDE DEF r
  <2>2. new = With(pkg, 1, r)
    BY DEF r
  <2>3. pkg \in Seq(LooseParts(k, u)) /\ 1 \in DOMAIN pkg /\ Sealed(k, u, pkg[1].tag).out \in Seq(Segments)
    BY <1>1, <1>3, <1>4
  <2>. HIDE DEF new, k, u
  <2>4. /\ new \in Seq(LooseParts(k, u)) /\ Len(new) = Len(pkg)
        /\ \A x \in DOMAIN pkg : new[x].tag = pkg[x].tag
        /\ \A x \in DOMAIN pkg : x # 1 => new[x] = pkg[x]
        /\ new[1].segs = r
    BY <2>1, <2>2, <2>3, OtherSegments
  <2>. QED  BY <2>4 DEF r
<1>. HIDE DEF new, d
<1>9. Chained(new)
  <2>1. new # <<>>
    BY <1>3, <1>8, EmptySeq
  <2>2. \A q \in 1..(Len(pkg) - 1) : q \in DOMAIN pkg /\ q + 1 \in DOMAIN pkg
    BY <1>3
  <2>3. Len(pkg) \in DOMAIN pkg
    BY <1>3
  <2>. DEFINE y == Len(pkg)
  <2>4. new[y].tag = 163 /\ Len(new) = y
    BY <1>1, <1>8, <2>3 DEF Chained
  <2>5. ASSUME NEW q \in 1..(y - 1)
        PROVE  \/ new[q].tag = 160 /\ new[q + 1].tag = 161
               \/ new[q].tag = 161 /\ new[q + 1].tag \in {162, 163}
               \/ new[q].tag = 162 /\ new[q + 1].tag = 163
    <3>1. new[q].tag = pkg[q].tag /\ new[q + 1].tag = pkg[q + 1].tag
      BY <1>8, <2>2
    <3>. QED  BY <1>1, <3>1 DEF Chained
  <2>. HIDE DEF y
  <2>. QED  BY <2>1, <2>4, <2>5 DEF Chained
<1>10. ~faulty => Untouched(new, k, u)
  <2>1. \A q \in 2..Len(pkg) : q \in DOMAIN pkg /\ q # 1 /\ q - 1 \in DOMAIN pkg
    BY <1>3
  <2>. QED  BY <1>1, <1>8, <2>1 DEF Untouched
<1>11. (upp \in B!Profiles)' /\ (keys \in {"session", "ppk"})' /\ (faulty \in BOOLEAN)'
  BY <1>1, <1>2, <1>7
<1>12. ASSUME NEW i \in Nat, Reached(pkg, k, u, peer, got, i, faulty)
       PROVE  (d.ok => Reached(new, k, u, peer', got', i + 1, faulty)) /\ (~d.ok => faulty)
  <2>1. /\ i \in 0..n /\ peer = After(Start(k, t), out, i) /\ got = Beginning(Data(u, t), i)
        /\ faulty \/ segs = From(out, i)
    BY <1>12 DEF Reached
  <2>2. /\ d.ok => i + 1 \in 1..n /\ seg = out[i + 1]
        /\ i + 1 \in 1..n /\ seg = out[i + 1] =>
              d.ok /\ d.bsp = After(Start(k, t), out, i + 1) /\ got \o d.val = Beginning(Data(u, t), i + 1)
    <3>1. d = Opened(peer, seg, t) /\ out = Sealed(k, u, t).out /\ n = Number(u, t)
      BY DEF d
    <3>2. k \in {"session", "ppk"} /\ u \in Texts /\ t \in PackageTags /\ seg \in S!ToSet(out)
      BY <1>1, <1>4, <1>6
    <3>. HIDE DEF k, u, t, out, n, seg
    <3>3. ReadRight(k, u, t, i, seg)
      BY <2>1, <3>1, <3>2, ReadOne
    <3>. QED  BY <2>1, <3>1, <3>3 DEF ReadRight
  <2>3. ASSUME ~faulty PROVE i + 1 \in 1..n /\ seg = out[i + 1] /\ Tail(segs) = From(out, i + 1)
    <3>1. segs = From(out, i) /\ i \in 0..Len(out)
      BY <1>5, <2>1, <2>3
    <3>. HIDE DEF out, segs
    <3>2. (segs = <<>> <=> i = Len(out)) /\ (i < Len(out) => segs[1] = out[i + 1] /\ Tail(segs) = From(out, i + 1))
      BY <1>4, <3>1, Rest
    <3>3. i < n /\ i + 1 \in 1..n
      <4>1. n \in Nat /\ i \in 0..n /\ i # n
        BY <1>3, <1>5, <3>1, <3>2
      <4>. HIDE DEF n
      <4>. QED  BY <4>1
    <3>. QED  BY <1>5, <3>2, <3>3 DEF segs, out
  <2>4. ~d.ok => faulty
    BY <1>2, <2>2, <2>3
  <2>5. ASSUME d.ok PROVE Reached(new, k, u, peer', got', i + 1, faulty)
    <3>1. i + 1 \in 1..n /\ peer' = After(Start(k, t), out, i + 1) /\ got' = Beginning(Data(u, t), i + 1)
      BY <1>7, <2>2, <2>5
    <3>2. faulty \/ Tail(segs) = From(out, i + 1)
      BY <1>2, <2>3
    <3>3. i + 1 \in 0..n
      <4>. HIDE DEF n
      <4>. QED  BY <3>1
    <3>4. new[1].tag = t /\ new[1].segs = Tail(segs)
      BY <1>3, <1>8
    <3>. HIDE DEF t, segs
    <3>. QED  BY <3>1, <3>2, <3>3, <3>4 DEF Reached
  <2>. QED  BY <2>4, <2>5
<1>13. ASSUME KeysLost(pkg, k, peer, got, faulty)
       PROVE  ~d.ok /\ faulty
  <2>1. t = 163 /\ k = "ppk" /\ peer \in BspInstances /\ peer.s = "session" /\ faulty
    BY <1>13 DEF KeysLost
  <2>2. Start(k, t).s = "ppk"
    BY <2>1 DEF Start, B!Replaced, B!New
  <2>3. Start(k, t) \in BspInstances /\ B!Member(t) \in SegmentTags /\ Data(u, t) \in Texts
        /\ out = B!Protect(Start(k, t), B!Member(t), Data(u, t)).out
    BY <1>1, <1>4, SealedIs
  <2>. DEFINE b == Start(k, t)
              m == B!Member(t)
              x == Data(u, t)
              o == out
  <2>4. b \in BspInstances /\ m \in SegmentTags /\ x \in Texts /\ o = B!Protect(b, m, x).out /\ peer.s # b.s /\ seg \in S!ToSet(o)
    BY <1>6, <2>1, <2>2, <2>3
  <2>. HIDE DEF b, m, x, o
  <2>5. ~B!Verify(peer, seg)
    BY <2>1, <2>4, OtherKeys
  <2>6. ~d.ok
    <3>. DEFINE enc == t # 161
                e == IF enc THEN B!Decrypt(peer, seg.val) ELSE [ok |-> TRUE, val |-> seg.val.text]
                y == B!Advance(peer, B!Auth(peer, seg.tag, seg.val))
                v == B!Verify(peer, seg) /\ e.ok
    <3>1. d = [ok |-> v, val |-> e.val, bsp |-> y]
      BY DEF B!Open, d, Opened
    <3>. HIDE DEF e, y, v
    <3>2. d.ok = v
      BY <3>1
    <3>. QED  BY <2>5, <3>2, Zenon DEF v
  <2>. QED  BY <2>1, <2>6
<1>14. CASE d.ok
  <2>1. PICK i \in Nat : Reached(pkg, k, u, peer, got, i, faulty)
    BY <1>1, <1>13, <1>14
  <2>2. Reached(new, k, u, peer', got', i + 1, faulty) /\ i + 1 \in Nat
    BY <1>12, <1>14, <2>1
  <2>3. \E j \in Nat : Reached(new, k, u, peer', got', j, faulty)
    BY <2>2
  <2>4. state' = "decoding"
    BY <1>7, <1>14
  <2>5. (\E j \in Nat : Reached(pkg, keys, upp, peer, got, j, faulty))'
    BY <1>7, <2>3
  <2>6. (pkg \in Seq(LooseParts(keys, upp)))' /\ Chained(pkg') /\ (~faulty => Untouched(pkg, keys, upp))'
    BY <1>7, <1>8, <1>9, <1>10
  <2>. QED  BY <1>11, <2>4, <2>5, <2>6 DEF PackageInv
<1>15. CASE ~d.ok
  <2>1. faulty'
    BY <1>1, <1>7, <1>12, <1>13, <1>15
  <2>2. state' = "error"
    BY <1>7, <1>15
  <2>. QED  BY <1>11, <2>1, <2>2 DEF PackageInv
<1>. QED  BY <1>14, <1>15


\* What follows the first sequence of a package.
Follows(p, k, u) ==
    /\ Tail(p) \in Seq(LooseParts(k, u)) /\ Tail(p)[1] = p[2] /\ Chained(Tail(p))
    /\ p[2].tag \in PackageTags
    /\ \/ p[1].tag = 160 /\ p[2].tag = 161
       \/ p[1].tag = 161 /\ p[2].tag \in {162, 163}
       \/ p[1].tag = 162 /\ p[2].tag = 163
    /\ Untouched(p, k, u) =>
          /\ Untouched(Tail(p), k, u) /\ p[2].segs = Sealed(k, u, p[2].tag).out
          /\ (k = "ppk" /\ p[2].tag = 163) => p[1].tag = 162

\* The next sequence of a package in order.
LEMMA TailPart ==
    ASSUME NEW k \in {"session", "ppk"}, NEW u \in Texts, NEW p \in Seq(LooseParts(k, u)), p # <<>>, Chained(p),
           p[1].tag # 163
    PROVE  Follows(p, k, u)
<1>. DEFINE n == Len(p)
            W == LooseParts(k, u)
            r == Tail(p)
<1>1. n \in Nat /\ DOMAIN p = 1..n /\ n >= 2
  <2>1. n \in Nat /\ DOMAIN p = 1..n
    BY LenProperties
  <2>2. n # 0 /\ p[n].tag = 163
    BY EmptySeq DEF Chained
  <2>3. n # 1
    BY <2>2
  <2>. HIDE DEF n
  <2>. QED  BY <2>1, <2>2, <2>3
<1>2. r \in Seq(W) /\ Len(r) = n - 1 /\ \A j \in 1..(n - 1) : r[j] = p[j + 1]
  <2>. HIDE DEF W
  <2>1. Tail(p) \in Seq(W) /\ Len(Tail(p)) = Len(p) - 1 /\ \A j \in 1..Len(Tail(p)) : Tail(p)[j] = p[j + 1]
    BY HeadTailProperties DEF W
  <2>. QED  BY <2>1
<1>. HIDE DEF r, n, W
<1>3. r[1] = p[2]
  <2>1. 1 \in 1..(n - 1) /\ 1 + 1 = 2
    BY <1>1
  <2>. QED  BY <1>2, <2>1
<1>4. \A q \in 1..(n - 1) : \/ p[q].tag = 160 /\ p[q + 1].tag = 161
                            \/ p[q].tag = 161 /\ p[q + 1].tag \in {162, 163}
                            \/ p[q].tag = 162 /\ p[q + 1].tag = 163
  BY DEF Chained, n
<1>5. \/ p[1].tag = 160 /\ p[2].tag = 161
      \/ p[1].tag = 161 /\ p[2].tag \in {162, 163}
      \/ p[1].tag = 162 /\ p[2].tag = 163
  <2>1. 1 \in 1..(n - 1) /\ 1 + 1 = 2
    BY <1>1
  <2>. QED  BY <1>4, <2>1
<1>6. Chained(r)
  <2>1. r # <<>>
    BY <1>1, <1>2, EmptySeq
  <2>2. r[n - 1] = p[n]
    <3>1. n - 1 \in 1..(n - 1) /\ (n - 1) + 1 = n
      BY <1>1
    <3>. QED  BY <1>2, <3>1
  <2>3. p[n].tag = 163
    BY DEF Chained, n
  <2>4. ASSUME NEW q \in 1..((n - 1) - 1)
        PROVE  \/ r[q].tag = 160 /\ r[q + 1].tag = 161
               \/ r[q].tag = 161 /\ r[q + 1].tag \in {162, 163}
               \/ r[q].tag = 162 /\ r[q + 1].tag = 163
    <3>. DEFINE y == q + 1
    <3>1. q \in 1..(n - 1) /\ y \in 1..(n - 1)
      BY <1>1
    <3>. HIDE DEF y
    <3>2. r[q] = p[y] /\ r[y] = p[y + 1]
      BY <1>2, <3>1 DEF y
    <3>3. \/ p[y].tag = 160 /\ p[y + 1].tag = 161
          \/ p[y].tag = 161 /\ p[y + 1].tag \in {162, 163}
          \/ p[y].tag = 162 /\ p[y + 1].tag = 163
      BY <1>4, <3>1
    <3>. QED  BY <3>2, <3>3 DEF y
  <2>. DEFINE y == n - 1
  <2>5. Len(r) = y /\ r[y].tag = 163
    BY <1>2, <2>2, <2>3
  <2>. HIDE DEF y
  <2>. QED  BY <2>1, <2>4, <2>5 DEF Chained, y
<1>7. ASSUME Untouched(p, k, u)
      PROVE  /\ Untouched(r, k, u) /\ p[2].segs = Sealed(k, u, p[2].tag).out
             /\ k = "ppk" /\ p[2].tag = 163 => p[1].tag = 162
  <2>1. \A q \in 2..n : /\ p[q].segs = Sealed(k, u, p[q].tag).out
                        /\ k = "ppk" /\ p[q].tag = 163 => p[q - 1].tag = 162
    BY <1>7 DEF Untouched, n
  <2>2. p[2].segs = Sealed(k, u, p[2].tag).out /\ (k = "ppk" /\ p[2].tag = 163 => p[1].tag = 162)
    <3>1. 2 \in 2..n /\ 2 - 1 = 1
      BY <1>1
    <3>. QED  BY <2>1, <3>1
  <2>3. ASSUME NEW q \in 2..(n - 1)
        PROVE  /\ r[q].segs = Sealed(k, u, r[q].tag).out
               /\ k = "ppk" /\ r[q].tag = 163 => r[q - 1].tag = 162
    <3>. DEFINE y == q + 1
                z == q - 1
    <3>1. q \in 1..(n - 1) /\ z \in 1..(n - 1) /\ z + 1 = q /\ y \in 2..n /\ y - 1 = q
      BY <1>1
    <3>2. r[q] = p[y] /\ r[z] = p[q]
      BY <1>2, <3>1
    <3>. HIDE DEF y, z
    <3>3. p[y].segs = Sealed(k, u, p[y].tag).out /\ (k = "ppk" /\ p[y].tag = 163 => p[q].tag = 162)
      BY <2>1, <3>1
    <3>. QED  BY <3>2, <3>3 DEF z
  <2>. DEFINE y == n - 1
  <2>4. Len(r) = y
    BY <1>2
  <2>. HIDE DEF y
  <2>5. Untouched(r, k, u)
    BY <2>3, <2>4 DEF Untouched, y
  <2>. QED  BY <2>2, <2>5
<1>8. p[2].tag \in PackageTags
  BY <1>5 DEF PackageTags
<1>. QED  BY <1>2, <1>3, <1>5, <1>6, <1>7, <1>8 DEF r, W, Follows

\* At the end of a sequence the other end is where the next one begins, or its keys
\* were not replaced and it will open nothing more.
LEMMA DecodeSequenceStep ==
    ASSUME PackageInv, B!DecodeSequence
    PROVE  PackageInv'
<1>. DEFINE k == keys
            u == upp
            t == pkg[1].tag
            segs == pkg[1].segs
            out == Sealed(k, u, t).out
            n == Number(u, t)
<1>1. /\ state = "decoding" /\ pkg \in Seq(LooseParts(k, u)) /\ Chained(pkg)
      /\ k \in {"session", "ppk"} /\ u \in B!Profiles /\ u \in Texts
      /\ ~faulty => Untouched(pkg, k, u)
      /\ \/ \E i \in Nat : Reached(pkg, k, u, peer, got, i, faulty)
         \/ KeysLost(pkg, k, peer, got, faulty)
  <2>1. u \in B!Profiles
    BY DEF PackageInv
  <2>. QED  BY <2>1, ProfileIsText DEF PackageInv, B!DecodeSequence
<1>2. faulty \in BOOLEAN
  BY DEF PackageInv
<1>3. pkg # <<>> /\ Head(pkg) = pkg[1] /\ segs = <<>> /\ 1 \in DOMAIN pkg
  <2>1. pkg # <<>> /\ Head(pkg).segs = <<>>
    BY DEF B!DecodeSequence
  <2>2. Head(pkg) = pkg[1]
    BY <1>1, <2>1, HeadTailProperties
  <2>3. 1 \in DOMAIN pkg
    BY <1>1, <2>1, LenProperties, EmptySeq
  <2>. QED  BY <2>1, <2>2, <2>3
<1>4. t \in PackageTags /\ (t = 162 => k = "ppk") /\ out \in Seq(Segments)
  BY <1>1, <1>3, LoosePart
<1>5. n \in Nat /\ Len(out) = n /\ Data(u, t) \in Texts /\ n = B!Cuts(Len(Data(u, t)))
      /\ Sealed(k, u, t).bsp = After(Start(k, t), out, n)
  BY <1>1, <1>4, SequenceTypes DEF Number
<1>6. UNCHANGED <<upp, keys, ppp, bsp, faulty>> /\ pkg' = Tail(pkg)
  BY DEF B!DecodeSequence
<1>7. (upp \in B!Profiles)' /\ (keys \in {"session", "ppk"})' /\ (faulty \in BOOLEAN)'
  BY <1>1, <1>2, <1>6
<1>8. ASSUME NEW i \in Nat, Reached(pkg, k, u, peer, got, i, faulty)
      PROVE  /\ i \in 0..n /\ peer = After(Start(k, t), out, i) /\ got = Beginning(Data(u, t), i)
             /\ got = Data(u, t) <=> i = n
             /\ ~faulty => i = n
  <2>1. /\ i \in 0..n /\ peer = After(Start(k, t), out, i) /\ got = Beginning(Data(u, t), i)
        /\ faulty \/ segs = From(out, i)
    BY <1>8 DEF Reached
  <2>2. got = Data(u, t) <=> i = n
    BY <1>5, <2>1, Beginnings
  <2>3. ~faulty => i = n
    <3>1. From(out, i) = <<>> <=> i = Len(out)
      <4>1. i \in 0..Len(out)
        BY <1>5, <2>1
      <4>. HIDE DEF out
      <4>. QED  BY <1>4, <4>1, Rest
    <3>. QED  BY <1>3, <1>5, <2>1, <3>1
  <2>. QED  BY <2>1, <2>2, <2>3
<1>9. CASE t = 163
  <2>1. state' = "done" /\ got' = got
    BY <1>3, <1>9 DEF B!DecodeSequence
  <2>2. Data(u, t) = u /\ n = Number(u, 163)
    BY <1>9 DEF Data
  <2>3. \E i \in 0..n : got = Beginning(u, i)
    <3>1. CASE \E i \in Nat : Reached(pkg, k, u, peer, got, i, faulty)
      BY <1>8, <2>2, <3>1
    <3>2. CASE KeysLost(pkg, k, peer, got, faulty)
      <4>1. got = <<>>
        BY <3>2 DEF KeysLost
      <4>2. 0 \in 0..n
        BY <1>5
      <4>3. Beginning(Data(u, t), 0) = <<>>
        BY <1>5, <4>2, Beginnings
      <4>. QED  BY <2>2, <4>1, <4>2, <4>3
    <3>. QED  BY <1>1, <3>1, <3>2
  <2>4. ~faulty => got = u
    <3>1. ~faulty => \E i \in Nat : Reached(pkg, k, u, peer, got, i, faulty)
      BY <1>1 DEF KeysLost
    <3>. QED  BY <1>8, <2>2, <3>1
  <2>5. (\E i \in 0..Number(upp, 163) : got = Beginning(upp, i))' /\ (~faulty => got = upp)'
    BY <1>6, <2>1, <2>2, <2>3, <2>4
  <2>. QED  BY <1>7, <2>1, <2>5 DEF PackageInv
<1>10. CASE t # 163
  <2>1. PICK i \in Nat : Reached(pkg, k, u, peer, got, i, faulty)
    BY <1>1, <1>10 DEF KeysLost
  <2>2. Data(u, t) = B!Request(t)
    BY <1>10 DEF Data
  <2>3. /\ got = B!Request(t) => state' = "decoding"
        /\ got # B!Request(t) => state' = "error"
        /\ peer' = (IF t = 162 THEN B!Replaced ELSE peer) /\ got' = <<>>
    BY <1>3, <1>10 DEF B!DecodeSequence
  <2>4. CASE i # n
    <3>1. state' = "error" /\ faulty
      BY <1>2, <1>8, <2>1, <2>2, <2>3, <2>4
    <3>. QED  BY <1>6, <1>7, <3>1 DEF PackageInv
  <2>5. CASE i = n
    <3>1. state' = "decoding" /\ peer = Sealed(k, u, t).bsp
      BY <1>5, <1>8, <2>1, <2>2, <2>3, <2>5
    <3>. DEFINE r == Tail(pkg)
                t2 == pkg[2].tag
    <3>2. /\ r \in Seq(LooseParts(k, u)) /\ r[1] = pkg[2] /\ Chained(r) /\ t2 \in PackageTags
          /\ (t = 160 /\ t2 = 161) \/ (t = 161 /\ t2 \in {162, 163}) \/ (t = 162 /\ t2 = 163)
          /\ ~faulty => Untouched(r, k, u) /\ pkg[2].segs = Sealed(k, u, t2).out
          /\ ~faulty /\ k = "ppk" /\ t2 = 163 => t = 162
      <4>1. Follows(pkg, k, u)
        BY <1>1, <1>3, <1>10, TailPart
      <4>. QED  BY <1>1, <4>1 DEF Follows
    <3>. HIDE DEF r
    <3>3. /\ Sealed(k, u, 160).bsp = Start(k, 161) /\ Sealed(k, u, 161).bsp = Start(k, 162)
          /\ k = "session" => Start(k, 163) = Start(k, 162)
          /\ k = "ppk" => Start(k, 163) = B!Replaced
          /\ Start(k, 162).s = "session"
      BY <1>1, SequencesChain
    <3>4. peer' = Start(k, t2) \/ (t = 161 /\ t2 = 163 /\ k = "ppk" /\ peer' = Start(k, 162))
      <4>1. CASE t = 160 /\ t2 = 161
        BY <2>3, <3>1, <3>3, <4>1
      <4>2. CASE t = 161 /\ t2 = 162
        BY <2>3, <3>1, <3>3, <4>2
      <4>3. CASE t = 161 /\ t2 = 163
        BY <1>1, <2>3, <3>1, <3>3, <4>3
      <4>4. CASE t = 162 /\ t2 = 163
        BY <1>4, <2>3, <3>3, <4>4
      <4>. QED  BY <3>2, <4>1, <4>2, <4>3, <4>4
    <3>5. \/ Reached(r, k, u, peer', got', 0, faulty)
          \/ KeysLost(r, k, peer', got', faulty)
      <4>1. CASE peer' = Start(k, t2)
        <5>1. r[1].tag = t2 /\ (faulty \/ r[1].segs = Sealed(k, u, t2).out)
          BY <1>2, <3>2
        <5>2. Reached(r, k, u, peer', <<>>, 0, faulty)
          <6>. HIDE DEF t2, k, u
          <6>. QED  BY <1>1, <1>2, <3>2, <4>1, <5>1, Begins
        <5>. QED  BY <2>3, <5>2
      <4>2. CASE t = 161 /\ t2 = 163 /\ k = "ppk" /\ peer' = Start(k, 162)
        <5>1. faulty
          BY <1>2, <3>2, <4>2
        <5>2. Start(k, 162) \in BspInstances
          <6>1. 162 \in PackageTags
            BY DEF PackageTags
          <6>. QED  BY <1>1, <6>1, SequenceTypes
        <5>. QED  BY <2>3, <3>2, <3>3, <4>2, <5>1, <5>2 DEF KeysLost
      <4>. QED  BY <3>4, <4>1, <4>2
    <3>6. (\E j \in Nat : Reached(r, k, u, peer', got', j, faulty)) \/ KeysLost(r, k, peer', got', faulty)
      BY <3>5
    <3>7. (\E j \in Nat : Reached(pkg, keys, upp, peer, got, j, faulty))' \/ KeysLost(pkg, keys, peer, got, faulty)'
      BY <1>6, <3>6 DEF r
    <3>8. (pkg \in Seq(LooseParts(keys, upp)))' /\ Chained(pkg') /\ (~faulty => Untouched(pkg, keys, upp))'
      BY <1>6, <3>2 DEF r
    <3>. QED  BY <1>7, <3>1, <3>7, <3>8 DEF PackageInv
  <2>. QED  BY <2>4, <2>5
<1>. QED  BY <1>9, <1>10

-----------------------------------------------------------------------------
(* The package, from beginning to end. *)

\* Every step keeps the invariant.
LEMMA PackageStep ==
    ASSUME PackageInv, B!Next \/ UNCHANGED package
    PROVE  PackageInv'
<1>1. CASE UNCHANGED package
  <2>1. UNCHANGED <<upp, keys, ppp, bsp, pkg, state, faulty, peer, got>>
    BY <1>1 DEF package
  <2>. QED  BY <2>1 DEF PackageInv
<1>. QED  BY <1>1, FromStep, EncodeStep, DamageStep, SplitStep, DecodeSegmentStep, DecodeSequenceStep DEF B!Next

\* ... and so it always holds.
LEMMA PackageInvariance == Spec => []PackageInv
<1>1. Init => PackageInv
  BY PackageInitial DEF Init
<1>2. PackageInv /\ [Next]_vars => PackageInv'
  <2>1. [Next]_vars => B!Next \/ UNCHANGED package
    BY DEF Next, vars
  <2>. QED  BY <2>1, PackageStep
<1>. QED  BY <1>1, <1>2, PTL DEF Spec

\* What BoundProfilePackage.encode has bound, decode reads: a package that nothing
\* has happened to is never refused and gives the profile, for a profile, segments
\* and blocks of any size, with keys of the session or of a PPP made before.
THEOREM PackagesRoundTrip == Spec => []RoundTrip
<1>1. PackageInv => RoundTrip
  BY DEF PackageInv, RoundTrip, B!RoundTrip
<1>. QED  BY <1>1, PackageInvariance, PTL

\* A package that has lost, doubled or moved segments, or lost a sequence, is
\* refused or gives a beginning of the profile (BspAlgoMac.verify, decode).
THEOREM DamageGivesBeginnings == Spec => []OnlyBeginnings
<1>1. PackageInv => OnlyBeginnings
  <2>1. SUFFICES ASSUME PackageInv, state = "done" PROVE B!IsPrefix(got, upp)
    BY DEF OnlyBeginnings, B!OnlyBeginnings
  <2>2. PICK i \in 0..Number(upp, 163) : got = Beginning(upp, i)
    BY <2>1 DEF PackageInv
  <2>3. upp \in Texts
    BY <2>1, ProfileIsText DEF PackageInv
  <2>4. Number(upp, 163) = B!Cuts(Len(upp))
    BY DEF Number, Data
  <2>. QED  BY <2>2, <2>3, <2>4, Beginnings
<1>. QED  BY <1>1, PackageInvariance, PTL

=============================================================================
