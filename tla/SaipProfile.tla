----------------------------- MODULE SaipProfile -----------------------------
(***************************************************************************)
(* An eSIM profile as a sequence of profile elements                       *)
(* (ProfileElementSequence): the list, the two indexes kept beside it, the *)
(* identification numbers, the mandatory services and templates of the     *)
(* header, the keys of the security domain, the parameters that            *)
(* personalization sets, and the encoding that saip-tool writes after a    *)
(* command and reads before the next.                                      *)
(***************************************************************************)
EXTENDS SaipElements

CONSTANTS
    MaxOps,   \* bound: calls on one profile
    MaxLen,   \* bound: elements in the list
    Keys,     \* keys of a security domain: KVN and KID
    Values    \* what a parameter is set to

VARIABLES
    pe_list,   \* the elements, by name
    by_type,   \* type -> the elements pe_by_type lists
    by_naa,    \* NAA -> the instances pes_by_naa lists, each its elements
    ident,     \* element -> identification of its header, 0 for none
    services,  \* header: eUICC-Mandatory-services
    gfste,     \* header: eUICC-Mandatory-GFSTEList
    keys,      \* ProfileElementSD.keys: key -> value
    key_list,  \* decoded['keyList'] of the same element
    param,     \* <<element, field>> -> value
    der,       \* what to_der gave last
    ops        \* calls so far

vars == <<pe_list, by_type, by_naa, ident, services, gfste, keys, key_list, param, der, ops>>
content == <<gfste, keys, key_list, param, der>>

-----------------------------------------------------------------------------
(* The indexes. *)

\* _process_pelist
ProcessPeList(list) == by_type' = ByType(list) /\ by_naa' = ByNaa(list, by_naa)

\* Mutant of Renumber: an element that has a number keeps it.
RenumberNew(list) ==
    LET numbered == Keep(list, {n \in DOMAIN PE : HasHeader(n)})
    IN  [n \in DOMAIN PE |->
           IF n \in ToSet(numbered) /\ ident[n] = 0 THEN CHOOSE i \in DOMAIN numbered : numbered[i] = n
           ELSE ident[n]]

\* renumber_identification
Renumber(list) ==
    LET numbered == Keep(list, {n \in DOMAIN PE : HasHeader(n)})
    IN  [n \in DOMAIN PE |->
           IF n \in ToSet(numbered) THEN CHOOSE i \in DOMAIN numbered : numbered[i] = n ELSE ident[n]]

Op == ops < MaxOps /\ ops' = ops + 1
NumberOf(list) == [n \in DOMAIN PE |-> IF n \in ToSet(list) /\ HasHeader(n)
                                       THEN CHOOSE i \in DOMAIN list : list[i] = n ELSE 0]
Snapshot == [list |-> pe_list, ident |-> ident, services |-> services, gfste |-> gfste, keys |-> keys,
             param |-> param]
Fields == {<<"hdr", "iccid">>, <<"mf", "iccid">>, <<"usim", "imsi">>, <<"usim", "acc">>, <<"pin", "pin">>,
           <<"pin2", "pin">>, <<"puk", "puk">>, <<"aka", "key">>}

Init ==
    /\ pe_list = Given
    /\ by_type = ByType(Given) /\ by_naa = ByNaa(Given, NoNaa)
    /\ ident = NumberOf(Given)
    /\ services = {"usim", "milenage", "mbms"}
    /\ gfste \in {{}, {"MF", "USIM"}}
    /\ keys = <<>> /\ key_list = <<>>
    /\ param = [f \in Fields |-> "old"]
    /\ der = [list |-> Given, ident |-> ident, services |-> services, gfste |-> gfste, keys |-> keys, param |-> param]
    /\ ops = 0

-----------------------------------------------------------------------------
(* Elements are added and removed. *)

\* insert_at_index; append, insert_after_pe, add_ssd and do_add_app use it.
InsertPe(i, n) ==
    /\ pe_list' = SubSeq(pe_list, 1, i) \o <<n>> \o SubSeq(pe_list, i + 1, Len(pe_list))
    /\ ProcessPeList(pe_list')
    /\ ident' = Renumber(pe_list')
    /\ UNCHANGED <<services, content>>
Insertable(n) == n \in Spare \ ToSet(pe_list) /\ Len(pe_list) < MaxLen

AppendPe(n) == Op /\ Insertable(n) /\ InsertPe(Len(pe_list), n)
InsertAfterPe(b, n) == Op /\ Insertable(n) /\ InsertPe(CHOOSE i \in DOMAIN pe_list : pe_list[i] = b, n)
AddSsd ==
    /\ Op /\ Insertable("ssd") /\ by_type["securityDomain"] # <<>>
    /\ InsertPe(CHOOSE i \in DOMAIN pe_list : pe_list[i] = by_type["securityDomain"][1], "ssd")
\* do_add_app: with exactly one security domain
AddApp ==
    /\ Op /\ Insertable("app") /\ Len(by_type["securityDomain"]) = 1
    /\ InsertPe(CHOOSE i \in DOMAIN pe_list : pe_list[i] = by_type["securityDomain"][1], "app")

\* do_remove_pe, by identification or by type; do_remove_app names the
\* application's identification.
RemovePe(id, type) ==
    /\ Op
    /\ pe_list' = Keep(pe_list, {n \in DOMAIN PE : ~(ident[n] # 0 /\ ident[n] = id) /\ Type(n) # type})
    /\ pe_list' # pe_list
    /\ ProcessPeList(pe_list')
    /\ UNCHANGED <<ident, services, content>>

AdfNames(naa) == {PE[n].aid : n \in ToSet(by_type[naa])}

\* Mutant of Gone: of an instance only the element that starts it.
GoneAdf(naa) == {by_naa[naa][i][1] : i \in DOMAIN by_naa[naa]}

\* What pes_by_naa lists for the NAA, what it listed earlier included.
Gone(naa) == UNION {ToSet(by_naa[naa][i]) : i \in DOMAIN by_naa[naa]}

\* remove_naas_of_type: with a template list in the header the comparison of
\* an OID with a string raises, after the services have been changed.
RemoveNaa(naa) ==
    /\ Op /\ by_type["header"] # <<>>
    /\ services' = services \ {naa}
    /\ IF gfste # {} THEN UNCHANGED <<pe_list, by_type, by_naa>>
       ELSE LET rfms == {n \in ToSet(by_type["rfm"]) : PE[n].aid \in AdfNames(naa)}
            IN  /\ pe_list' = Keep(pe_list, DOMAIN PE \ (Gone(naa) \cup rfms))
                /\ ProcessPeList(pe_list')
    /\ UNCHANGED <<ident, content>>

-----------------------------------------------------------------------------
(* The header. *)

EditServices(s, add) ==
    /\ Op /\ "hdr" \in ToSet(pe_list)
    /\ services' = IF add THEN services \cup {s} ELSE services \ {s}
    /\ services' # services
    /\ UNCHANGED <<pe_list, by_type, by_naa, ident, content>>

\* rebuild_mandatory_services: the test for several instances looks for a
\* name in a list of lists, and never finds it.
Algorithms == IF by_type["akaParameter"] # <<>> THEN {"milenage"} ELSE {}
RebuildServices ==
    /\ Op /\ by_type["header"] # <<>> /\ by_naa["mf"] # <<>>
    /\ services' = {naa \in Naas : \E i \in DOMAIN by_naa[naa] : PE[by_naa[naa][i][1]].mandated}
                   \cup Algorithms
                   \cup (IF by_type["application"] # <<>> THEN {"javacard"} ELSE {})
                   \cup (services \cap {"mbms"})
    /\ UNCHANGED <<pe_list, by_type, by_naa, ident, content>>

\* rebuild_mandatory_gfstelist
RebuildGfste ==
    /\ Op /\ by_type["header"] # <<>>
    /\ gfste' = {PE[n].tid : n \in {n \in ToSet(pe_list) : HasHeader(n) /\ PE[n].mandated}} \ {"none"}
    /\ UNCHANGED <<pe_list, by_type, by_naa, ident, services, keys, key_list, param, der>>

-----------------------------------------------------------------------------
(* Keys, and the parameters of personalization. *)

Set(f, k, v) == [x \in DOMAIN f \cup {k} |-> IF x = k THEN v ELSE f[x]]
HasSd == "sd" \in ToSet(by_type["securityDomain"])
Same == UNCHANGED <<pe_list, by_type, by_naa, ident, services, gfste, der>>

\* add_key raises when there is one, remove_key when there is none; both
\* encode the list.
AddKey(k, v) ==
    /\ Op /\ HasSd /\ k \notin DOMAIN keys
    /\ keys' = Set(keys, k, v) /\ key_list' = keys'
    /\ Same /\ UNCHANGED param
RemoveKey(k) ==
    /\ Op /\ HasSd /\ k \in DOMAIN keys
    /\ keys' = [x \in DOMAIN keys \ {k} |-> keys[x]] /\ key_list' = keys'
    /\ Same /\ UNCHANGED param
\* SdKey.apply sets the decoded list only.
SdKey(k, v) ==
    /\ Op /\ HasSd
    /\ key_list' = Set(key_list, k, v)
    /\ Same /\ UNCHANGED <<keys, param>>

\* The places a parameter is written to: apply() of Iccid, Imsi, Pin, Puk,
\* AppPin and AlgoConfig.
Iccid(v) == {<<"hdr", "iccid">>, <<"mf", "iccid">>}
Imsi == IF by_type["usim"] = <<>> THEN {} ELSE {<<"usim", "imsi">>, <<"usim", "acc">>}
FirstPin(group) == Keep(group, {n \in DOMAIN PE : Type(n) = "pinCodes"})
Pin == {<<FirstPin(by_naa["mf"][1])[1], "pin">>}
AppPin == {<<FirstPin(by_naa["usim"][i])[1], "pin">> : i \in DOMAIN by_naa["usim"]}
Apply(where, v) ==
    /\ Op
    /\ param' = [f \in Fields |-> IF f \in where THEN v ELSE param[f]]
    /\ param' # param
    /\ Same /\ UNCHANGED <<keys, key_list>>
Personalize(v) ==
    \/ {"hdr", "mf"} \subseteq ToSet(pe_list) /\ Apply(Iccid(v), v)
    \/ Apply(Imsi, v)
    \/ FirstPin(by_naa["mf"][1]) # <<>> /\ Apply(Pin, v)
    \/ (\A i \in DOMAIN by_naa["usim"] : FirstPin(by_naa["usim"][i]) # <<>>) /\ Apply(AppPin, v)
    \/ by_type["pukCodes"] # <<>> /\ Apply({<<"puk", "puk">>}, v)
    \/ by_type["akaParameter"] # <<>> /\ Apply({<<"aka", "key">>}, v)

\* to_der: _pre_encode puts the keys of the object into the decoded list.
Encode ==
    /\ Op
    /\ der' = Snapshot
    /\ key_list' = IF HasSd THEN keys ELSE key_list
    /\ UNCHANGED <<pe_list, by_type, by_naa, ident, services, gfste, keys, param>>

\* from_der of what was written: a new object
Parse ==
    /\ Op /\ der # Snapshot
    /\ pe_list' = der.list /\ ident' = der.ident /\ services' = der.services /\ gfste' = der.gfste
    /\ keys' = der.keys /\ key_list' = der.keys /\ param' = der.param
    /\ by_type' = ByType(der.list) /\ by_naa' = ByNaa(der.list, NoNaa)
    /\ UNCHANGED der

Next ==
    \/ \E n \in Spare : AppendPe(n) \/ \E b \in ToSet(pe_list) : InsertAfterPe(b, n)
    \/ AddSsd \/ AddApp
    \/ \E n \in ToSet(pe_list) : RemovePe(ident[n], "none")
    \/ \E t \in {"rfm", "usim"} : RemovePe(0, t)
    \/ \E naa \in Naas : RemoveNaa(naa)
    \/ \E s \in {"mbms"}, add \in BOOLEAN : EditServices(s, add)
    \/ RebuildServices \/ RebuildGfste
    \/ \E k \in Keys, v \in Values : AddKey(k, v) \/ SdKey(k, v)
    \/ \E k \in Keys : RemoveKey(k)
    \/ \E v \in Values : Personalize(v)
    \/ Encode \/ Parse

Spec == Init /\ [][Next]_vars

-----------------------------------------------------------------------------

\* After any calls no two elements share a number (what
\* check_identification_unique looks for, which nothing calls before a profile
\* is written), and pe_by_type, through which every later call finds its
\* elements, lists exactly those of the profile, in their order.
IndexesAgree ==
    /\ \A m, n \in ToSet(pe_list) : m # n /\ HasHeader(m) /\ HasHeader(n) => ident[m] # ident[n] /\ ident[m] # 0
    /\ by_type = ByType(pe_list)

\* The elements of an NAA: the one of its ADF and those after it, its optional
\* files, further DFs, PINs and keys, up to the next NAA or MF.
Belongs(list, n, naa) ==
    LET rel == Related(list)
    IN  \E i, j \in DOMAIN rel :
           /\ i <= j /\ rel[j] = n /\ Type(rel[i]) = naa
           /\ \A k \in (i + 1)..j : Type(rel[k]) \notin Starts

\* Once an NAA has been removed, no element of those it had is left, and no
\* remote file management of its ADF.
NaaGone ==
    [][\A naa \in Naas : RemoveNaa(naa) /\ gfste = {}
         => \A n \in ToSet(pe_list') :
              /\ ~Belongs(pe_list, n, naa)
              /\ Type(n) = "rfm" => \A m \in ToSet(pe_list) : Type(m) = naa => PE[m].aid # PE[n].aid]_vars

\* Does not hold: with an NAA nothing else goes (ProfileElementSequence.
\* remove_naas_of_type, "remove all instances of NAAs of given type").  What
\* pes_by_naa listed before an element was inserted stays listed: an ISIM that
\* is put between the USIM and its PINs loses these with the USIM.
OnlyNaaGone ==
    [][\A naa \in Naas : RemoveNaa(naa)
         => \A n \in ToSet(pe_list) \ ToSet(pe_list') :
              Belongs(pe_list, n, naa) \/ Type(n) = "rfm"]_vars

\* rebuild_mandatory_services: "(Re-)build the eUICC Mandatory services list of
\* the ProfileHeader based on what's in the PE-Sequence".
ServicesRebuilt == [][RebuildServices => services' \cap Naas \subseteq {Type(n) : n \in ToSet(pe_list)}]_vars

==============================================================================
