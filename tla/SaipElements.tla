---------------------------- MODULE SaipElements ----------------------------
(***************************************************************************)
(* The elements of a profile, and the indexes ProfileElementSequence       *)
(* computes of a list of them (pySim.esim.saip).                           *)
(***************************************************************************)
EXTENDS Naturals, Sequences, FiniteSets, SequencesExt

-----------------------------------------------------------------------------
(* The elements: those of the profile at first, and some to be added.        *)

Pe(type, mandated, tid, aid) == [type |-> type, mandated |-> mandated, tid |-> tid, aid |-> aid]
PE == [hdr |-> Pe("header", FALSE, "none", "none"), mf |-> Pe("mf", TRUE, "MF", "none"),
       puk |-> Pe("pukCodes", TRUE, "none", "none"), pin |-> Pe("pinCodes", TRUE, "none", "none"),
       usim |-> Pe("usim", TRUE, "USIM", "A1"), opt |-> Pe("opt-usim", FALSE, "USIMopt", "none"),
       pin2 |-> Pe("pinCodes", TRUE, "none", "none"), aka |-> Pe("akaParameter", TRUE, "none", "none"),
       sd |-> Pe("securityDomain", TRUE, "none", "none"), rfm |-> Pe("rfm", TRUE, "none", "A1"),
       end |-> Pe("end", TRUE, "none", "none"),
       isim |-> Pe("isim", TRUE, "ISIM", "A2"), rfm2 |-> Pe("rfm", TRUE, "none", "A2"),
       ssd |-> Pe("securityDomain", TRUE, "none", "none"), app |-> Pe("application", TRUE, "none", "none")]
Given == <<"hdr", "mf", "puk", "pin", "usim", "opt", "pin2", "aka", "sd", "rfm", "end">>
Spare == {"isim", "rfm2", "ssd", "app"}

Types == {PE[n].type : n \in DOMAIN PE}
Naas == {"usim", "isim"}
Type(n) == PE[n].type
HasHeader(n) == Type(n) # "header"

-----------------------------------------------------------------------------
(* The indexes. *)

\* What a loop over a list keeps of it, in its order.  (A function and not
\* SelectSeq, of which the provers know nothing.)
Keep(list, set) ==
    LET kept[i \in 0..Len(list)] ==
          IF i = 0 THEN <<>> ELSE IF list[i] \in set THEN Append(kept[i - 1], list[i]) ELSE kept[i - 1]
    IN  kept[Len(list)]

\* _rebuild_pe_by_type
ByType(list) == [t \in Types |-> Keep(list, {n \in DOMAIN PE : Type(n) = t})]

\* The instances of the list: an 'mf' or an NAA element and what follows it
\* up to the next, elements that belong to no NAA left out.
Skipped == {"securityDomain", "rfm", "application", "end"}
Starts == {"mf", "usim", "isim"}
Related(list) == Keep(list, {n \in DOMAIN PE : Type(n) \notin Skipped})
Instances(list, naa) ==
    LET rel == Related(list)
        ends(i) == {j \in (i + 1)..(Len(rel) + 1) : j = Len(rel) + 1 \/ Type(rel[j]) \in Starts}
        last(i) == (CHOOSE j \in ends(i) : \A k \in ends(i) : j <= k) - 1
        starts == Keep([i \in 1..Len(rel) |-> i], {i \in 1..Len(rel) : Type(rel[i]) = naa})
    IN  [k \in DOMAIN starts |-> SubSeq(rel, starts[k], last(starts[k]))]

\* _rebuild_pes_by_naa: the reset names another member ("pres_by_naa"), so
\* what the index had stays.  An instance listed twice is kept once.
ByNaa(list, had) ==
    [naa \in Starts |-> had[naa] \o Keep(Instances(list, naa), ToSet(Instances(list, naa)) \ ToSet(had[naa]))]
NoNaa == [naa \in Starts |-> <<>>]

=============================================================================
