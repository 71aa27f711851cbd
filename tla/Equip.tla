------------------------------- MODULE Equip -------------------------------
(***************************************************************************)
(* The file tree of a card (RuntimeState.__init__, CardModel, add_file):   *)
(* the add-ons the probe finds, the applications, the files of the profile *)
(* and those of the card model are added one after the other, and a file   *)
(* that clashes with one already there raises.  On the tree that results:  *)
(* which member of a file's class reads and which writes its decoded       *)
(* contents, and the commands of the service tables.                       *)
(***************************************************************************)
EXTENDS CardProfiles

CONSTANTS
    TableLen,    \* octets of the service tables on the card
    Services     \* service numbers that commands are given

VARIABLES
    equip,     \* the card: profile, add-ons, applications and model found
    todo,      \* what is still to be added, and where
    tree,      \* what has been added, by place
    raised,    \* ValueError
    edit,      \* the file whose decoded contents are edited, and how
    ust, sst,  \* card: the bits set in EF.UST and EF.SST
    want       \* what the commands that succeeded asked of the tables

vars == <<equip, todo, tree, raised, edit, ust, sst, want>>

-----------------------------------------------------------------------------
(* add_file. *)

Own(place) == IF place \in Apps THEN ToSet(Top[place].files) ELSE {}
ChildrenOf(place) == Own(place) \cup {Top[n] : n \in tree[place]}

Places == {"MF", "apps"} \cup Apps

Init ==
    /\ equip \in Cards
    /\ todo = ToAdd(equip)
    /\ tree = [p \in Places |-> {}]
    /\ raised = FALSE
    /\ edit = [name |-> "none"]
    /\ ust = {} /\ sst = {} /\ want = {}

\* The constructor of the next file, and add_file or add_application_df
Add ==
    /\ todo # <<>> /\ ~raised
    /\ LET a == Head(todo)
           f == Top[a.what]
           ok == /\ a.what \in Buildable
                 /\ IF a.to = "apps" THEN a.what \notin tree["apps"]
                    ELSE ~Reserved(f) /\ \A g \in ChildrenOf(a.to) : ~Clash(f, g)
       IN  /\ raised' = ~ok
           /\ tree' = IF ok THEN [tree EXCEPT ![a.to] = @ \cup {a.what}] ELSE tree
    /\ todo' = Tail(todo)
    /\ UNCHANGED <<equip, edit, ust, sst, want>>

Ready == todo = <<>> /\ ~raised

-----------------------------------------------------------------------------
(* Decoded contents. *)

FirstOf(order, codec) ==
    LET there == SelectSeq(order, LAMBDA m : m \in codec)
    IN  IF there = <<>> THEN "none" ELSE there[1]

\* TransparentEF, LinFixedEF (and CyclicEF) and TransRecEF: the members that
\* decode and encode look for, in their order; TransRecEF goes through the octets.
TransparentDecoder(codec) == FirstOf(<<"decode_hex", "decode_bin", "construct", "tlv">>, codec)
TransparentEncoder(codec) == FirstOf(<<"encode_hex", "encode_bin", "construct", "tlv">>, codec)
LinFixedDecoder(codec) == FirstOf(<<"decode_record_hex", "decode_record_bin", "construct", "tlv">>, codec)
LinFixedEncoder(codec) == FirstOf(<<"encode_record_hex", "encode_record_bin", "construct", "tlv">>, codec)
TransRecDecoder(codec) == FirstOf(<<"decode_record_bin", "decode_record_hex", "construct", "tlv">>, codec)
TransRecEncoder(codec) == FirstOf(<<"encode_record_bin", "encode_record_hex", "construct", "tlv">>, codec)

Decoder(f) ==
    CASE f.kind = "transparent" -> TransparentDecoder(f.codec)
      [] f.kind \in {"linear_fixed", "cyclic"} -> LinFixedDecoder(f.codec)
      [] f.kind = "trans_rec" -> TransRecDecoder(f.codec)
      [] OTHER -> "none"

\* Mutant of Encoder: the construct goes before the methods of the class.
EncoderConstruct(f) ==
    FirstOf(<<"construct", "tlv", "encode_hex", "encode_bin", "encode_record_hex", "encode_record_bin">>, f.codec)

Encoder(f) ==
    CASE f.kind = "transparent" -> TransparentEncoder(f.codec)
      [] f.kind \in {"linear_fixed", "cyclic"} -> LinFixedEncoder(f.codec)
      [] f.kind = "trans_rec" -> TransRecEncoder(f.codec)
      [] OTHER -> "none"
Family(member) == IF member \in {"construct", "tlv", "none"} THEN member ELSE "method"

Present == UNION {tree[p] : p \in Places}

\* read_*_decoded of a file, whose result is then edited and written back.
\* Bound: before any service command, which touch nothing that is used here.
Read(f) ==
    /\ Ready /\ edit.name = "none" /\ want = {}
    /\ edit' = [name |-> f.name, fid |-> f.fid, read |-> Decoder(f), write |-> "none", file |-> f]
    /\ UNCHANGED <<equip, todo, tree, raised, ust, sst, want>>

Write ==
    /\ edit.name # "none"
    /\ edit' = IF edit.write = "none" /\ Encoder(edit.file) # "none"
               THEN [edit EXCEPT !.write = Encoder(edit.file)] ELSE [name |-> "none"]
    /\ UNCHANGED <<equip, todo, tree, raised, ust, sst, want>>

-----------------------------------------------------------------------------
(* Service tables: EF.UST has a bit for a service, EF.SST two.               *)

\* Mutant of UstBit: the service numbers count from zero.
UstBitZero(service) == <<service \div 8, service % 8>>

UstBit(service) == <<(service - 1) \div 8, (service - 1) % 8>>
SstBit(service) == <<(service - 1) \div 4, ((service - 1) % 4) * 2>>
\* _decode_bin
UstActive == {p[1] * 8 + p[2] + 1 : p \in ust}
SstState(bit) == {i + 1 : i \in {i \in 0..(TableLen * 4 - 1) : <<i \div 4, (i % 4) * 2 + bit>> \in sst}}

\* ust_update: a service beyond the end of the table raises.
UstUpdate(s, on) ==
    /\ Ready /\ edit.name = "none" /\ "USIM" \in tree["apps"]
    /\ UstBit(s)[1] < TableLen
    /\ ust' = IF on THEN ust \cup {UstBit(s)} ELSE ust \ {UstBit(s)}
    /\ want' = IF on THEN want \cup {<<"ust", s>>} ELSE want \ {<<"ust", s>>}
    /\ UNCHANGED <<equip, todo, tree, raised, edit, sst>>

\* _adjust_service: bit 0 allocates, bit 1 activates; beyond the end the
\* card refuses to read.
SstAdjust(s, bit, on) ==
    /\ Ready /\ edit.name = "none" /\ "DF_GSM" \in tree["MF"]
    /\ LET b == <<SstBit(s)[1], SstBit(s)[2] + bit>>
       IN  /\ b[1] < TableLen
           /\ sst' = IF on THEN sst \cup {b} ELSE sst \ {b}
    /\ want' = IF on THEN want \cup {<<"sst", bit, s>>} ELSE want \ {<<"sst", bit, s>>}
    /\ UNCHANGED <<equip, todo, tree, raised, edit, ust>>

\* do_ust_service_check, beyond the files: the names 'ADF.ISIM' is looked up
\* in (get_app_names) are the ADF objects, so it is never found.
AppNames == tree["apps"]
ServiceProblems ==
    {s \in UstActive : \/ s = 46 /\ 45 \notin UstActive
                       \/ s = 125 /\ 124 \notin UstActive
                       \/ s \in {95, 99, 115} /\ "ADF.ISIM" \in AppNames}

-----------------------------------------------------------------------------

Next ==
    \/ Add
    \/ \E n \in Present : \E f \in EfsOf[n] : Read(f)
    \/ Write
    \/ \E s \in Services, on \in BOOLEAN : UstUpdate(s, on) \/ \E bit \in {0, 1} : SstAdjust(s, bit, on)

Spec == Init /\ [][Next]_vars

\* Whatever combination of profile, add-ons, applications and model is found,
\* its tree can be built: no two files of one DF share fid, sfid or name.
EveryCardEquips == ~raised

\* What one mechanism of a class has decoded is never encoded by another
\* (decode_*/encode_* choose among the members a class happens to have).
EncodedAsDecoded == edit.name # "none" /\ edit.write # "none" => Family(edit.write) = Family(edit.read)

\* After any sequence of commands the service tables say what was asked, no
\* command having touched another service's bits.
ServicesAsAsked ==
    /\ UstActive = {s \in Services : <<"ust", s>> \in want}
    /\ \A bit \in {0, 1} : SstState(bit) = {s \in Services : <<"sst", bit, s>> \in want}

\* do_ust_service_check: "Service no. 95, no. 99 and no. 115 shall not be declared
\* available if an ISIM application is present on the UICC".
IsimServices == "ISIM" \in tree["apps"] => {95, 99, 115} \cap UstActive \subseteq ServiceProblems

=============================================================================
