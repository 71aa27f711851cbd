---------------------------- MODULE CardProfiles ----------------------------
(***************************************************************************)
(* The card profiles, add-ons, applications and models pySim knows of, and *)
(* in which order their files are added to the tree of a card              *)
(* (pySim.profile, pySim.runtime, pySim.sysmocom_sja2).                    *)
(***************************************************************************)
EXTENDS CardFiles, FiniteSets, SequencesExt

-----------------------------------------------------------------------------
(* What is added. *)

Top == [DF_GSM |-> DF_GSM, DF_TELECOM |-> DF_TELECOM, DF_EIRENE |-> DF_EIRENE, DF_CDMA |-> DF_CDMA,
        DF_SYSTEM |-> DF_SYSTEM, EF_DIR |-> EF_DIR, EF_ICCID |-> EF_ICCID, EF_PL |-> EF_PL,
        EF_ARR |-> EF_ARR, EF_UMPC |-> EF_UMPC, USIM |-> ADF_USIM(TRUE),
        USIM_non_IMSI |-> Named(ADF_USIM(FALSE), "ADF.USIM-non-IMSI"), ISIM |-> ADF_ISIM, HPSIM |-> ADF_HPSIM,
        AUTH_KEY |-> EF_USIM_AUTH_KEY, AUTH_KEY_2G |-> EF_USIM_AUTH_KEY_2G, SQN |-> EF_USIM_SQN,
        ISIM_KEY |-> Named(EF_USIM_AUTH_KEY, "EF.ISIM_AUTH_KEY"),
        ISIM_KEY_2G |-> Named(EF_USIM_AUTH_KEY_2G, "EF.ISIM_AUTH_KEY_2G"),
        ISIM_SQN |-> Named(EF_USIM_SQN, "EF.ISIM_SQN"),
        GBA_SK |-> EF_GBA_SK, GBA_REC_LIST |-> EF_GBA_REC_LIST, GBA_INT_KEY |-> EF_GBA_INT_KEY]
Apps == {"USIM", "USIM_non_IMSI", "ISIM", "HPSIM"}

InMF(names) == [i \in DOMAIN names |-> [to |-> "MF", what |-> names[i]]]
In(adf, names) == [i \in DOMAIN names |-> [to |-> adf, what |-> names[i]]]

AddonSIM == <<"DF_GSM", "DF_TELECOM">>
AddonGSMR == <<"DF_EIRENE">>
AddonRUIM == <<"DF_CDMA">>
Addon(name) == CASE name = "SIM" -> AddonSIM [] name = "GSM-R" -> AddonGSMR [] name = "RUIM" -> AddonRUIM

CardProfileUICC ==
    [addons |-> <<"SIM", "GSM-R", "RUIM">>, apps |-> Apps,
     files |-> <<"EF_DIR", "EF_ICCID", "EF_PL", "EF_ARR", "EF_UMPC">>]
CardProfileSIM == [addons |-> <<"GSM-R">>, apps |-> {}, files |-> <<"EF_ICCID", "EF_PL", "DF_TELECOM", "DF_GSM">>]
CardProfileRUIM == [addons |-> <<>>, apps |-> {}, files |-> <<"DF_TELECOM", "DF_GSM", "DF_CDMA">>]
Profile(name) ==
    CASE name = "UICC" -> CardProfileUICC [] name = "SIM" -> CardProfileSIM [] name = "R-UIM" -> CardProfileRUIM

\* CardModel.add_files of SysmocomSJA2 and SysmocomSJA5
SysmocomSJA2(apps) ==
    InMF(<<"DF_SYSTEM">>)
    \o (IF "USIM" \in apps
        THEN In("USIM", <<"AUTH_KEY", "AUTH_KEY_2G", "GBA_SK", "GBA_REC_LIST", "GBA_INT_KEY", "SQN">>)
        ELSE <<>>)
    \o (IF "ISIM" \in apps THEN In("ISIM", <<"ISIM_KEY", "ISIM_KEY_2G", "ISIM_SQN">>) ELSE <<>>)
SysmocomSJA5(apps) == SysmocomSJA2(apps)

\* RuntimeState.__init__ and apply_matching_models, as one list
ToAdd(c) ==
    InMF(FlattenSeq([i \in DOMAIN Profile(c.profile).addons |->
                       IF Profile(c.profile).addons[i] \in c.addons
                       THEN Addon(Profile(c.profile).addons[i]) ELSE <<>>]))
    \o In("apps", SetToSeq(c.apps))
    \o InMF(Profile(c.profile).files)
    \o (CASE c.model = "SJA2" -> SysmocomSJA2(c.apps) [] c.model = "SJA5" -> SysmocomSJA5(c.apps)
          [] c.model = "none" -> <<>>)

Cards ==
    {c \in [profile : {"UICC", "SIM", "R-UIM"}, addons : SUBSET {"SIM", "GSM-R", "RUIM"},
            apps : SUBSET Apps, model : {"none", "SJA2", "SJA5"}] :
       /\ c.addons \subseteq ToSet(Profile(c.profile).addons)
       /\ c.apps \subseteq Profile(c.profile).apps}

-----------------------------------------------------------------------------
(* add_file. *)

\* Two files cannot both be added to one DF.
Clash(a, b) ==
    \/ a.fid = b.fid
    \/ a.sfid # 0 /\ a.sfid = b.sfid
    \/ a.name = b.name
Reserved(f) == f.fid = "3f00" \/ f.name \in {"..", ".", "/", "MF"}

\* add_files of a constructor: no file clashes with one added before it.
Fits(files) ==
    /\ \A i, j \in DOMAIN files : i < j => ~Clash(files[i], files[j])
    /\ \A i \in DOMAIN files : ~Reserved(files[i])
\* A service of a DF three levels down has no place in files_by_service.
HasService(f) == f.serv # {}
TooDeep(f) ==
    \E i \in DOMAIN f.files : \E j \in DOMAIN f.files[i].files :
       f.files[i].files[j].kind = "df" /\ HasService(f.files[i].files[j])
Builds(f) == Fits(f.files) /\ \A i \in DOMAIN f.files : Fits(f.files[i].files) /\ ~TooDeep(f.files[i])
Buildable == {n \in DOMAIN Top : Builds(Top[n]) /\ ~TooDeep(Top[n])}

\* The EFs a file brings with it, three levels deep at most.
EfsOf ==
    [n \in DOMAIN Top |->
       LET below(S) == UNION {ToSet(f.files) : f \in S}
           top == {Top[n]}
       IN  {f \in top \cup below(top) \cup below(below(top)) : f.kind # "df"}]

=============================================================================
