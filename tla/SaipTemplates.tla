---------------------------- MODULE SaipTemplates ----------------------------
(***************************************************************************)
(* The file templates of a profile (pySim.esim.saip.templates): one        *)
(* definition per template class, its files in their order, each with the  *)
(* fid, the type, the number of records and the size the template has (0   *)
(* for None), what the default value pattern fills, and the parent path.   *)
(* Access rules, short identifiers and services are left out.              *)
(***************************************************************************)
EXTENDS Naturals, Sequences

\* A default value: Dots(p, s) is p octets, "...", s octets; Lit(n) n octets;
\* Rep(n) n octets given with repeat=True.
None == [kind |-> "none", pre |-> 0, suf |-> 0]
Lit(n) == [kind |-> "lit", pre |-> n, suf |-> 0]
Rep(n) == [kind |-> "rep", pre |-> n, suf |-> 0]
Dots(p, s) == [kind |-> "dots", pre |-> p, suf |-> s]

\* FileTemplate.__init__
FileTemplate(fid, name, type, nb_rec, size, default) ==
    [fid |-> fid, name |-> name, type |-> type, nb_rec |-> nb_rec, size |-> size, default |-> default, ppath |-> 0]
MFT(fid, name) == FileTemplate(fid, name, "MF", 0, 0, None)
ADFT(fid, name) == FileTemplate(fid, name, "ADF", 0, 0, None)
DFT(fid, name) == FileTemplate(fid, name, "DF", 0, 0, None)
TR(fid, name, size, default) == FileTemplate(fid, name, "TR", 1, size, default)
BT(fid, name, size, default) == FileTemplate(fid, name, "BT", 1, size, default)
LF(fid, name, nb_rec, size, default) == FileTemplate(fid, name, "LF", nb_rec, size, default)
CY(fid, name, nb_rec, size, default) == FileTemplate(fid, name, "CY", nb_rec, size, default)

\* ppath=[df] of every file of a list; a loop over n consecutive fids.
Below(df, files) == [i \in DOMAIN files |-> [files[i] EXCEPT !.ppath = df]]
Run(file, n) == [i \in 1..n |-> [file EXCEPT !.fid = @ + i - 1]]

df_pb_files ==
    <<DFT(\h5F3A, "DF.PHONEBOOK")>>
    \o Below(\h5F3A, <<LF(\h4F30, "EF.PBR", 0, 0, None)>>)
    \o Below(\h5F3A, Run(LF(\h4F38, "EF.EXT1", 0, 13, Dots(2, 1)), 8))
    \o Below(\h5F3A, Run(LF(\h4F40, "EF.AAS", 0, 0, Dots(1, 1)), 8))
    \o Below(\h5F3A, Run(LF(\h4F48, "EF.GAS", 0, 0, Dots(1, 1)), 8))
    \o Below(\h5F3A, <<TR(\h4F22, "EF.PSC", 4, Lit(4)), TR(\h4F23, "EF.CC", 2, Lit(2)),
            TR(\h4F24, "EF.PUID", 2, Lit(2))>>)
    \o Below(\h5F3A, Run(LF(\h4F50, "EF.IAP", 0, 0, Dots(1, 1)), 8))
    \o Below(\h5F3A, Run(LF(\h4F58, "EF.ADN", 0, 0, Dots(1, 1)), 8))
    \o Below(\h5F3A, Run(LF(\h4F60, "EF.ADN", 0, 2, Dots(1, 1)), 8))
    \o Below(\h5F3A, Run(LF(\h4F68, "EF.ANR", 0, 0, Dots(1, 1)), 8))
    \o Below(\h5F3A, Run(LF(\h4F70, "EF.PURI", 0, 0, None), 8))
    \o Below(\h5F3A, Run(LF(\h4F78, "EF.EMAIL", 0, 0, Dots(1, 1)), 8))
    \o Below(\h5F3A, Run(LF(\h4F80, "EF.SNE", 0, 0, Dots(1, 1)), 8))
    \o Below(\h5F3A, Run(LF(\h4F88, "EF.UID", 0, 2, Lit(2)), 8))
    \o Below(\h5F3A, Run(LF(\h4F90, "EF.GRP", 0, 0, Dots(1, 1)), 8))
    \o Below(\h5F3A, Run(LF(\h4F98, "EF.CCP1", 0, 0, Dots(1, 1)), 8))
FilesAtMF ==
    <<MFT(\h3F00, "MF"), TR(\h2F05, "EF.PL", 2, Dots(1, 1)), TR(\h2F02, "EF.ICCID", 10, None),
          LF(\h2F00, "EF.DIR", 0, 0, None), LF(\h2F06, "EF.ARR", 0, 0, None), TR(\h2F08, "EF.UMPC", 5, None)>>
FilesCD ==
    <<DFT(\h7F11, "DF.CD"), TR(\h6F01, "EF.LAUNCHPAD", 0, None)>>
    \o Run(TR(\h6F40, "EF.ICON", 0, None), 63)
FilesTelecom ==
    <<DFT(\h7F10, "DF.TELECOM"), LF(\h6F06, "EF.ARR", 0, 0, None), LF(\h6F53, "EF.RMA", 0, 0, None),
          TR(\h6F54, "EF.SUME", 22, None), LF(\h6FE0, "EF.ICE_DN", 50, 24, Dots(1, 1)),
          LF(\h6FE1, "EF.ICE_FF", 0, 0, Dots(1, 1)), LF(\h6FE5, "EF.PSISMSC", 0, 0, None),
          DFT(\h5F50, "DF.GRAPHICS")>>
    \o Below(\h5F50, <<LF(\h4F20, "EF.IMG", 0, 0, Dots(2, 1)), BT(\h4F21, "EF.ICE_GRAPHICS", 0, None),
            TR(\h4F01, "EF.LAUNCH_SCWS", 0, None)>>)
    \o Below(\h5F50, Run(TR(\h4F40, "EF.IIDF", 0, Dots(1, 1)), 64))
    \o Below(\h5F50, Run(TR(\h4F80, "EF.ICON", 0, None), 64))
    \o df_pb_files
    \o <<DFT(\h5F3B, "DF.MULTIMEDIA")>>
    \o Below(\h5F3B, <<BT(\h4F47, "EF.MML", 0, None), BT(\h4F48, "EF.MMDF", 0, None)>>)
    \o <<DFT(\h5F3C, "DF.MMSS")>>
    \o Below(\h5F3C, <<TR(\h4F20, "EF.MLPL", 0, None), TR(\h4F21, "EF.MSPL", 0, None),
            TR(\h4F21, "EF.MMSSMODE", 1, None)>>)
FilesTelecomV2 ==
    [FilesTelecom EXCEPT ![10].name = "EF.ICE_GRRAPHICS"]
    \o <<DFT(\h5F3D, "DF.MCS")>>
    \o Below(\h5F3D, <<TR(\h4F01, "EF.MST", 0, None), BT(\h4F02, "EF.MCSCONFIG", 0, None)>>)
    \o <<DFT(\h5F3E, "DF.V2X")>>
    \o Below(\h5F3E, <<TR(\h4F01, "EF.VST", 0, None), BT(\h4F02, "EF.V2X_CONFIG", 0, None),
            TR(\h4F03, "EF.V2XP_PC5", 0, None), TR(\h4F04, "EF.V2XP_Uu", 0, None)>>)
FilesUsimMandatory ==
    <<ADFT(0, "ADF.USIM"), TR(\h6F07, "EF.IMSI", 9, None), LF(\h6F06, "EF.ARR", 0, 0, None),
          TR(\h6F08, "EF.Keys", 33, Dots(2, 1)), TR(\h6F09, "EF.KeysPS", 33, Dots(2, 1)),
          TR(\h6F31, "EF.HPPLMN", 1, Lit(1)), TR(\h6F38, "EF.UST", 14, None),
          LF(\h6F3B, "EF.FDN", 20, 26, Dots(1, 1)), LF(\h6F3C, "EF.SMS", 10, 176, Dots(2, 1)),
          LF(\h6F42, "EF.SMSP", 1, 38, Dots(1, 1)), TR(\h6F43, "EF.SMSS", 2, Lit(2)),
          TR(\h6F46, "EF.SPN", 17, None), TR(\h6F56, "EF.EST", 1, None), TR(\h6F5B, "EF.START-HFN", 6, Lit(6)),
          TR(\h6F5C, "EF.THRESHOLD", 3, Lit(3)), TR(\h6F73, "EF.PSLOCI", 14, Lit(14)),
          TR(\h6F78, "EF.ACC", 2, None), TR(\h6F7B, "EF.FPLMN", 12, Dots(1, 1)),
          TR(\h6F7E, "EF.LOCI", 11, Lit(11)), TR(\h6FAD, "EF.AD", 4, Lit(4)), LF(\h6FB7, "EF.ECC", 1, 4, None),
          TR(\h6FC4, "EF.NETPAR", 128, Dots(1, 1)), TR(\h6FE3, "EF.EPSLOCI", 18, Lit(18)),
          LF(\h6FE4, "EF.EPSNSC", 1, 80, Dots(1, 1))>>
FilesUsimMandatoryV2 ==
    [FilesUsimMandatory EXCEPT ![7] = TR(\h6F38, "EF.UST", 17, None)]
FilesUsimOptional ==
    <<TR(\h6F05, "EF.LI", 6, Dots(1, 1)), TR(\h6F37, "EF.ACMmax", 3, Lit(3)),
          CY(\h6F39, "EF.ACM", 1, 3, Lit(3)), TR(\h6F3E, "EF.GID1", 8, None), TR(\h6F3F, "EF.GID2", 8, None),
          LF(\h6F40, "EF.MSISDN", 1, 24, Dots(1, 1)), TR(\h6F41, "EF.PUCT", 5, Lit(5)),
          TR(\h6F45, "EF.CBMI", 10, Dots(1, 1)), TR(\h6F48, "EF.CBMID", 10, Dots(1, 1)),
          LF(\h6F49, "EF.SDN", 10, 24, Dots(1, 1)), LF(\h6F4B, "EF.EXT2", 10, 13, Dots(2, 1)),
          LF(\h6F4C, "EF.EXT3", 10, 13, Dots(2, 1)), TR(\h6F50, "EF.CBMIR", 20, Dots(1, 1)),
          TR(\h6F60, "EF.PLMNwAcT", 40, Rep(5)), TR(\h6F61, "EF.OPLMNwAcT", 40, Rep(5)),
          TR(\h6F62, "EF.HPLMNwAcT", 5, Rep(5)), TR(\h6F2C, "EF.DCK", 16, Dots(1, 1)),
          TR(\h6F32, "EF.CNL", 30, Dots(1, 1)), LF(\h6F47, "EF.SMSR", 10, 30, Dots(2, 1)),
          LF(\h6F4D, "EF.BDN", 10, 25, Dots(1, 1)), LF(\h6F4E, "EF.EXT5", 10, 13, Dots(2, 1)),
          LF(\h6F4F, "EF.CCP2", 5, 15, Dots(1, 1)), LF(\h6F55, "EF.EXT4", 10, 13, Dots(2, 1)),
          TR(\h6F57, "EF.ACL", 101, Dots(2, 1)), LF(\h6F58, "EF.CMI", 10, 11, Dots(1, 1)),
          CY(\h6F80, "EF.ICI", 20, 38, Dots(1, 8)), CY(\h6F81, "EF.OCI", 20, 37, Dots(1, 7)),
          CY(\h6F82, "EF.ICT", 1, 3, Lit(3)), CY(\h6F83, "EF.OCT", 1, 3, Lit(3)),
          TR(\h6FB1, "EF.VGCS", 20, None), TR(\h6FB2, "EF.VGCSS", 7, None), TR(\h6FB3, "EF.VBS", 20, None),
          TR(\h6FB4, "EF.VBSS", 7, None), TR(\h6FB5, "EF.eMLPP", 2, None), TR(\h6FB6, "EF.AaeM", 1, Lit(1)),
          TR(\h6FC3, "EF.HiddenKey", 4, Dots(1, 1)), LF(\h6FC5, "EF.PNN", 10, 16, None),
          LF(\h6FC6, "EF.OPL", 5, 8, None), LF(\h6FC7, "EF.MBDN", 3, 24, None),
          LF(\h6FC8, "EF.EXT6", 10, 13, Dots(2, 1)), LF(\h6FC9, "EF.MBI", 10, 5, None),
          LF(\h6FCA, "EF.MWIS", 10, 6, Dots(1, 1)), LF(\h6FCB, "EF.CFIS", 10, 16, Dots(3, 1)),
          LF(\h6FCB, "EF.EXT7", 10, 13, Dots(2, 1)), TR(\h6FCD, "EF.SPDI", 17, None),
          LF(\h6FCE, "EF.MMSN", 10, 6, Dots(4, 1)), LF(\h6FCF, "EF.EXT8", 10, 13, Dots(2, 1)),
          TR(\h6FD0, "EF.MMSICP", 100, Dots(1, 1)), LF(\h6FD1, "EF.MMSUP", 0, 0, Dots(1, 1)),
          TR(\h6FD2, "EF.MMSUCP", 100, Dots(1, 1)), LF(\h6FD3, "EF.NIA", 5, 11, Dots(1, 1)),
          TR(\h6FD4, "EF.VGCSCA", 0, Dots(1, 1)), TR(\h6FD5, "EF.VBSCA", 0, Dots(1, 1)),
          TR(\h6FD6, "EF.GBABP", 0, Dots(1, 1)), LF(\h6FD7, "EF.MSK", 0, 0, Dots(1, 1)),
          LF(\h6FD8, "EF.MUK", 0, 0, Dots(1, 1)), TR(\h6FD9, "EF.EHPLMN", 15, Dots(1, 1)),
          LF(\h6FDA, "EF.GBANL", 0, 0, Dots(1, 1)), TR(\h6FDB, "EF.EHPLMNPI", 1, Lit(1)),
          TR(\h6FDC, "EF.LRPLMNSI", 1, Lit(1)), LF(\h6FDD, "EF.NAFKCA", 0, 0, Dots(1, 1)),
          TR(\h6FDE, "EF.SPNI", 0, Dots(2, 1)), LF(\h6FDF, "EF.PNNI", 0, 0, Dots(2, 1)),
          LF(\h6FE2, "EF.NCP-IP", 0, 0, None), TR(\h6FE6, "EF.UFC", 30, Lit(30)),
          TR(\h6FE8, "EF.NASCONFIG", 18, None), LF(\h6FE7, "EF.UICCIARI", 0, 0, None),
          TR(\h6FEC, "EF.PWS", 0, None), LF(\h6FED, "EF.FDNURI", 0, 0, Dots(1, 1)),
          LF(\h6FEE, "EF.BDNURI", 0, 0, Dots(1, 1)), LF(\h6FEF, "EF.SDNURI", 0, 0, Dots(1, 1)),
          LF(\h6FF0, "EF.IWL", 0, 0, Dots(1, 1)), CY(\h6FF1, "EF.IPS", 0, 4, Dots(1, 1)),
          LF(\h6FF2, "EF.IPD", 0, 0, Dots(1, 1))>>
FilesUsimOptionalV2 ==
    [FilesUsimOptional EXCEPT
        ![14] = TR(\h6F60, "EF.PLMNwAcT", 40, Lit(40)),
        ![15] = TR(\h6F61, "EF.OPLMNwAcT", 40, Lit(40)),
        ![16] = TR(\h6F62, "EF.HPLMNwAcT", 5, Lit(5))]
    \o <<TR(\h6FF3, "EF.EPDGID", 0, None), TR(\h6FF4, "EF.EPDGSELECTION", 0, None),
          TR(\h6FF5, "EF.EPDGIDEM", 0, None), TR(\h6FF6, "EF.EPDGIDEMSEL", 0, None),
          TR(\h6FF7, "EF.FromPreferred", 1, Lit(1)), BT(\h6FF8, "EF.IMSConfigData", 0, None),
          TR(\h6FF9, "EF.3GPPPSDataOff", 4, None), LF(\h6FFA, "EF.3GPPPSDOSLIST", 0, 0, None),
          BT(\h6FFC, "EF.XCAPConfigData", 0, None), TR(\h6FFD, "EF.EARFCNLIST", 0, None),
          BT(\h6FFD, "EF.MudMidCfgdata", 0, None)>>
FilesUsimOptionalV3 == FilesUsimOptionalV2 \o
    <<TR(\h6F01, "EF.eAKA", 1, None)>>
FilesUsimDfPhonebook == df_pb_files
FilesUsimDfGsmAccess ==
    <<DFT(\h5F3B, "DF.GSM-ACCESS"), TR(\h4F20, "EF.Kc", 9, Dots(1, 2)), TR(\h4F52, "EF.KcGPRS", 9, Dots(1, 2)),
          TR(\h4F63, "EF.CPBCCH", 10, Dots(1, 1)), TR(\h4F64, "EF.InvScan", 1, Lit(1))>>
FilesUsimDf5GS ==
    <<DFT(\h6FC0, "DF.5GS"), TR(\h4F01, "EF.5GS3GPPLOCI", 20, Lit(20)),
          TR(\h4F02, "EF.5GSN3GPPLOCI", 20, Lit(20)), LF(\h4F03, "EF.5GS3GPPNSC", 1, 57, Dots(1, 1)),
          LF(\h4F04, "EF.5GSN3GPPNSC", 1, 57, Dots(1, 1)), TR(\h4F05, "EF.5GAUTHKEYS", 110, None),
          TR(\h4F06, "EF.UAC_AIC", 4, None), TR(\h4F07, "EF.SUCI_Calc_Info", 0, Dots(1, 1)),
          LF(\h4F08, "EF.OPL5G", 0, 10, Dots(1, 1)), TR(\h4F09, "EF.SUPI_NAI", 0, None),
          TR(\h4F0A, "EF.Routing_Indicator", 4, Lit(4))>>
FilesUsimDf5GSv2 ==
    FilesUsimDf5GS
    \o <<BT(\h4F0B, "EF.URSP", 0, None), TR(\h4F0C, "EF.TN3GPPSNN", 1, Lit(1))>>
FilesUsimDf5GSv3 ==
    [FilesUsimDf5GSv2 EXCEPT
        ![4] = LF(\h4F03, "EF.5GS3GPPNSC", 2, 62, Dots(1, 1)),
        ![5] = LF(\h4F04, "EF.5GSN3GPPNSC", 2, 62, Dots(1, 1))]
FilesUsimDf5GSv4 ==
    FilesUsimDf5GSv3
    \o <<TR(\h4F0D, "EF.CAG", 2, None), TR(\h4F0E, "EF.SOR_CMCI", 0, None), TR(\h4F0F, "EF.DRI", 7, None),
          TR(\h4F10, "EF.5GSEDRX", 2, None), TR(\h4F11, "EF.5GNSWO_CONF", 1, None),
          TR(\h4F15, "EF.MCHPPLMN", 1, None), TR(\h4F16, "EF.KAUSF_DERIVATION", 1, None)>>
FilesUsimDfSaip ==
    <<DFT(\h6FD0, "DF.SAIP"), TR(\h4F01, "EF.SUCICalcInfo", 0, Dots(1, 1))>>
FilesDfSnpn ==
    <<DFT(\h5FE0, "DF.SNPN"), TR(\h4F01, "EF.PWS_SNPN", 1, None)>>
FilesDf5GProSe ==
    <<DFT(\h5FF0, "DF.5G_ProSe"), TR(\h4F01, "EF.5G_PROSE_ST", 1, None),
          TR(\h4F02, "EF.5G_PROSE_DD", 26, None), TR(\h4F03, "EF.5G_PROSE_DC", 12, None),
          TR(\h4F04, "EF.5G_PROSE_U2NRU", 32, None), TR(\h4F05, "EF.5G_PROSE_RU", 29, None),
          TR(\h4F06, "EF.5G_PROSE_UIR", 32, None)>>
FilesIsimMandatory ==
    <<ADFT(0, "ADF.ISIM"), TR(\h6F02, "EF.IMPI", 0, None), LF(\h6F04, "EF.IMPU", 1, 0, None),
          TR(\h6F03, "EF.Domain", 0, None), TR(\h6F07, "EF.IST", 14, None), TR(\h6FAD, "EF.AD", 3, Lit(3)),
          LF(\h6F06, "EF.ARR", 0, 0, None)>>
FilesIsimOptional ==
    <<LF(\h6F09, "EF.P-CSCF", 1, 0, None), LF(\h6F3C, "EF.SMS", 10, 176, Dots(2, 1)),
          LF(\h6F42, "EF.SMSP", 1, 38, Dots(1, 1)), TR(\h6F43, "EF.SMSS", 2, Lit(2)),
          LF(\h6F47, "EF.SMSR", 10, 30, Dots(2, 1)), TR(\h6FD5, "EF.GBABP", 0, Dots(1, 1)),
          LF(\h6FD7, "EF.GBANL", 0, 0, Dots(1, 1)), LF(\h6FDD, "EF.NAFKCA", 0, 0, Dots(1, 1)),
          LF(\h6FE7, "EF.UICCIARI", 0, 0, None)>>
FilesIsimOptionalv2 ==
    [FilesIsimOptional EXCEPT ![1] = LF(\h6F09, "EF.PCSCF", 1, 0, None)]
    \o <<TR(\h6FF7, "EF.FromPreferred", 1, Lit(1)), BT(\h6FF8, "EF.ImsConfigData", 0, None),
          BT(\h6FFC, "EF.XcapconfigData", 0, None), LF(\h6FFA, "EF.WebRTCURI", 0, 0, None),
          BT(\h6FFA, "EF.MudMidCfgData", 0, None)>>
FilesEap ==
    <<DFT(0, "DF.EAP"), TR(\h4F01, "EF.EAPKEYS", 0, None), TR(\h4F02, "EF.EAPSTATUS", 1, Lit(1)),
          TR(\h4F03, "EF.PUId", 0, None), TR(\h4F04, "EF.Ps", 0, Dots(1, 1)),
          TR(\h4F20, "EF.CurID", 0, Dots(1, 1)), TR(\h4F21, "EF.RelID", 0, None),
          TR(\h4F22, "EF.Realm", 0, None)>>

-----------------------------------------------------------------------------
(* The classes and the trees they build. *)

\* ProfileTemplate: the class attributes besides the files
Class(pe, files, extends, parent) == [pe |-> pe, files |-> files, extends |-> extends, parent |-> parent]
Template ==
    [FilesAtMF |-> Class("mf", FilesAtMF, "none", "none"),
     FilesCD |-> Class("cd", FilesCD, "none", "none"),
     FilesTelecom |-> Class("telecom", FilesTelecom, "none", "none"),
     FilesTelecomV2 |-> Class("telecom", FilesTelecomV2, "none", "none"),
     FilesUsimMandatory |-> Class("usim", FilesUsimMandatory, "none", "none"),
     FilesUsimMandatoryV2 |-> Class("usim", FilesUsimMandatoryV2, "none", "none"),
     FilesUsimOptional |-> Class("opt-usim", FilesUsimOptional, "usim", "none"),
     FilesUsimOptionalV2 |-> Class("opt-usim", FilesUsimOptionalV2, "usim", "none"),
     FilesUsimOptionalV3 |-> Class("opt-usim", FilesUsimOptionalV3, "usim", "none"),
     FilesUsimDfPhonebook |-> Class("phonebook", FilesUsimDfPhonebook, "none", "none"),
     FilesUsimDfGsmAccess |-> Class("gsm-access", FilesUsimDfGsmAccess, "none", "usim"),
     FilesUsimDf5GS |-> Class("df-5gs", FilesUsimDf5GS, "none", "usim"),
     FilesUsimDf5GSv2 |-> Class("df-5gs", FilesUsimDf5GSv2, "none", "usim"),
     FilesUsimDf5GSv3 |-> Class("df-5gs", FilesUsimDf5GSv3, "none", "usim"),
     FilesUsimDf5GSv4 |-> Class("df-5gs", FilesUsimDf5GSv4, "none", "usim"),
     FilesUsimDfSaip |-> Class("df-saip", FilesUsimDfSaip, "none", "usim"),
     FilesDfSnpn |-> Class("df-snpn", FilesDfSnpn, "none", "usim"),
     FilesDf5GProSe |-> Class("df-5gprose", FilesDf5GProSe, "none", "usim"),
     FilesIsimMandatory |-> Class("isim", FilesIsimMandatory, "none", "none"),
     FilesIsimOptional |-> Class("opt-isim", FilesIsimOptional, "isim", "none"),
     FilesIsimOptionalv2 |-> Class("opt-isim", FilesIsimOptionalv2, "isim", "none"),
     FilesEap |-> Class("eap", FilesEap, "none", "none")]
IsDF(f) == f.type \in {"MF", "DF", "ADF"}

\* Mutant of Tree: the "cd .." is left out.
TreeDeeper(files) ==
    LET after[i \in 0..Len(files)] ==
          IF i = 0 THEN [cur |-> 0, up |-> 0]
          ELSE IF IsDF(files[i]) THEN [cur |-> i, up |-> after[i - 1].cur] ELSE after[i - 1]
    IN  [i \in DOMAIN files |-> IF IsDF(files[i]) THEN after[i].up ELSE after[i].cur]

\* __init_subclass__: the position of each file's parent, 0 for none.  The
\* files are taken in order; a DF after another goes beside it, and beside or
\* below is decided by "cd ..", not by the parent path of the file.
Tree(files) ==
    LET after[i \in 0..Len(files)] ==
          IF i = 0 THEN [cur |-> 0, up |-> 0]
          ELSE IF IsDF(files[i])
               THEN [cur |-> i, up |-> IF after[i - 1].up # 0 THEN after[i - 1].up ELSE after[i - 1].cur]
               ELSE after[i - 1]
    IN  [i \in DOMAIN files |-> IF IsDF(files[i]) THEN after[i].up ELSE after[i].cur]
Parents == [t \in DOMAIN Template |-> Tree(Template[t].files)]

\* files_by_pename: of the files of one name, the last
Named(files) == {i \in DOMAIN files : \A j \in DOMAIN files : j > i => files[j].name # files[i].name}
NamedIn == [t \in DOMAIN Template |-> Named(Template[t].files)]

\* An element's members have the names of PE_Definitions.asn, and these files another
\* pe_name: files_by_pename does not find them.
Misnamed ==
    [t \in DOMAIN Template |->
        CASE t = "FilesTelecomV2" -> {"EF.ICE_GRRAPHICS", "EF.MCSCONFIG", "EF.V2XP_Uu"}
          [] t = "FilesUsimOptional" -> {"EF.IWL"}
          [] t \in {"FilesUsimOptionalV2", "FilesUsimOptionalV3"} ->
               {"EF.IWL", "EF.ACMmax", "EF.EPDGIDEMSEL", "EF.3GPPPSDOSLIST", "EF.MudMidCfgdata"}
          [] t \in {"FilesUsimDf5GS", "FilesUsimDf5GSv2"} -> {"EF.SUPI_NAI"}
          [] t = "FilesIsimOptional" -> {"EF.P-CSCF"}
          [] t = "FilesIsimOptionalv2" -> {"EF.MudMidCfgData"}
          [] t = "FilesEap" -> {"EF.RelID"}
          [] OTHER -> {}]
DFsIn == [t \in DOMAIN Template |-> {i \in DOMAIN Template[t].files : IsDF(Template[t].files[i])}]

==============================================================================
