----------------------------- MODULE CardFiles -----------------------------
(***************************************************************************)
(* The files pySim knows of: one definition per file class, with the       *)
(* structure, the identifiers and the means of decoding and encoding the   *)
(* class has, and one per DF class, with its files in the order in which   *)
(* they are added.  What a construct or a TLV class makes of the octets,   *)
(* the sizes and the descriptions are left out.                            *)
(***************************************************************************)
EXTENDS Naturals, Sequences

\* CardFile and the EF classes: an sfid of 0 is none; codec is the set of
\* members of the object that decode_* and encode_* look for (a class
\* attribute _construct is hidden by the one TransparentEF.__init__ sets).
EF(kind, fid, sfid, name, codec) ==
    [kind |-> kind, fid |-> fid, sfid |-> sfid, name |-> name, codec |-> codec,
     serv |-> {}, files |-> <<>>]
DF(fid, name, serv, files) ==
    [kind |-> "df", fid |-> fid, sfid |-> 0, name |-> name, codec |-> {},
     serv |-> serv, files |-> files]

\* Arguments that change what the class has by default.
At(f, fid, name) == [f EXCEPT !.fid = fid, !.name = name]
Fid(f, fid) == [f EXCEPT !.fid = fid]
Named(f, name) == [f EXCEPT !.name = name]
Sfi(f, n) == [f EXCEPT !.sfid = n]
For(f, serv) == [f EXCEPT !.serv = serv]

\* A service, any of a list, all of a tuple: the alternatives, each a set.
AnyOf(services) == {{s} : s \in services}
AllOf(services) == {services}

EF_ADN == EF("linear_fixed", "6f3a", 0, "EF.ADN", {"construct"})
EF_SMS == EF("linear_fixed", "6f3c", 0, "EF.SMS", {"decode_record_bin"})
EF_MSISDN == EF("linear_fixed", "6f40", 0, "EF.MSISDN", {"construct"})
EF_SMSP == EF("linear_fixed", "6f42", 0, "EF.SMSP", {"construct"})
EF_SMSS == EF("transparent", "6f43", 0, "EF.SMSS", {"construct"})
EF_SMSR == EF("linear_fixed", "6f47", 0, "EF.SMSR", {"construct"})
EF_EXT == EF("linear_fixed", "none", 0, "EF.EXT", {"construct"})
EF_CMI == EF("linear_fixed", "6f58", 0, "EF.CMI", {"construct"})
EF_PBR == EF("linear_fixed", "4f30", 0, "EF.PBR", {})
EF_PSC == EF("transparent", "4f22", 0, "EF.PSC", {})
EF_CC == EF("transparent", "4f23", 0, "EF.CC", {})
EF_PUID == EF("transparent", "4f24", 0, "EF.PUID", {})
DF_PHONEBOOK == DF("5f3a", "DF.PHONEBOOK", {}, << EF_PBR, EF_PSC, EF_CC, EF_PUID >>)
EF_MML == EF("ber_tlv", "4f47", 0, "EF.MML", {})
EF_MMDF == EF("ber_tlv", "4f48", 0, "EF.MMDF", {})
DF_MULTIMEDIA == DF("5f3b", "DF.MULTIMEDIA", {}, << EF_MML, EF_MMDF >>)
EF_MST == EF("transparent", "4f01", 1, "EF.MST", {"decode_bin", "encode_bin"})
EF_MCS_CONFIG == EF("ber_tlv", "4f02", 2, "EF.MCS_CONFIG", {"tlv"})
DF_MCS == DF("5f3d", "DF.MCS", {}, << EF_MST, EF_MCS_CONFIG >>)
EF_VST == EF("transparent", "4f01", 1, "EF.VST", {"decode_bin", "encode_bin"})
EF_V2X_CONFIG == EF("ber_tlv", "4f02", 2, "EF.V2X_CONFIG", {"tlv"})
DF_V2X == DF("5f3e", "DF.V2X", {}, << EF_VST, EF_V2X_CONFIG >>)
DF_TELECOM == DF("7f10", "DF.TELECOM", {}, << EF_ADN, At(EF_ADN, "6f3b", "EF.FDN"), EF_SMS,
      EF("linear_fixed", "6f3d", 0, "EF.CCP", {}), EF("linear_fixed", "6f4f", 0, "EF.ECCP", {}), EF_MSISDN,
      EF_SMSP, EF_SMSS, At(EF_ADN, "6f44", "EF.LND"), At(EF_ADN, "6f49", "EF.SDN"),
      At(EF_EXT, "6f4a", "EF.EXT1"), At(EF_EXT, "6f4b", "EF.EXT2"), At(EF_EXT, "6f4c", "EF.EXT3"),
      At(EF_ADN, "6f4d", "EF.BDN"), At(EF_EXT, "6f4e", "EF.EXT4"), EF_SMSR, EF_CMI, DF_PHONEBOOK,
      DF_MULTIMEDIA, DF_MCS, DF_V2X >>)
EF_LP == EF("trans_rec", "6f05", 0, "EF.LP", {"decode_record_bin", "encode_record_bin"})
EF_IMSI == EF("transparent", "6f07", 0, "EF.IMSI", {"decode_hex", "encode_hex"})
EF_PLMNsel == EF("trans_rec", "6f30", 0, "EF.PLMNsel", {"decode_record_hex", "encode_record_hex"})
EF_ACMmax == EF("transparent", "6f37", 0, "EF.ACMmax", {"construct"})
EF_ServiceTable == EF("transparent", "none", 0, "EF_ServiceTable", {"decode_bin", "encode_bin"})
EF_SPN == EF("transparent", "6f46", 0, "EF.SPN", {"construct"})
EF_CBMI == EF("trans_rec", "6f45", 0, "EF.CBMI", {"construct"})
EF_ACC == EF("transparent", "6f78", 0, "EF.ACC", {"construct"})
EF_LOCI == EF("transparent", "6f7e", 0, "EF.LOCI", {"construct"})
EF_AD == EF("transparent", "6fad", 0, "EF.AD", {"construct"})
EF_VGCS == EF("trans_rec", "6fb1", 0, "EF.VGCS", {"construct"})
EF_VGCSS == EF("transparent", "6fb2", 0, "EF.VGCSS", {"construct"})
EF_eMLPP == EF("transparent", "6fb5", 0, "EF.eMLPP", {"construct"})
EF_AAeM == EF("transparent", "6fb6", 0, "EF.AAeM", {"construct"})
EF_CBMID == EF("trans_rec", "6f48", 0, "EF.CBMID", {"construct"})
EF_ECC == EF("trans_rec", "6fb7", 0, "EF.ECC", {"construct"})
EF_CBMIR == EF("trans_rec", "6f50", 0, "EF.CBMIR", {"construct"})
EF_DCK == EF("transparent", "6f2c", 0, "EF.DCK", {"construct"})
EF_CNL == EF("trans_rec", "6f32", 0, "EF.CNL", {"decode_record_hex", "encode_record_hex"})
EF_NIA == EF("linear_fixed", "6f51", 0, "EF.NIA", {"construct"})
EF_Kc == EF("transparent", "6f20", 0, "EF.Kc", {"construct"})
EF_LOCIGPRS == EF("transparent", "6f53", 0, "EF.LOCIGPRS", {"construct"})
EF_xPLMNwAcT == EF("trans_rec", "1234", 0, "", {"decode_record_hex", "encode_record_hex"})
EF_CPBCCH == EF("trans_rec", "6f63", 0, "EF.CPBCCH", {"construct"})
EF_InvScan == EF("transparent", "6f64", 0, "EF.InvScan", {"construct"})
EF_CFIS == EF("linear_fixed", "6fcb", 0, "EF.CFIS", {"construct"})
EF_PNN == EF("linear_fixed", "6fc5", 0, "EF.PNN", {"tlv"})
EF_OPL == EF("linear_fixed", "6fc6", 0, "EF.OPL", {"construct"})
EF_MBI == EF("linear_fixed", "6fc9", 0, "EF.MBI", {"construct"})
EF_MWIS == EF("linear_fixed", "6fca", 0, "EF.MWIS", {"construct"})
EF_SPDI == EF("transparent", "6fcd", 0, "EF.SPDI", {"tlv"})
EF_MMSN == EF("linear_fixed", "6fce", 0, "EF.MMSN", {"construct"})
EF_MMSICP == EF("transparent", "6fd0", 0, "EF.MMSICP", {"tlv"})
EF_MMSUP == EF("linear_fixed", "6fd1", 0, "EF.MMSUP", {"tlv"})
EF_MMSUCP == EF("transparent", "6fd2", 0, "EF.MMSUCP", {})
EF_ICCID == EF("transparent", "2fe2", 2, "EF.ICCID", {"decode_hex", "encode_hex"})
EF_PL == EF("trans_rec", "2f05", 5, "EF.PL", {"decode_record_bin", "encode_record_bin"})
DF_GSM == DF("7f20", "DF.GSM", {}, << EF_LP, EF_IMSI, EF_Kc, EF_PLMNsel,
      EF("transparent", "6f31", 0, "EF.HPPLMN", {}), EF_ACMmax, At(EF_ServiceTable, "6f38", "EF.SST"),
      EF("cyclic", "6f39", 0, "EF.ACM", {}), EF("transparent", "6f3e", 0, "EF.GID1", {}),
      EF("transparent", "6f3f", 0, "EF.GID2", {}), EF_SPN, EF("transparent", "6f41", 0, "EF.PUCT", {}),
      EF_CBMI, EF("transparent", "6f74", 0, "EF.BCCH", {}), EF_ACC, At(EF_PLMNsel, "6f7b", "EF.FPLMN"),
      EF_LOCI, EF_AD, EF("transparent", "6fae", 0, "EF.Phase", {}), EF_VGCS, EF_VGCSS,
      At(EF_VGCS, "6fb3", "EF.VBS"), At(EF_VGCSS, "6fb4", "EF.VBSS"), EF_eMLPP, EF_AAeM, EF_CBMID, EF_ECC,
      EF_CBMIR, EF_DCK, EF_CNL, EF_NIA, At(EF_Kc, "6f52", "EF.KcGPRS"), EF_LOCIGPRS,
      EF("transparent", "6f54", 0, "EF.SUME", {}), At(EF_xPLMNwAcT, "6f60", "EF.PLMNwAcT"),
      At(EF_xPLMNwAcT, "6f61", "EF.OPLMNwAcT"), At(EF_xPLMNwAcT, "6f62", "EF.HPLMNwAcT"), EF_CPBCCH,
      EF_InvScan, EF_PNN, EF_OPL, At(EF_ADN, "6fc7", "EF.MBDN"), EF_MBI, EF_MWIS, EF_CFIS,
      At(EF_EXT, "6fc8", "EF.EXT6"), At(EF_EXT, "6fcc", "EF.EXT7"), EF_SPDI, EF_MMSN,
      At(EF_EXT, "6fcf", "EF.EXT8"), EF_MMSICP, EF_MMSUP, EF_MMSUCP >>)
EF_UServiceTable == EF("transparent", "none", 0, "EF_UServiceTable", {"decode_bin", "encode_bin"})
EF_DIR == EF("linear_fixed", "2f00", 30, "EF.DIR", {"tlv"})
EF_ARR == EF("linear_fixed", "2f06", 6, "EF.ARR", {"decode_record_bin", "encode_record_bin"})
EF_UMPC == EF("transparent", "2f08", 8, "EF.UMPC", {"construct"})
EF_UICCIARI == EF("linear_fixed", "6fe7", 0, "EF.UICCIARI", {"tlv"})
EF_IMSConfigData == EF("ber_tlv", "6ff8", 0, "EF.IMSConfigData", {"tlv"})
EF_XCAPConfigData == EF("ber_tlv", "6ffc", 0, "EF.XCAPConfigData", {"tlv"})
EF_WebRTCURI == EF("linear_fixed", "6ffa", 0, "EF.WebRTCURI", {"tlv"})
EF_MuDMiDConfigData == EF("ber_tlv", "6ffe", 0, "EF.MuDMiDConfigData", {"tlv"})
EF_AC_GBAUAPI == EF("linear_fixed", "6f0a", 0, "EF.GBAUAPI", {"tlv"})
EF_IMSDCI == EF("transparent", "6f0b", 0, "EF.IMSDCI", {"construct"})
EF_5GS3GPPNSC == EF("linear_fixed", "4f03", 3, "EF.5GS3GPPNSC", {"tlv"})
EF_5GAUTHKEYS == EF("transparent", "4f05", 5, "EF.5GAUTHKEYS", {"tlv"})
EF_SUCI_Calc_Info ==
      EF("transparent", "4f07", 7, "EF.SUCI_Calc_Info", {"decode_bin", "decode_hex", "encode_bin", "encode_hex"})
EF_LI == EF("trans_rec", "6f05", 0, "EF.LI", {"decode_record_bin", "encode_record_bin"})
EF_Keys == EF("transparent", "6f08", 8, "EF.Keys", {"construct"})
EF_HPPLMN == EF("transparent", "6f31", 18, "EF.HPPLMN", {"construct"})
EF_UST == EF("transparent", "6f38", 4, "EF.UST", {"decode_bin", "encode_bin"})
EF_ECC_USIM == EF("linear_fixed", "6fb7", 1, "EF.ECC", {"decode_record_bin", "encode_record_bin"})
EF_LOCI_USIM == EF("transparent", "6f7e", 11, "EF.LOCI", {"construct"})
EF_AD_USIM == EF("transparent", "6fad", 3, "EF.AD", {"construct"})
EF_PSLOCI == EF("transparent", "6f73", 12, "EF.PSLOCI", {"construct"})
EF_ICI == EF("cyclic", "6f80", 20, "EF.ICI", {"construct"})
EF_OCI == EF("cyclic", "6f81", 21, "EF.OCI", {"construct"})
EF_ICT == EF("cyclic", "6f82", 0, "EF.ICT", {"construct"})
EF_CCP2 == EF("linear_fixed", "6f4f", 22, "EF.CCP2", {})
EF_EST == EF("transparent", "6f56", 5, "EF.EST", {"decode_bin", "encode_bin"})
EF_ACL == EF("transparent", "6f57", 0, "EF.ACL", {"construct"})
EF_START_HFN == EF("transparent", "6f5b", 15, "EF.START-HFN", {"construct"})
EF_THRESHOLD == EF("transparent", "6f5c", 16, "EF.THRESHOLD", {"construct"})
EF_RPLMNAcT == EF("trans_rec", "6f65", 0, "EF.RPLMNAcTD", {"decode_record_hex"})
EF_VGCSCA == EF("trans_rec", "6fd4", 0, "EF.VGCSCA", {"construct"})
EF_GBABP_USIM == EF("transparent", "6fd6", 0, "EF.GBABP", {"construct"})
EF_MSK == EF("linear_fixed", "6fd7", 0, "EF.MSK", {"construct"})
EF_MUK == EF("linear_fixed", "6fd8", 0, "EF.MUK", {"tlv"})
EF_GBANL_USIM == EF("linear_fixed", "6fda", 0, "EF.GBANL", {"tlv"})
EF_EHPLMNPI == EF("transparent", "6fdb", 0, "EF.EHPLMNPI", {"construct"})
EF_NAFKCA_USIM == EF("linear_fixed", "6fdd", 0, "EF.NAFKCA", {"tlv"})
EF_NCP_IP == EF("linear_fixed", "6fe2", 0, "EF.NCP-IP", {"tlv"})
EF_EPSLOCI == EF("transparent", "6fe3", 30, "EF.EPSLOCI", {"construct"})
EF_EPSNSC == EF("linear_fixed", "6fe4", 24, "EF.EPSNSC", {"tlv"})
EF_PWS == EF("transparent", "6fec", 0, "EF.PWS", {"construct"})
EF_IPS == EF("cyclic", "6ff1", 0, "EF.IPS", {"construct"})
EF_ePDGId == EF("transparent", "6ff3", 0, "EF.ePDGId", {"tlv"})
EF_ePDGSelection == EF("transparent", "6ff4", 0, "EF.ePDGSelection", {"tlv"})
EF_FromPreferred == EF("transparent", "6ff7", 0, "EF.FromPreferred", {"construct"})
EF_EARFCNList == EF("transparent", "6ffd", 0, "EF.EARFCNList", {"tlv"})
EF_eAKA == EF("transparent", "6f01", 0, "EF.eAKA", {"construct"})
EF_OCST == EF("transparent", "6f02", 0, "EF.OCST", {"construct"})
DF_GSM_ACCESS == DF("5f3b", "DF.GSM-ACCESS", AnyOf({27}), << For(Sfi(Fid(EF_Kc, "4f20"), 1), AnyOf({27})),
      For(Sfi(At(EF_Kc, "4f52", "EF.KcGPRS"), 2), AnyOf({27})), For(Fid(EF_CPBCCH, "4f63"), AnyOf({39})),
      For(Fid(EF_InvScan, "4f64"), AnyOf({40})) >>)
EF_ACSGL == For(EF("linear_fixed", "4f81", 1, "EF.ACSGL", {"tlv"}), AnyOf({86}))
EF_CSGT == For(EF("linear_fixed", "4f82", 2, "EF.CSGT", {"tlv"}), AnyOf({86}))
EF_HNBN == For(EF("linear_fixed", "4f83", 3, "EF.HNBN", {"tlv"}), AnyOf({86}))
EF_OCSGL == For(EF("linear_fixed", "4f84", 4, "EF.OCSGL", {"tlv"}), AnyOf({90}))
EF_5GS3GPPLOCI == EF("transparent", "4f01", 1, "EF.5GS3GPPLOCI", {"construct"})
EF_UAC_AIC == EF("transparent", "4f06", 6, "EF.UAC_AIC", {"construct"})
EF_OPL5G == EF("linear_fixed", "4f08", 8, "EF.OPL5G", {"construct"})
EF_SUPI_NAI == EF("transparent", "4f09", 9, "EF.SUPI_NAI", {"tlv"})
EF_Routing_Indicator == EF("transparent", "4f0a", 10, "EF.Routing_Indicator", {"construct"})
EF_TN3GPPSNN == EF("transparent", "4f0c", 12, "EF.TN3GPPSNN", {"tlv"})
EF_CAG == EF("transparent", "4f0d", 13, "EF.CAG", {"construct"})
EF_SOR_CMCI == EF("transparent", "4f0e", 14, "EF.SOR-CMCI", {"construct"})
EF_DRI == EF("transparent", "4f0f", 15, "EF.DRI", {"construct"})
EF_PWS_SNPN == EF("transparent", "4f01", 1, "EF.PWS_SNPN", {"construct"})
EF_NID == EF("linear_fixed", "4f02", 2, "EF.NID", {"construct"})
DF_SNPN == DF("5fe0", "DF.SNPN", {}, << For(EF_PWS_SNPN, AnyOf({143})), For(EF_NID, AnyOf({146})) >>)
EF_5G_PROSE_ST == EF("transparent", "4f01", 1, "EF.5G_PROSE_ST", {"decode_bin", "encode_bin"})
EF_5G_PROSE_DD == EF("transparent", "4f02", 2, "EF.5G_PROSE_DD", {"tlv"})
EF_5G_PROSE_DC == EF("transparent", "4f03", 3, "EF.5G_PROSE_DC", {"tlv"})
EF_5G_PROSE_U2NRU == EF("transparent", "4f04", 4, "EF.5G_PROSE_U2NRU", {"tlv"})
EF_5G_PROSE_RU == EF("transparent", "4f05", 5, "EF.5G_PROSE_RU", {"tlv"})
EF_5G_PROSE_UIR == EF("transparent", "4f06", 6, "EF.5G_PROSE_UIR", {"tlv"})
EF_5G_PROSE_U2URU == EF("transparent", "4f07", 7, "EF.5G_PROSE_U2URU", {"tlv"})
EF_5G_PROSE_EU == EF("transparent", "4f08", 8, "EF.5G_PROSE_EU", {"tlv"})
DF_5G_ProSe == DF("5ff0", "DF.5G_ProSe", {}, << EF_5G_PROSE_ST, For(EF_5G_PROSE_DD, AnyOf({1})),
      For(EF_5G_PROSE_DC, AnyOf({2})), For(EF_5G_PROSE_U2NRU, AnyOf({3})), For(EF_5G_PROSE_RU, AnyOf({4})),
      For(EF_5G_PROSE_UIR, AnyOf({5})), For(EF_5G_PROSE_U2URU, AnyOf({6})), For(EF_5G_PROSE_EU, AnyOf({7})) >>)
EF_5MBSUECONFIG == EF("transparent", "4f01", 0, "EF.5MBSUECONFIG", {"tlv"})
EF_5MBSUSD == EF("transparent", "none", 0, "EF.5MBSUSD", {"tlv"})
DF_5MBSUECONFIG == DF("5ff1", "DF.5MBSUECONFIG", {}, << EF_5MBSUECONFIG >>)
EF_5GSEDRX == EF("transparent", "4f10", 16, "EF.5GSEDRX", {"construct"})
EF_5GNSWO_CONF == EF("transparent", "4f11", 17, "EF.5GNSWO_CONF", {"construct"})
EF_MCHPPLMN == EF("transparent", "4f15", 21, "EF.MCHPPLMN", {"construct"})
EF_KAUSF_DERIVATION == EF("transparent", "4f16", 22, "EF.KAUSF_DERIVATION", {"construct"})
DF_WLAN == DF("5f40", "DF.WLAN", {}, << For(EF("transparent", "4f41", 1, "EF.Pseudo", {}), AnyOf({59})),
      For(EF("transparent", "4f42", 2, "EF.UPLMNWLAN", {}), AnyOf({60})),
      For(EF("transparent", "4f43", 3, "EF.OPLMNWLAN", {}), AnyOf({61})),
      For(EF("linear_fixed", "4f44", 4, "EF.UWSIDL", {}), AnyOf({62})),
      For(EF("linear_fixed", "4f45", 5, "EF.OWSIDL", {}), AnyOf({63})),
      For(EF("transparent", "4f46", 6, "EF.WRI", {}), AnyOf({66})),
      For(EF("linear_fixed", "4f47", 7, "EF.HWSIDL", {}), AnyOf({81})),
      For(EF("transparent", "4f48", 8, "EF.WEHPLMNPI", {}), AnyOf({82})),
      For(EF("transparent", "4f49", 9, "EF.WHPI", {}), AnyOf({83})),
      For(EF("transparent", "4f4a", 10, "EF.WLRPLMN", {}), AnyOf({84})),
      For(EF("transparent", "4f4b", 11, "EF.HPLMNDAI", {}), AnyOf({88})) >>)
DF_HNB == DF("5f50", "DF.HNB", {}, << EF_ACSGL, EF_CSGT, EF_HNBN, EF_OCSGL,
      For(Sfi(At(EF_CSGT, "4f85", "EF.OCSGT"), 5), AnyOf({90})),
      For(Sfi(At(EF_HNBN, "4f86", "EF.OHNBN"), 6), AnyOf({90})) >>)
DF_ProSe == DF("5f90", "DF.ProSe", {}, << EF("linear_fixed", "4f01", 1, "EF.PROSE_MON", {}),
      EF("linear_fixed", "4f02", 2, "EF.PROSE_ANN", {}), EF("linear_fixed", "4f03", 3, "EF.PROSEFUNC", {}),
      EF("transparent", "4f04", 4, "EF.PROSE_RADIO_COM", {}),
      EF("transparent", "4f05", 5, "EF.PROSE_RADIO_MON", {}),
      EF("transparent", "4f06", 6, "EF.PROSE_RADIO_ANN", {}),
      EF("linear_fixed", "4f07", 7, "EF.PROSE_POLICY", {}),
      EF("linear_fixed", "4f08", 8, "EF.PROSE_PLMN", {}), EF("transparent", "4f09", 9, "EF.PROSE_GC", {}),
      EF("transparent", "4f10", 16, "EF.PST", {}), EF("transparent", "4f11", 17, "EF.UIRC", {}),
      EF("linear_fixed", "4f12", 18, "EF.PROSE_GM_DISCOVERY", {}),
      EF("linear_fixed", "4f13", 19, "EF.PROSE_RELAY", {}),
      EF("transparent", "4f14", 20, "EF.PROSE_RELAY_DISCOVERY", {}) >>)
DF_USIM_5GS == DF("5fc0", "DF.5GS", {}, << For(EF_5GS3GPPLOCI, AnyOf({122})),
      For(Sfi(At(EF_5GS3GPPLOCI, "4f02", "EF.5GSN3GPPLOCI"), 2), AnyOf({122})), For(EF_5GS3GPPNSC, AnyOf({122})),
      For(Sfi(At(EF_5GS3GPPNSC, "4f04", "EF.5GSN3GPPNSC"), 4), AnyOf({122})), For(EF_5GAUTHKEYS, AnyOf({123})),
      For(EF_UAC_AIC, AnyOf({126})), For(EF_SUCI_Calc_Info, AnyOf({124})), For(EF_OPL5G, AnyOf({129})),
      For(EF_SUPI_NAI, AnyOf({130})), For(EF_Routing_Indicator, AnyOf({124})),
      For(EF("transparent", "4f0b", 11, "EF.URSP", {}), AnyOf({132})), For(EF_TN3GPPSNN, AnyOf({133})),
      For(EF_CAG, AnyOf({137})), For(EF_SOR_CMCI, AnyOf({138})), For(EF_DRI, AnyOf({140})),
      For(EF_5GSEDRX, AnyOf({141})), For(EF_5GNSWO_CONF, AnyOf({142})), For(EF_MCHPPLMN, AnyOf({144})),
      For(EF_KAUSF_DERIVATION, AnyOf({145})) >>)
DF_SAIP == DF("5fd0", "DF.SAIP", {}, << Fid(EF_SUCI_Calc_Info, "4f01") >>)
ADF_USIM(has_imsi) == DF("none", "ADF.USIM", {}, << Sfi(EF_LI, 2), EF_Keys, Sfi(At(EF_Keys, "6f09", "EF.KeysPS"), 9),
      For(Sfi(At(EF_xPLMNwAcT, "6f60", "EF.PLMNwAcT"), 10), AnyOf({20})), EF_HPPLMN, For(EF_ACMmax, AnyOf({13})),
      EF_UST, For(EF("cyclic", "6f39", 0, "EF.ACM", {}), AnyOf({13})),
      For(EF("transparent", "6f3e", 0, "EF.GID1", {}), AnyOf({17})),
      For(EF("transparent", "6f3f", 0, "EF.GID2", {}), AnyOf({18})), For(EF_SPN, AnyOf({19})),
      For(EF("transparent", "6f41", 0, "EF.PUCT", {}), AnyOf({13})), For(EF_CBMI, AnyOf({15})), Sfi(EF_ACC, 6),
      Sfi(At(EF_PLMNsel, "6f7b", "EF.FPLMN"), 13), EF_LOCI_USIM, EF_AD_USIM,
      For(Sfi(EF_CBMID, 14), AnyOf({29})), EF_ECC_USIM, For(EF_CBMIR, AnyOf({16})), EF_PSLOCI,
      For(At(EF_ADN, "6f3b", "EF.FDN"), AnyOf({2, 89})), For(EF_SMS, AnyOf({10})), For(EF_MSISDN, AnyOf({21})),
      For(EF_SMSP, AnyOf({12})), For(EF_SMSS, AnyOf({10})), For(At(EF_ADN, "6f49", "EF.SDN"), AnyOf({4, 89})),
      For(At(EF_EXT, "6f4b", "EF.EXT2"), AnyOf({3})), For(At(EF_EXT, "6f4c", "EF.EXT3"), AnyOf({5})),
      For(EF_SMSR, AnyOf({11})), For(EF_ICI, AnyOf({9})), For(EF_OCI, AnyOf({8})), For(EF_ICT, AnyOf({9})),
      For(At(EF_ICT, "6f83", "EF.OCT"), AnyOf({8})), For(At(EF_EXT, "6f4e", "EF.EXT5"), AnyOf({44})),
      For(EF_CCP2, AnyOf({14})), For(EF_eMLPP, AnyOf({24})), For(EF_AAeM, AnyOf({25})),
      For(At(EF_ADN, "6f4d", "EF.BDN"), AnyOf({6})), For(At(EF_EXT, "6f55", "EF.EXT4"), AnyOf({7})),
      For(EF_CMI, AnyOf({6})), For(EF_EST, AnyOf({2, 6, 34, 35})), For(EF_ACL, AnyOf({35})),
      For(EF_DCK, AnyOf({36})), For(EF_CNL, AnyOf({37})), EF_START_HFN, EF_THRESHOLD,
      For(Sfi(At(EF_xPLMNwAcT, "6f61", "EF.OPLMNwAcT"), 17), AnyOf({42})),
      For(Sfi(At(EF_xPLMNwAcT, "6f62", "EF.HPLMNwAcT"), 19), AnyOf({43})), Sfi(Fid(EF_ARR, "6f06"), 23),
      EF_RPLMNAcT, EF("transparent", "6fc4", 0, "EF.NETPAR", {}), For(Sfi(EF_PNN, 25), AnyOf({45})),
      For(EF_OPL, AnyOf({46})), For(At(EF_ADN, "6fc7", "EF.MBDN"), AnyOf({47})), At(EF_EXT, "6fc8", "EF.EXT6"),
      For(EF_MBI, AnyOf({47})), For(EF_MWIS, AnyOf({48})), For(EF_CFIS, AnyOf({49})),
      At(EF_EXT, "6fcc", "EF.EXT7"), For(EF("transparent", "6fcd", 0, "EF.SPDI", {}), AnyOf({51})),
      For(EF_MMSN, AnyOf({52})), For(At(EF_EXT, "6fcf", "EF.EXT8"), AnyOf({53})), For(EF_MMSICP, AnyOf({52})),
      For(EF_MMSUP, AnyOf({52})), For(EF_MMSUCP, AllOf({52, 55})), For(Fid(EF_NIA, "6fd3"), AnyOf({56})),
      For(EF_VGCS, AnyOf({57})), For(EF_VGCSS, AnyOf({57})), For(At(EF_VGCS, "6fb3", "EF.VBS"), AnyOf({58})),
      For(At(EF_VGCSS, "6fb4", "EF.VBSS"), AnyOf({58})), For(EF_VGCSCA, AnyOf({64})),
      For(At(EF_VGCSCA, "6fd5", "EF.VBSCA"), AnyOf({65})), For(EF_GBABP_USIM, AnyOf({68})),
      For(EF_MSK, AnyOf({69})), For(EF_MUK, AnyOf({69})), For(EF_GBANL_USIM, AnyOf({68})),
      For(Sfi(At(EF_PLMNsel, "6fd9", "EF.EHPLMN"), 29), AnyOf({71})), For(EF_EHPLMNPI, AllOf({71, 73})),
      For(EF_NAFKCA_USIM, AllOf({68, 76})), For(EF("transparent", "6fde", 0, "EF.SPNI", {}), AnyOf({78})),
      For(EF("linear_fixed", "6fdf", 0, "EF.PNNI", {}), AnyOf({79})), For(EF_NCP_IP, AnyOf({80})),
      For(EF_EPSLOCI, AnyOf({85})), For(EF_EPSNSC, AnyOf({85})), EF("transparent", "6fe6", 0, "EF.UFC", {}),
      For(EF("transparent", "6fe8", 0, "EF.NASCONFIG", {}), AnyOf({96})), For(EF_PWS, AnyOf({97})),
      For(EF("linear_fixed", "6fed", 0, "EF.FDNURI", {}), AllOf({2, 99})),
      For(EF("linear_fixed", "6fee", 0, "EF.BDNURI", {}), AllOf({6, 99})),
      For(EF("linear_fixed", "6fef", 0, "EF.SDNURI", {}), AllOf({4, 99})), EF_IPS,
      For(EF_ePDGId, AllOf({106, 107})), For(EF_ePDGSelection, AllOf({106, 107})),
      For(At(EF_ePDGId, "6ff5", "EF.ePDGIdEm"), AllOf({110, 111})),
      For(At(EF_ePDGSelection, "6ff6", "EF.ePDGSelectionEm"), AllOf({110, 111})),
      For(EF_FromPreferred, AnyOf({114})), For(EF_IMSConfigData, AnyOf({115})),
      For(EF_XCAPConfigData, AnyOf({120})), For(EF_EARFCNList, AnyOf({121})),
      For(EF_MuDMiDConfigData, AnyOf({134})), EF_eAKA, For(EF_OCST, AnyOf({148})), For(EF_AC_GBAUAPI, AnyOf({68})),
      For(EF_IMSDCI, AnyOf({150})), DF_PHONEBOOK, DF_GSM_ACCESS,
      For(DF_WLAN, AnyOf({59, 60, 61, 62, 63, 66, 81, 82, 83, 84, 88})), For(DF_HNB, AnyOf({86, 90})),
      For(DF_ProSe, AnyOf({101})), For(DF_USIM_5GS, AnyOf({122, 123, 124, 125, 126, 127, 129, 130})),
      For(DF_SNPN, AnyOf({143, 146})), For(DF_5G_ProSe, AnyOf({139})), DF_SAIP,
      For(DF_5MBSUECONFIG, AnyOf({147})) >> \o (IF has_imsi THEN <<Sfi(EF_IMSI, 7)>> ELSE <<>>))
EF_IMPI == EF("transparent", "6f02", 2, "EF.IMPI", {"tlv"})
EF_DOMAIN == EF("transparent", "6f03", 5, "EF.DOMAIN", {"tlv"})
EF_IMPU == EF("linear_fixed", "6f04", 4, "EF.IMPU", {"tlv"})
EF_IST == EF("transparent", "6f07", 7, "EF.IST", {"decode_bin", "encode_bin"})
EF_PCSCF == EF("linear_fixed", "6f09", 0, "EF.P-CSCF", {"tlv"})
EF_GBABP_ISIM == EF("transparent", "6fd5", 0, "EF.GBABP", {"construct"})
EF_GBANL_ISIM == EF("linear_fixed", "6fd7", 0, "EF.GBANL", {"tlv"})
EF_NAFKCA_ISIM == EF("linear_fixed", "6fdd", 0, "EF.NAFKCA", {"tlv"})
ADF_ISIM == DF("none", "ADF.ISIM", {}, << EF_IMPI, EF_DOMAIN, EF_IMPU, EF_AD, Fid(EF_ARR, "6f06"), EF_IST,
      For(EF_PCSCF, AnyOf({5})), For(EF_GBABP_ISIM, AnyOf({2})), For(EF_GBANL_ISIM, AnyOf({2})),
      For(EF_NAFKCA_ISIM, AnyOf({2})), For(EF_SMS, AllOf({6, 8})), For(EF_SMSS, AllOf({6, 8})),
      For(EF_SMSR, AllOf({7, 8})), For(EF_SMSP, AnyOf({8})), For(EF_UICCIARI, AnyOf({10})),
      For(EF_FromPreferred, AnyOf({17})), For(EF_IMSConfigData, AnyOf({18})), For(EF_XCAPConfigData, AnyOf({19})),
      For(EF_WebRTCURI, AnyOf({20})), For(EF_MuDMiDConfigData, AnyOf({21})), For(EF_AC_GBAUAPI, AnyOf({2})),
      For(EF_IMSDCI, AnyOf({22})) >>)
ADF_HPSIM == DF("none", "ADF.HPSIM", {}, << Fid(EF_ARR, "6f06"), Sfi(EF_IMSI, 7), Sfi(EF_AD, 3) >>)
EF_FN == EF("linear_fixed", "6ff1", 0, "EF.FN", {"construct"})
EF_CallconfC == EF("transparent", "6ff2", 0, "EF.CallconfC", {"construct"})
EF_CallconfI == EF("linear_fixed", "6ff3", 0, "EF.CallconfI", {"construct"})
EF_Shunting == EF("transparent", "6ff4", 0, "EF.Shunting", {"construct"})
EF_GsmrPLMN == EF("linear_fixed", "6ff5", 0, "EF.GsmrPLMN", {"construct"})
EF_IC == EF("linear_fixed", "6f8d", 0, "EF.IC", {"construct"})
EF_NW == EF("linear_fixed", "6f80", 0, "EF.NW", {"construct"})
EF_Switching == EF("linear_fixed", "1234", 0, "Switching", {"construct"})
EF_Predefined == EF("linear_fixed", "1234", 0, "Predefined", {"decode_record_bin", "encode_record_bin"})
EF_DialledVals == EF("transparent", "1234", 0, "DialledVals", {"construct"})
\* Mutant of DF_EIRENE: with the fid of DF.CDMA.
DF_EIRENE_7f25 == DF("7f25", "DF.EIRENE", {}, <<EF_FN, EF_CallconfC>>)

DF_EIRENE == DF("7fe0", "DF.EIRENE", {}, << EF_FN, EF_CallconfC, EF_CallconfI, EF_Shunting, EF_GsmrPLMN,
      EF_IC, EF_NW, At(EF_Switching, "6f8e", "EF.CT"), At(EF_Switching, "6f8f", "EF.SC"),
      At(EF_Predefined, "6f88", "EF.FC"), At(EF_Predefined, "6f89", "EF.Service"),
      At(EF_Predefined, "6f8a", "EF.Call"), At(EF_Predefined, "6f8b", "EF.FctTeam"),
      At(EF_Predefined, "6f92", "EF.Controller"), At(EF_Predefined, "6f8c", "EF.Gateway"),
      At(EF_DialledVals, "6f81", "EF.5to8digits"), At(EF_DialledVals, "6f82", "EF.2digits"),
      At(EF_DialledVals, "6f83", "EF.8digits"), At(EF_DialledVals, "6f84", "EF.9digits"),
      At(EF_DialledVals, "6f85", "EF.SSSSS"), At(EF_DialledVals, "6f86", "EF.LLLLL"),
      At(EF_DialledVals, "6f91", "EF.Location"), At(EF_DialledVals, "6f87", "EF.FreeNumber") >>)
EF_SPN_CDMA == EF("transparent", "6f41", 0, "EF.SPN", {"construct"})
EF_AD_CDMA == EF("transparent", "6f43", 0, "EF.AD", {"construct"})
EF_SMS_CDMA == EF("linear_fixed", "6f3c", 0, "EF.SMS", {"construct"})
DF_CDMA == DF("7f25", "DF.CDMA", {}, << At(EF_ServiceTable, "6f32", "EF.CST"), EF_SPN_CDMA, EF_AD_CDMA,
      EF_SMS_CDMA >>)
EF_PIN == EF("transparent", "6f01", 0, "EF.CHV1", {"construct"})
EF_MILENAGE_CFG == EF("transparent", "6f21", 0, "EF.MILENAGE_CFG", {"construct"})
EF_0348_KEY == EF("linear_fixed", "6f22", 0, "EF.0348_KEY", {"construct"})
EF_0348_COUNT == EF("linear_fixed", "6f23", 0, "EF.0348_COUNT", {"construct"})
EF_SIM_AUTH_COUNTER == EF("transparent", "af24", 0, "EF.SIM_AUTH_COUNTER", {"construct"})
EF_GP_COUNT == EF("linear_fixed", "6f26", 0, "EF.GP_COUNT", {"construct"})
EF_GP_DIV_DATA == EF("linear_fixed", "6f27", 0, "EF.GP_DIV_DATA", {"decode_record_bin"})
EF_SIM_AUTH_KEY == EF("transparent", "6f20", 0, "EF.SIM_AUTH_KEY", {"construct"})
DF_SYSTEM == DF("a515", "DF.SYSTEM", {}, << EF_PIN, At(EF_PIN, "6f81", "EF.CHV2"),
      At(EF_PIN, "6f0a", "EF.ADM1"), At(EF_PIN, "6f0b", "EF.ADM2"), At(EF_PIN, "6f0c", "EF.ADM3"),
      At(EF_PIN, "6f0d", "EF.ADM4"), EF_MILENAGE_CFG, EF_0348_KEY, EF_SIM_AUTH_COUNTER, EF_SIM_AUTH_KEY,
      EF_0348_COUNT, EF_GP_COUNT, EF_GP_DIV_DATA >>)
EF_USIM_SQN == EF("transparent", "af30", 0, "EF.USIM_SQN", {"construct"})
EF_USIM_AUTH_KEY == EF("transparent", "af20", 0, "EF.USIM_AUTH_KEY", {"construct", "decode_bin", "encode_bin"})
EF_USIM_AUTH_KEY_2G == EF("transparent", "af22", 0, "EF.USIM_AUTH_KEY_2G", {"construct"})
EF_GBA_SK == EF("transparent", "af31", 0, "EF.GBA_SK", {"construct"})
EF_GBA_REC_LIST == EF("transparent", "af32", 0, "EF.GBA_REC_LIST", {"construct"})
EF_GBA_INT_KEY == EF("linear_fixed", "af33", 0, "EF.GBA_INT_KEY", {"construct"})
=============================================================================
