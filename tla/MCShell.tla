------------------------------- MODULE MCShell -------------------------------
(***************************************************************************)
(* A card with a file the profile lacks and without one it has, two        *)
(* applications, one of them without files.                                *)
(***************************************************************************)
EXTENDS Shell

MCHostFiles == {MF, <<"3f00", "7f20", "5f3c">>, <<"3f00", "7f20">>, <<"3f00", "7f20", "6f07">>, <<"3f00", "7f20", "6f3a">>,
                <<"3f00", "usim">>, <<"3f00", "usim", "6f07">>, <<"3f00", "aram">>}
MCCardFiles == {MF, <<"3f00", "7f20">>, <<"3f00", "7f20", "6f07">>,
                <<"3f00", "7f10">>, <<"3f00", "7f20", "5f3c">>, <<"3f00", "7f20", "5f3c", "5f3b">>,
                <<"3f00", "usim">>, <<"3f00", "usim", "6f07">>, <<"3f00", "aram">>}

=============================================================================
