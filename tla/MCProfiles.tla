----------------------------- MODULE MCProfiles -----------------------------
(***************************************************************************)
(* For TLC: small instances of what pySim knows of profiles, side by side. *)
(* The files of a card and their contents (Equip), the file system of an   *)
(* eSIM profile (SaipFs), the profile as a list of elements (SaipProfile)  *)
(* and the package it is bound in (Bsp).  A behaviour is one of one part,  *)
(* which `at' names; the others stay as they are in the beginning.         *)
(***************************************************************************)
EXTENDS Integers, Sequences

CONSTANTS
    TableLen, Services,
    Elements, MaxElements,
    MaxOps, MaxLen, Keys, Values,
    Block, MaxSegment, Overhead, MaxProfile

\* Services are numbered from one.
ASSUME ServicesAssumption ==
    /\ TableLen \in Nat
    /\ Services \subseteq Nat \ {0}

\* A segment has room for some data.
ASSUME BspAssumption ==
    /\ Block \in Nat \ {0} /\ MaxProfile \in Nat
    /\ MaxSegment \in Nat /\ Overhead \in Nat /\ Overhead < MaxSegment

VARIABLES
    at,
    equip, todo, tree, raised, edit, ust, sst, want,
    pes, added, nodes, base, cur_df, last, failed,
    pe_list, by_type, by_naa, ident, mandatory, gfste, sdKeys, key_list, param, der, ops,
    upp, keys, ppp, bsp, pkg, state, faulty, peer, got

E == INSTANCE Equip
F == INSTANCE SaipFs WITH raised <- failed
S == INSTANCE SaipProfile WITH keys <- sdKeys, services <- mandatory
B == INSTANCE Bsp

card == <<equip, todo, tree, raised, edit, ust, sst, want>>
fs == <<pes, added, nodes, base, cur_df, last, failed>>
sequence == <<pe_list, by_type, by_naa, ident, mandatory, gfste, sdKeys, key_list, param, der, ops>>
package == <<upp, keys, ppp, bsp, pkg, state, faulty, peer, got>>

vars == <<at, card, fs, sequence, package>>

\* Of a part that stays one initial state is enough.
Init ==
    /\ at \in {"card", "fs", "sequence", "package"}
    /\ at # "card" => equip = CHOOSE c \in E!Cards : TRUE
    /\ at # "sequence" => gfste = {}
    /\ at # "package" => upp = <<1>> /\ keys = "session"
    /\ E!Init /\ F!Init /\ S!Init /\ B!Init

Next ==
    \/ at = "card" /\ E!Next /\ UNCHANGED <<at, fs, sequence, package>>
    \/ at = "fs" /\ F!Next /\ UNCHANGED <<at, card, sequence, package>>
    \/ at = "sequence" /\ S!Next /\ UNCHANGED <<at, card, fs, package>>
    \/ at = "package" /\ B!Next /\ UNCHANGED <<at, card, fs, sequence>>

Spec == Init /\ [][Next]_vars

-----------------------------------------------------------------------------
(* Properties: those of the parts. *)

\* Whatever combination of profile, add-ons, applications and model is found,
\* its tree can be built: no two files of one DF share fid, sfid or name
\* (CardDF.add_file raises otherwise).
EveryCardEquips == E!EveryCardEquips

\* What one mechanism of a file class has decoded is never encoded by another
\* (decode_* and encode_* choose among the members a class happens to have).
EncodedAsDecoded == at = "card" => E!EncodedAsDecoded

\* After any sequence of service commands EF.UST and EF.SST say what was asked, no
\* command having touched another service's bits (ust_update, _adjust_service).
ServicesAsAsked == at = "card" => E!ServicesAsAsked

\* The two ways of telling where a file of a profile is agree: the tree that the
\* template class built from the order of its files, and the place add_file found
\* by the parent path, whatever elements came before; a file whose template is not
\* found by its name stays in the base DF (pe2files, add_file).
PlacedByTemplate == at = "fs" => F!PlacedByTemplate

\* A file with a pattern for its contents is filled to the last octet of the size
\* its element or its template declares, and not beyond it, unless that size is
\* overlooked (from_fileDescriptor, file_content_from_tuples).
FilledWhole == at = "fs" => F!FilledWhole

\* After any calls no two elements share a number, and pe_by_type lists exactly
\* the elements of the profile, in their order (renumber_identification,
\* _process_pelist).
IndexesAgree == at = "sequence" => S!IndexesAgree

\* Once an NAA has been removed, no element of those it had, from its ADF to its
\* PINs and keys, and no remote file management of its ADF is left, although the
\* index that says so is never emptied (remove_naas_of_type, _rebuild_pes_by_naa).
NaaGone == S!NaaGone

\* What the SM-DP+ binds, the other end reads: counter and chaining value advance
\* alike through encrypted and MAC-only segments and a change of keys
\* (mac_only_one, demac_only_one, BoundProfilePackage.decode).
RoundTrip == at = "package" => B!RoundTrip

\* A package that lost, doubled or moved segments is refused or gives a beginning
\* of the profile, never anything else (BspAlgoMac.verify, decode).
OnlyBeginnings == at = "package" => B!OnlyBeginnings

=============================================================================
