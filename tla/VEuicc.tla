------------------------------- MODULE VEuicc -------------------------------
(***************************************************************************)
(* The virtual eUICC of v-euicc-daemon: the one global `struct euicc_state`*)
(* and the requests main.c and apdu_handler.c apply to it.  The daemon is  *)
(* single threaded and serves one client at a time, so every request is    *)
(* one atomic step; what is nondeterministic is the order of the requests, *)
(* the clients that come and go between them, and the contents of the      *)
(* requests.  A command arrives here whole: how it is cut into APDUs and   *)
(* put together again is the subject of module CardLink.                   *)
(*                                                                         *)
(* Signatures and keys are abstract: a signed answer is the record of what *)
(* was signed, an ECKA key pair is a member of OneTimeKeys, and the keys   *)
(* derived from it are the pair of the two parties' one-time keys.         *)
(***************************************************************************)
EXTENDS Integers, Sequences

CONSTANTS
    Tids,          \* transaction ids an SM-DP+ can have issued
    Mids,          \* matching ids (activation codes)
    Challenges,    \* values of eUICC and server challenges
    OneTimeKeys,   \* otPK/otSK.EUICC.ECKA pairs the card can still generate
    DpKeys,        \* otPK.DP.ECKA points of the SM-DP+
    Pkgs,          \* bound profile packages (what a BPP command carries a piece of)
    SegmentTags,   \* tags of the BPP commands a client sends, A3 apart
    LengthForms,   \* how it writes their length fields
    Iccid, Aid,    \* the two constants every installed profile is given
    OtherId,       \* an ICCID or AID no profile has
    None,          \* a NULL pointer, a zero length
    MaxProfiles,   \* bound: profiles held at once
    MaxChunks      \* bound: pieces held in bound_profile_package

ASSUME NoneAssumption ==
    /\ None \notin Tids \cup Mids \cup Challenges \cup OneTimeKeys \cup DpKeys
    /\ None \notin {Iccid, Aid, OtherId}
    /\ OtherId \notin {Iccid, Aid}

\* 86/87/88 carry data, A0..A2 wrap them; a length field is one octet with the
\* contents after it ("short"), 81/82 and further octets with the contents
\* after them ("long"), or ends a header whose contents later commands send.
ASSUME CommandAssumption ==
    /\ SegmentTags \subseteq {"86", "87", "88", "A0", "A1", "A2"}
    /\ LengthForms \subseteq {"short", "long", "header"}

ASSUME BoundAssumption == MaxProfiles \in Nat \ {0} /\ MaxChunks \in Nat \ {0}

VARIABLES
    client,        \* handle_client is serving a connection
    logic_channel, \* -1 or 1
    private_key,   \* euicc_private_key was loaded
    euicc_challenge,
    server_challenge,
    transaction_id,
    matching_id,
    otk,           \* euicc_otpk and euicc_otsk, written together
    otkUsed,       \* every pair generated so far (a new one is never an old one)
    smdp_otpk,
    session_keys,  \* session_key_enc/mac, None until session_keys_derived
    bpp,           \* bound_profile_package: the pieces appended so far
    profiles,      \* the metadata list, newest first
    rsp            \* the last response written to the socket

secretVars == <<otk, smdp_otpk, session_keys>>
authVars == <<euicc_challenge, server_challenge, transaction_id, matching_id>>
stateVars == <<logic_channel, private_key, authVars, secretVars, bpp, profiles>>
vars == <<client, stateVars, otkUsed, rsp>>

-----------------------------------------------------------------------------
(* Data. *)

Orn(S) == S \cup {None}

\* A piece of a package in bound_profile_package, complete or cut short.
Chunk == [tag : SegmentTags \cup {"A3"}, pkg : Pkgs, whole : BOOLEAN]

Profile == [iccid : {Iccid}, aid : {Aid}, enabled : BOOLEAN,
            name : Orn(Mids), data : Seq(Chunk)]

\* The kinds of answers: a request other than "transmit", a status word, or the
\* tag of an ES10x response.
ReplyTags == {"", "connect", "disconnect", "channel", "close", "6D00",
              "BF20", "BF21", "BF22", "BF2D", "BF2E", "BF31", "BF32", "BF33",
              "BF37", "BF38", "BF3C", "BF3E", "BF41"}

\* What the socket answers: ecode, the response tag and the fields a client
\* reads.  Fields that a response does not have are None.
Response == [ecode : {-1, 0, 1}, tag : ReplyTags, code : 0 .. 2,
             tid : Orn(Tids), challenge : Orn(Challenges),
             mid : Orn(Mids), otpk : Orn(OneTimeKeys)]

Answer(e, t) == [ecode |-> e, tag |-> t, code |-> 0, tid |-> None,
                 challenge |-> None, mid |-> None, otpk |-> None]

\* A response in which a client reads more than that it came.
Reply(tag, code, tid, challenge, mid, otpk) ==
    [ecode |-> 0, tag |-> tag, code |-> code, tid |-> tid,
     challenge |-> challenge, mid |-> mid, otpk |-> otpk]

Failed == Answer(-1, "")            \* return -1: no response bytes
Unsupported == Answer(0, "6D00")    \* status word INS not supported

TypeOK ==
    /\ client \in BOOLEAN
    /\ logic_channel \in {-1, 1}
    /\ private_key \in BOOLEAN
    /\ euicc_challenge \in Orn(Challenges)
    /\ server_challenge \in Orn(Challenges)
    /\ transaction_id \in Orn(Tids)
    /\ matching_id \in Orn(Mids)
    /\ otk \in Orn(OneTimeKeys)
    /\ otkUsed \subseteq OneTimeKeys
    /\ smdp_otpk \in Orn(DpKeys)
    /\ session_keys \in Orn(OneTimeKeys \X DpKeys)
    /\ bpp \in Seq(Chunk)
    /\ profiles \in Seq(Profile)
    /\ rsp \in Response

-----------------------------------------------------------------------------
(* euicc_state.c *)

\* Mutant of Cleared: session_keys_derived is not reset.
ClearedKeepsSessionKeys ==
    /\ logic_channel' = -1
    /\ euicc_challenge' = None
    /\ server_challenge' = None
    /\ transaction_id' = None
    /\ otk' = None
    /\ smdp_otpk' = None
    /\ bpp' = <<>>
    /\ profiles' = <<>>
    /\ UNCHANGED session_keys

\* Everything euicc_state_reset clears (and euicc_state_init overwrites).
Cleared ==
    /\ logic_channel' = -1
    /\ euicc_challenge' = None
    /\ server_challenge' = None
    /\ transaction_id' = None
    /\ otk' = None
    /\ smdp_otpk' = None
    /\ session_keys' = None
    /\ bpp' = <<>>
    /\ profiles' = <<>>

\* memset and the defaults: the whole structure, the matching id included.
euicc_state_init == Cleared /\ matching_id' = None

\* Frees everything but leaves matching_id as it was; the private key goes.
euicc_state_reset ==
    /\ Cleared
    /\ private_key' = FALSE
    /\ UNCHANGED matching_id

Init ==
    /\ client = FALSE
    /\ logic_channel = -1
    /\ private_key = FALSE
    /\ euicc_challenge = None /\ server_challenge = None
    /\ transaction_id = None /\ matching_id = None
    /\ otk = None /\ otkUsed = {} /\ smdp_otpk = None /\ session_keys = None
    /\ bpp = <<>>
    /\ profiles = <<>>
    /\ rsp = Answer(0, "")

-----------------------------------------------------------------------------
(* main.c: connections.  euicc_state_init of the first client finds the    *)
(* state Init already describes.                                           *)

Accept ==
    /\ ~client
    /\ client' = TRUE
    /\ UNCHANGED <<stateVars, otkUsed, rsp>>

\* recv, parsing or send fails: the loop ends, the global state stays.
Drop ==
    /\ client
    /\ client' = FALSE
    /\ UNCHANGED <<stateVars, otkUsed, rsp>>

\* The daemon is stopped and started again: its memory is gone.
Restart ==
    /\ client' = FALSE
    /\ euicc_state_init /\ private_key' = FALSE
    /\ rsp' = Answer(0, "")
    /\ UNCHANGED otkUsed

\* "connect": the structure is initialised anew, then the three certificate
\* directories are tried; success is reported whether or not a key was found.
Connect(found) ==
    /\ client
    /\ euicc_state_init
    /\ private_key' = found
    /\ rsp' = Answer(0, "connect")
    /\ UNCHANGED <<client, otkUsed>>

\* "disconnect".  After the answer handle_client compares `func`, which
\* protocol_free_request has freed, with "disconnect": the loop may end or not.
Disconnect ==
    /\ client
    /\ euicc_state_reset
    /\ client' \in BOOLEAN
    /\ rsp' = Answer(0, "disconnect")
    /\ UNCHANGED otkUsed

LogicChannelOpen(isdr) ==
    /\ client
    /\ logic_channel' = IF isdr THEN 1 ELSE logic_channel
    /\ rsp' = IF isdr THEN Answer(1, "channel") ELSE Failed
    /\ UNCHANGED <<client, private_key, authVars, secretVars, otkUsed, bpp, profiles>>

\* Mutant of LogicChannelClose: 0 for a closed channel.
LogicChannelCloseToZero(channel) ==
    /\ client
    /\ logic_channel' = IF channel = logic_channel THEN 0 ELSE logic_channel
    /\ rsp' = Answer(0, "close")
    /\ UNCHANGED <<client, private_key, authVars, secretVars, otkUsed, bpp, profiles>>

LogicChannelClose(channel) ==
    /\ client
    /\ logic_channel' = IF channel = logic_channel THEN -1 ELSE logic_channel
    /\ rsp' = Answer(0, "close")
    /\ UNCHANGED <<client, private_key, authVars, secretVars, otkUsed, bpp, profiles>>

\* "transmit" without a channel, and any request with an unknown function.
Refuse ==
    /\ client
    /\ rsp' = Failed
    /\ UNCHANGED <<client, stateVars, otkUsed>>

-----------------------------------------------------------------------------
(* apdu_handler.c: the ES10b commands, reached by a complete "transmit" on  *)
(* an open channel.                                                         *)

Transmitting == client /\ logic_channel >= 0

\* GET RESPONSE, another INS, or a tag process_es10x_command does not know
\* (the notification, nickname and memory-reset commands among them).
UnsupportedCommand ==
    /\ Transmitting
    /\ rsp' = Unsupported
    /\ UNCHANGED <<client, stateVars, otkUsed>>

\* GetEuiccInfo1/2, GetEID, GetEuiccConfiguredAddresses and GetProfilesInfo.
Query(tag) ==
    /\ Transmitting
    /\ rsp' = Answer(0, tag)
    /\ UNCHANGED <<client, stateVars, otkUsed>>

GetEuiccChallenge(c) ==
    /\ Transmitting
    /\ euicc_challenge' = c
    /\ rsp' = Reply("BF2E", 0, None, c, None, None)
    /\ UNCHANGED <<client, logic_channel, private_key, server_challenge,
                   transaction_id, matching_id, secretVars, otkUsed, bpp, profiles>>

\* AuthenticateServer: the fields are stored as they are found in the request
\* (t, c or m is None when the scan does not find it), then the answer is
\* signed; without a private key the answer is an error, the fields stay.
AuthenticateServer(t, c, m) ==
    /\ Transmitting
    /\ transaction_id' = IF t = None THEN transaction_id ELSE t
    /\ server_challenge' = IF c = None THEN server_challenge ELSE c
    /\ matching_id' = m
    /\ rsp' = IF private_key
              THEN Reply("BF38", 0, transaction_id', server_challenge', m, None)
              ELSE Failed
    /\ UNCHANGED <<client, logic_channel, private_key, euicc_challenge,
                   secretVars, otkUsed, bpp, profiles>>

\* PrepareDownload: takes the request's transaction id for its own, replaces
\* the one-time key pair by a new one, then signs both.
PrepareDownload(t, k) ==
    /\ Transmitting
    /\ k \in OneTimeKeys \ otkUsed
    /\ transaction_id' = IF t = None THEN transaction_id ELSE t
    /\ otk' = k
    /\ otkUsed' = otkUsed \cup {k}
    /\ rsp' = IF private_key
              THEN Reply("BF21", 0, transaction_id', None, None, k)
              ELSE Failed
    /\ UNCHANGED <<client, logic_channel, private_key, euicc_challenge,
                   server_challenge, matching_id, smdp_otpk, session_keys,
                   bpp, profiles>>

\* CancelSession: signs the stored transaction id, whatever the request's is.
CancelSession ==
    /\ Transmitting
    /\ rsp' = IF private_key
              THEN Reply("BF41", 0, transaction_id, None, None, None)
              ELSE Failed
    /\ UNCHANGED <<client, stateVars, otkUsed>>

\* The answer to a BPP command that does not install.
Intermediate == Reply("BF37", 0, transaction_id, None, None, None)

\* InitialiseSecureChannel: the transaction id must be the stored one; d is
\* None when smdpOtpk is missing or is not 65 octets.  The point is stored
\* before it is used: the derivation fails without a one-time key, and when
\* OpenSSL does not accept the point (onCurve).
InitialiseSecureChannel(t, d, onCurve) ==
    /\ Transmitting
    /\ LET accepted == t = transaction_id /\ d # None
           derived == accepted /\ otk # None /\ onCurve
       IN  /\ smdp_otpk' = IF accepted THEN d ELSE smdp_otpk
           /\ session_keys' = IF derived THEN <<otk, d>> ELSE session_keys
           /\ rsp' = IF derived THEN Intermediate ELSE Failed
    /\ UNCHANGED <<client, logic_channel, private_key, authVars, otk, otkUsed,
                   bpp, profiles>>

\* What a BPP command appends to the buffer: the octet after the tag is taken
\* for the length, so a long form is cut (0x81 or 0x82 octets are copied, the
\* other length octets among them) and a header alone appends nothing.
Appended(tag, form, g) ==
    IF form = "header" THEN <<>>
    ELSE <<[tag |-> tag, pkg |-> g, whole |-> form = "short"]>>

\* A BPP command other than A3: nothing but the buffer changes.
LoadSegment(tag, form, g) ==
    /\ Transmitting
    /\ Len(bpp) < MaxChunks
    /\ bpp' = bpp \o Appended(tag, form, g)
    /\ rsp' = Intermediate
    /\ UNCHANGED <<client, logic_channel, private_key, authVars, secretVars,
                   otkUsed, profiles>>

\* The metadata of a new profile: ICCID and AID are the same for all.
NewProfile(data) ==
    [iccid |-> Iccid, aid |-> Aid, enabled |-> FALSE,
     name |-> matching_id, data |-> data]

\* A3: appends, then installs what the buffer holds, if anything, and empties
\* it; the result is signed last, and is an error without a private key.
Install(form, g) ==
    /\ Transmitting
    /\ Len(profiles) < MaxProfiles
    /\ LET data == bpp \o Appended("A3", form, g)
       IN  profiles' = IF data = <<>> THEN profiles
                       ELSE <<NewProfile(data)>> \o profiles
    /\ bpp' = <<>>
    /\ rsp' = IF private_key
              THEN Reply("BF37", 1, transaction_id, None, None, None)
              ELSE Failed
    /\ UNCHANGED <<client, logic_channel, private_key, authVars, secretVars, otkUsed>>

-----------------------------------------------------------------------------
(* apdu_handler.c: the ES10c commands.                                      *)

\* The profiles a request names.  id is None when neither 5A nor 4F is found
\* at the top level of the request, as when they are inside an A0 wrapper.
Named(id) == {i \in 1 .. Len(profiles) :
                 id # None /\ id \in {profiles[i].iccid, profiles[i].aid}}

\* The search stops at the first match of the list.
Target(i, id) == i \in Named(id) /\ \A j \in Named(id) : i <= j

Result(tag, c) == Reply(tag, c, None, None, None, None)

\* The frame of an ES10c command: at most the list changes.
Manage(tag, c) ==
    /\ Transmitting
    /\ rsp' = Result(tag, c)
    /\ UNCHANGED <<client, logic_channel, private_key, authVars, secretVars,
                   otkUsed, bpp>>

\* An Enable, Disable or Delete that names no profile.
NotFound(tag, id) ==
    /\ Named(id) = {}
    /\ Manage(tag, 1)
    /\ UNCHANGED profiles

\* p with the state enabled or disabled.
WithState(p, enabled) == [p EXCEPT !.enabled = enabled]

\* Mutant of EnableProfile: the loop over the other profiles is missing.
EnableKeepsOthers(id) ==
    \E i \in 1 .. Len(profiles) :
        /\ Target(i, id)
        /\ profiles' = [profiles EXCEPT ![i] = WithState(@, TRUE)]
        /\ Manage("BF31", 0)

\* Enable disables every other profile; it does not ask for the target's state.
EnableProfile(id) ==
    \E i \in 1 .. Len(profiles) :
        /\ Target(i, id)
        /\ profiles' = [j \in DOMAIN profiles |-> WithState(profiles[j], j = i)]
        /\ Manage("BF31", 0)

DisableProfile(id) ==
    \E i \in 1 .. Len(profiles) :
        /\ Target(i, id)
        /\ IF profiles[i].enabled
           THEN /\ profiles' = [profiles EXCEPT ![i] = WithState(@, FALSE)]
                /\ Manage("BF32", 0)
           ELSE /\ UNCHANGED profiles
                /\ Manage("BF32", 2)

\* The list without its i-th element.
Unlink(i) == [j \in 1 .. Len(profiles) - 1 |->
                 IF j < i THEN profiles[j] ELSE profiles[j + 1]]

\* Mutant of DeleteProfile: the state of the profile is not asked for.
DeleteEnabledToo(id) ==
    \E i \in 1 .. Len(profiles) :
        /\ Target(i, id)
        /\ profiles' = Unlink(i)
        /\ Manage("BF33", 0)

DeleteProfile(id) ==
    \E i \in 1 .. Len(profiles) :
        /\ Target(i, id)
        /\ IF profiles[i].enabled
           THEN /\ UNCHANGED profiles
                /\ Manage("BF33", 2)
           ELSE /\ profiles' = Unlink(i)
                /\ Manage("BF33", 0)

-----------------------------------------------------------------------------
(* A client that sends any request in any order.                            *)

Ids == {Iccid, Aid, OtherId, None}

Connections ==
    \/ Accept \/ Drop \/ Restart \/ Disconnect \/ Refuse
    \/ \E found \in BOOLEAN : Connect(found)
    \/ \E isdr \in BOOLEAN : LogicChannelOpen(isdr)
    \/ \E channel \in {1, 2} : LogicChannelClose(channel)

Download ==
    \/ UnsupportedCommand
    \/ \E c \in Challenges : GetEuiccChallenge(c)
    \/ \E t \in Orn(Tids), c \in Orn(Challenges), m \in Orn(Mids) :
          AuthenticateServer(t, c, m)
    \/ \E t \in Orn(Tids), k \in OneTimeKeys : PrepareDownload(t, k)
    \/ CancelSession
    \/ \E t \in Orn(Tids), d \in Orn(DpKeys), onCurve \in BOOLEAN :
          InitialiseSecureChannel(t, d, onCurve)
    \/ \E tag \in SegmentTags, form \in LengthForms, g \in Pkgs : LoadSegment(tag, form, g)
    \/ \E form \in LengthForms, g \in Pkgs : Install(form, g)

Management ==
    \/ \E tag \in {"BF20", "BF22", "BF2D", "BF3C", "BF3E"} : Query(tag)
    \/ \E id \in Ids :
          \/ \E tag \in {"BF31", "BF32", "BF33"} : NotFound(tag, id)
          \/ EnableProfile(id)
          \/ DisableProfile(id)
          \/ DeleteProfile(id)

Next == Connections \/ Download \/ Management

Spec == Init /\ [][Next]_vars

-----------------------------------------------------------------------------
(* Properties. *)

\* At most one installed profile is enabled, in whatever order profiles are
\* installed, enabled by ICCID or by AID, disabled and deleted, although all of
\* them carry the same ICCID and the same AID (BF31 disables every other one).
AtMostOneEnabled ==
    \A i, j \in 1 .. Len(profiles) :
        profiles[i].enabled /\ profiles[j].enabled => i = j

\* The session keys are those of the pair and the point the card holds.
KeysCurrent == session_keys = <<otk, smdp_otpk>>

\* Session keys are derived from the pair and the point held, never from others,
\* and fall behind these only in a step whose answer lets the client know: a
\* PrepareDownload (BF21), whose new pair the old keys outlive, or an error, as
\* of a BF23 whose point was stored and whose derivation failed.  Keys that are
\* behind stay what they were until new ones are derived; connect, disconnect
\* and a restart leave none.
KeysStep ==
    session_keys' # None =>
        \/ KeysCurrent'
        \/ /\ session_keys' = session_keys
           /\ ~KeysCurrent \/ rsp'.tag = "BF21" \/ rsp' = Failed

KeysFollow == [][KeysStep]_vars

\* The position of the enabled profile, 0 when there is none.
EnabledIndex ==
    IF \E i \in 1 .. Len(profiles) : profiles[i].enabled
    THEN CHOOSE i \in 1 .. Len(profiles) : profiles[i].enabled
    ELSE 0

\* What identifies the profiles of the list.
Listed == [i \in 1 .. Len(profiles) |-> <<profiles[i].name, profiles[i].data>>]

Registry == INSTANCE ProfileRegistry WITH list <- Listed, active <- EnabledIndex

\* The linked list of metadata with its per-profile state implements the
\* abstract registry of SGP.22: a list with one active position, from which a
\* profile leaves alone only when it is not the active one (BF31, BF32, BF33,
\* A3), or with all the others when the card's memory is cleared.
ImplementsRegistry == Registry!Spec

\* What docs/04-V-EUICC.md says of the global state: the card keeps its
\* profiles "even as the LPA connects and disconnects".
ProfilesSurviveReconnect ==
    [][rsp'.tag \in {"connect", "disconnect"} => profiles' = profiles]_vars

=============================================================================
