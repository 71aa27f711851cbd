---------------------------- MODULE VEuiccProofs ----------------------------
(***************************************************************************)
(* Proofs about VEuicc for every set of identifiers, keys and packages and *)
(* every bound: its type invariant, that at most one profile is enabled,   *)
(* and that session keys never outlive the one-time keys behind them.      *)
(***************************************************************************)
EXTENDS VEuicc, ListTheorems, TLAPS

-----------------------------------------------------------------------------
(* The helpers. *)

\* None is a value of every optional field, and so is every proper one.
LEMMA OptionTypes ==
    /\ None \in Orn(Tids) /\ None \in Orn(Mids) /\ None \in Orn(Challenges)
    /\ None \in Orn(OneTimeKeys) /\ None \in Orn(DpKeys)
    /\ None \in Orn(OneTimeKeys \X DpKeys)
    /\ \A S : \A x \in S : x \in Orn(S)
BY DEF Orn

\* The answers' tags and codes.
LEMMA TagTypes ==
    /\ "" \in ReplyTags /\ "connect" \in ReplyTags /\ "disconnect" \in ReplyTags
    /\ "channel" \in ReplyTags /\ "close" \in ReplyTags /\ "6D00" \in ReplyTags
    /\ "BF20" \in ReplyTags /\ "BF21" \in ReplyTags /\ "BF22" \in ReplyTags
    /\ "BF2D" \in ReplyTags /\ "BF2E" \in ReplyTags /\ "BF31" \in ReplyTags
    /\ "BF32" \in ReplyTags /\ "BF33" \in ReplyTags /\ "BF37" \in ReplyTags
    /\ "BF38" \in ReplyTags /\ "BF3C" \in ReplyTags /\ "BF3E" \in ReplyTags
    /\ "BF41" \in ReplyTags
    /\ 0 \in 0 .. 2 /\ 1 \in 0 .. 2 /\ 2 \in 0 .. 2
BY DEF ReplyTags

\* An answer with no fields is a response.
LEMMA AnswerType ==
    ASSUME NEW e \in {-1, 0, 1}, NEW t \in ReplyTags
    PROVE  Answer(e, t) \in Response
BY DEF Answer, Response, Orn

\* So is one with fields.
LEMMA ReplyType ==
    ASSUME NEW tag \in ReplyTags, NEW code \in 0 .. 2, NEW tid \in Orn(Tids),
           NEW challenge \in Orn(Challenges), NEW mid \in Orn(Mids),
           NEW otpk \in Orn(OneTimeKeys)
    PROVE  Reply(tag, code, tid, challenge, mid, otpk) \in Response
BY DEF Reply, Response

\* A list with a new first element.
LEMMA ConsProperties ==
    ASSUME NEW S, NEW x \in S, NEW s \in Seq(S)
    PROVE  /\ <<x>> \o s \in Seq(S)
           /\ Len(<<x>> \o s) = Len(s) + 1
           /\ (<<x>> \o s)[1] = x
           /\ \A j \in 1 .. Len(s) : (<<x>> \o s)[j + 1] = s[j]
           /\ <<x>> \o s # <<>>
           /\ Tail(<<x>> \o s) = s
<1>1. <<x>> \in Seq(S) /\ Len(<<x>>) = 1 /\ <<x>>[1] = x
  OBVIOUS
<1>. DEFINE t == <<x>> \o s
<1>2. /\ t \in Seq(S)
      /\ Len(t) = Len(s) + 1
      /\ \A j \in 1 .. 1 + Len(s) : t[j] = IF j <= 1 THEN <<x>>[j] ELSE s[j - 1]
  BY <1>1, ConcatProperties
<1>. HIDE DEF t
<1>3. t[1] = x /\ \A j \in 1 .. Len(s) : t[j + 1] = s[j]
  BY <1>1, <1>2
<1>4. t # <<>>
  BY <1>2
<1>5. /\ Tail(t) \in Seq(S)
      /\ Len(Tail(t)) = Len(t) - 1
      /\ \A j \in 1 .. Len(Tail(t)) : Tail(t)[j] = t[j + 1]
  BY <1>2, <1>4, HeadTailProperties
<1>6. Tail(t) = s
  BY <1>2, <1>3, <1>5, SeqEqual
<1>. QED  BY <1>2, <1>3, <1>4, <1>6 DEF t

\* What a BPP command appends is a sequence of pieces.
LEMMA AppendedType ==
    ASSUME NEW tag \in SegmentTags \cup {"A3"}, NEW form, NEW g \in Pkgs
    PROVE  Appended(tag, form, g) \in Seq(Chunk)
<1>1. [tag |-> tag, pkg |-> g, whole |-> form = "short"] \in Chunk
  BY DEF Chunk
<1>. QED  BY <1>1 DEF Appended

\* Removing one element of a list leaves a list of the same type.
LEMMA UnlinkType ==
    ASSUME profiles \in Seq(Profile), NEW i \in 1 .. Len(profiles)
    PROVE  /\ Unlink(i) \in Seq(Profile)
           /\ Len(Unlink(i)) = Len(profiles) - 1
           /\ \A j \in 1 .. Len(Unlink(i)) :
                 Unlink(i)[j] = IF j < i THEN profiles[j] ELSE profiles[j + 1]
<1>. DEFINE n == Len(profiles) - 1
<1>1. n \in Nat
  OBVIOUS
<1>2. \A j \in 1 .. n : (IF j < i THEN profiles[j] ELSE profiles[j + 1]) \in Profile
  <2>. TAKE j \in 1 .. n
  <2>1. profiles[j] \in Profile /\ profiles[j + 1] \in Profile
    BY ElementOfSeq
  <2>. QED  BY <2>1
<1>3. Unlink(i) = [j \in 1 .. n |-> IF j < i THEN profiles[j] ELSE profiles[j + 1]]
  BY DEF Unlink
<1>4. Unlink(i) \in Seq(Profile)
  BY <1>1, <1>2, <1>3, IsASeq
<1>5. DOMAIN Unlink(i) = 1 .. n
  BY <1>3
<1>6. Len(Unlink(i)) = n
  BY <1>1, <1>4, <1>5, LenProperties
<1>. HIDE DEF n
<1>7. \A j \in 1 .. n : Unlink(i)[j] = IF j < i THEN profiles[j] ELSE profiles[j + 1]
  BY <1>3
<1>. QED  BY <1>4, <1>6, <1>7 DEF n

-----------------------------------------------------------------------------
(* Types. *)

\* The types of the initial state.
LEMMA InitType == Init => TypeOK
BY AnswerType, TagTypes, OptionTypes, EmptySeq DEF Init, TypeOK

\* Connections, channels and refused requests keep the types.
LEMMA ConnectionsType == TypeOK /\ Connections => TypeOK'
<1>. SUFFICES ASSUME TypeOK, Connections PROVE TypeOK'
  OBVIOUS
<1>. USE AnswerType, TagTypes, OptionTypes, EmptySeq
       DEF TypeOK, Failed, stateVars, authVars, secretVars
<1>1. CASE Accept
  BY <1>1 DEF Accept
<1>2. CASE Drop
  BY <1>2 DEF Drop
<1>3. CASE Restart
  BY <1>3 DEF Restart, euicc_state_init, Cleared
<1>4. CASE Disconnect
  BY <1>4 DEF Disconnect, euicc_state_reset, Cleared
<1>5. CASE Refuse
  BY <1>5 DEF Refuse
<1>6. CASE \E found \in BOOLEAN : Connect(found)
  BY <1>6 DEF Connect, euicc_state_init, Cleared
<1>7. CASE \E isdr \in BOOLEAN : LogicChannelOpen(isdr)
  BY <1>7 DEF LogicChannelOpen
<1>8. CASE \E channel \in {1, 2} : LogicChannelClose(channel)
  BY <1>8 DEF LogicChannelClose
<1>. QED  BY <1>1, <1>2, <1>3, <1>4, <1>5, <1>6, <1>7, <1>8 DEF Connections

\* The commands of a download keep the types.
LEMMA DownloadType == TypeOK /\ Download => TypeOK'
<1>. SUFFICES ASSUME TypeOK, Download PROVE TypeOK'
  OBVIOUS
<1>. USE AnswerType, ReplyType, TagTypes, OptionTypes
       DEF TypeOK, Failed, stateVars, authVars, secretVars
<1>1. CASE UnsupportedCommand
  BY <1>1 DEF UnsupportedCommand, Unsupported
<1>2. ASSUME NEW c \in Challenges, GetEuiccChallenge(c)
      PROVE  TypeOK'
  BY <1>2 DEF GetEuiccChallenge
<1>3. ASSUME NEW t \in Orn(Tids), NEW c \in Orn(Challenges), NEW m \in Orn(Mids),
             AuthenticateServer(t, c, m)
      PROVE  TypeOK'
  BY <1>3 DEF AuthenticateServer
<1>4. ASSUME NEW t \in Orn(Tids), NEW k \in OneTimeKeys, PrepareDownload(t, k)
      PROVE  TypeOK'
  BY <1>4 DEF PrepareDownload
<1>5. CASE CancelSession
  BY <1>5 DEF CancelSession
<1>6. ASSUME NEW t \in Orn(Tids), NEW d \in Orn(DpKeys), NEW onCurve \in BOOLEAN,
             InitialiseSecureChannel(t, d, onCurve)
      PROVE  TypeOK'
  <2>1. d # None => d \in DpKeys
    BY DEF Orn
  <2>2. otk # None => otk \in OneTimeKeys
    BY DEF Orn
  <2>3. d # None /\ otk # None => <<otk, d>> \in Orn(OneTimeKeys \X DpKeys)
    BY <2>1, <2>2
  <2>4. session_keys' \in Orn(OneTimeKeys \X DpKeys)
    BY <1>6, <2>3 DEF InitialiseSecureChannel
  <2>5. smdp_otpk' \in Orn(DpKeys)
    BY <1>6 DEF InitialiseSecureChannel
  <2>6. rsp' \in Response
    BY <1>6 DEF InitialiseSecureChannel, Intermediate
  <2>. QED  BY <1>6, <2>4, <2>5, <2>6 DEF InitialiseSecureChannel
<1>7. ASSUME NEW tag \in SegmentTags, NEW form \in LengthForms, NEW g \in Pkgs,
             LoadSegment(tag, form, g)
      PROVE  TypeOK'
  <2>1. bpp' \in Seq(Chunk)
    BY <1>7, AppendedType, ConcatProperties DEF LoadSegment
  <2>2. rsp' \in Response
    BY <1>7 DEF LoadSegment, Intermediate
  <2>. QED  BY <1>7, <2>1, <2>2 DEF LoadSegment
<1>8. ASSUME NEW form \in LengthForms, NEW g \in Pkgs, Install(form, g)
      PROVE  TypeOK'
  <2>. DEFINE data == bpp \o Appended("A3", form, g)
  <2>1. data \in Seq(Chunk)
    BY AppendedType, ConcatProperties
  <2>. HIDE DEF data
  <2>2. NewProfile(data) \in Profile
    BY <2>1 DEF NewProfile, Profile
  <2>. HIDE DEF NewProfile
  <2>3. <<NewProfile(data)>> \o profiles \in Seq(Profile)
    BY <2>2, ConsProperties
  <2>4. profiles' \in Seq(Profile)
    BY <1>8, <2>3 DEF Install, data
  <2>5. rsp' \in Response
    BY <1>8 DEF Install
  <2>. QED  BY <1>8, <2>4, <2>5, EmptySeq DEF Install
<1>. QED
  BY <1>1, <1>2, <1>3, <1>4, <1>5, <1>6, <1>7, <1>8 DEF Download

\* What every ES10c command leaves as it was, and its answer.
LEMMA ManageType ==
    ASSUME TypeOK, profiles' \in Seq(Profile),
           NEW tag \in ReplyTags, NEW c \in 0 .. 2, Manage(tag, c)
    PROVE  TypeOK'
<1>1. rsp' \in Response
  BY ReplyType, OptionTypes DEF Manage, Result
<1>. QED  BY <1>1 DEF Manage, TypeOK, authVars, secretVars

\* Setting the state of a profile changes its state and nothing else.
LEMMA WithStateType ==
    ASSUME NEW p \in Profile, NEW b \in BOOLEAN
    PROVE  /\ WithState(p, b) \in Profile
           /\ WithState(p, b).enabled = b
           /\ WithState(p, b).name = p.name
           /\ WithState(p, b).data = p.data
BY DEF WithState, Profile

\* The list a successful Enable leaves.
LEMMA EnabledList ==
    ASSUME profiles \in Seq(Profile), NEW i \in 1 .. Len(profiles),
           profiles' = [j \in DOMAIN profiles |-> WithState(profiles[j], j = i)]
    PROVE  /\ profiles' \in Seq(Profile)
           /\ Len(profiles') = Len(profiles)
           /\ \A j \in 1 .. Len(profiles) :
                 profiles'[j] = WithState(profiles[j], j = i)
<1>1. Len(profiles) \in Nat /\ DOMAIN profiles = 1 .. Len(profiles)
  BY LenProperties
<1>2. \A j \in 1 .. Len(profiles) :
         WithState(profiles[j], j = i) \in Profile
  BY ElementOfSeq, WithStateType
<1>3. profiles' \in Seq(Profile)
  BY <1>1, <1>2, IsASeq
<1>4. DOMAIN profiles' = 1 .. Len(profiles)
  BY <1>1
<1>. QED  BY <1>1, <1>3, <1>4, LenProperties

\* The list a successful Disable leaves.
LEMMA DisabledList ==
    ASSUME profiles \in Seq(Profile), NEW i \in 1 .. Len(profiles),
           profiles' = [profiles EXCEPT ![i] = WithState(profiles[i], FALSE)]
    PROVE  /\ profiles' \in Seq(Profile)
           /\ Len(profiles') = Len(profiles)
           /\ \A j \in 1 .. Len(profiles) :
                 profiles'[j] = IF j = i THEN WithState(profiles[i], FALSE)
                                ELSE profiles[j]
<1>1. WithState(profiles[i], FALSE) \in Profile
  BY ElementOfSeq, WithStateType
<1>. DEFINE e == WithState(profiles[i], FALSE)
<1>. HIDE DEF e
<1>2. e \in Profile /\ profiles' = [profiles EXCEPT ![i] = e]
  BY <1>1 DEF e
<1>3. Len(profiles) \in Nat /\ DOMAIN profiles = 1 .. Len(profiles)
  BY LenProperties
<1>4. profiles' = [j \in 1 .. Len(profiles) |-> IF j = i THEN e ELSE profiles[j]]
  BY <1>2, <1>3
<1>5. \A j \in 1 .. Len(profiles) : (IF j = i THEN e ELSE profiles[j]) \in Profile
  BY <1>2, ElementOfSeq
<1>6. profiles' \in [1 .. Len(profiles) -> Profile]
  BY <1>4, <1>5
<1>7. profiles' \in Seq(Profile) /\ Len(profiles') = Len(profiles)
  BY <1>3, <1>6, FunctionIsSeq
<1>8. \A j \in 1 .. Len(profiles) : profiles'[j] = IF j = i THEN e ELSE profiles[j]
  BY <1>4
<1>. QED  BY <1>7, <1>8 DEF e

\* The queries and the ES10c commands keep the types.
LEMMA ManagementType == TypeOK /\ Management => TypeOK'
<1>. SUFFICES ASSUME TypeOK, Management PROVE TypeOK'
  OBVIOUS
<1>0. profiles \in Seq(Profile)
  BY DEF TypeOK
<1>1. ASSUME NEW tag \in {"BF20", "BF22", "BF2D", "BF3C", "BF3E"}, Query(tag)
      PROVE  TypeOK'
  BY <1>1, AnswerType, TagTypes DEF Query, TypeOK, stateVars, authVars, secretVars
<1>2. ASSUME NEW tag \in {"BF31", "BF32", "BF33"}, NEW id, NotFound(tag, id)
      PROVE  TypeOK'
  BY <1>0, <1>2, ManageType, TagTypes DEF NotFound
<1>3. ASSUME NEW id, EnableProfile(id)
      PROVE  TypeOK'
  <2>. PICK i \in 1 .. Len(profiles) : EnableProfile(id)!(i)
    BY <1>3 DEF EnableProfile
  <2>1. profiles' \in Seq(Profile)
    BY <1>0, EnabledList
  <2>. QED  BY <2>1, ManageType, TagTypes
<1>4. ASSUME NEW id, DisableProfile(id)
      PROVE  TypeOK'
  <2>. PICK i \in 1 .. Len(profiles) : DisableProfile(id)!(i)
    BY <1>4 DEF DisableProfile
  <2>1. profiles' \in Seq(Profile)
    BY <1>0, DisabledList
  <2>. QED  BY <2>1, ManageType, TagTypes
<1>5. ASSUME NEW id, DeleteProfile(id)
      PROVE  TypeOK'
  <2>. PICK i \in 1 .. Len(profiles) : DeleteProfile(id)!(i)
    BY <1>5 DEF DeleteProfile
  <2>1. profiles' \in Seq(Profile)
    BY <1>0, UnlinkType
  <2>. QED  BY <2>1, ManageType, TagTypes
<1>. QED  BY <1>1, <1>2, <1>3, <1>4, <1>5 DEF Management

\* Every step keeps the types.
LEMMA NextType == TypeOK /\ [Next]_vars => TypeOK'
<1>1. TypeOK /\ UNCHANGED vars => TypeOK'
  BY DEF TypeOK, vars, stateVars, authVars, secretVars
<1>. QED  BY <1>1, ConnectionsType, DownloadType, ManagementType DEF Next

\* Type correctness of the card: whatever requests arrive in whatever order.
THEOREM TypeCorrect == Spec => []TypeOK
BY InitType, NextType, PTL DEF Spec

-----------------------------------------------------------------------------
(* One enabled profile. *)

\* What the list can become in one step, whatever the request: the steps of a
\* registry, stated for the concrete list.
ListStep ==
    \/ UNCHANGED profiles
    \/ profiles' = <<>>
    \/ \E data \in Seq(Chunk) : profiles' = <<NewProfile(data)>> \o profiles
    \/ \E i \in 1 .. Len(profiles) :
          \/ profiles' = [j \in DOMAIN profiles |-> WithState(profiles[j], j = i)]
          \/ profiles[i].enabled /\ profiles' = [profiles EXCEPT ![i] = WithState(profiles[i], FALSE)]
          \/ ~profiles[i].enabled /\ profiles' = Unlink(i)

\* Every action changes the list in one of these ways.
LEMMA NextListStep == TypeOK /\ [Next]_vars => ListStep
<1>. SUFFICES ASSUME TypeOK, [Next]_vars PROVE ListStep
  OBVIOUS
<1>1. CASE UNCHANGED vars
  BY <1>1 DEF vars, stateVars, ListStep
<1>2. CASE Connections
  BY <1>2 DEF Connections, Accept, Drop, Restart, Connect, Disconnect, Refuse,
       LogicChannelOpen, LogicChannelClose, euicc_state_init, euicc_state_reset,
       Cleared, stateVars, ListStep
<1>3. CASE Download
  <2>1. ASSUME NEW form \in LengthForms, NEW g \in Pkgs, Install(form, g)
        PROVE  ListStep
    <3>. DEFINE data == bpp \o Appended("A3", form, g)
    <3>1. data \in Seq(Chunk)
      BY AppendedType, ConcatProperties DEF TypeOK
    <3>. HIDE DEF data
    <3>2. UNCHANGED profiles \/ profiles' = <<NewProfile(data)>> \o profiles
      BY <2>1 DEF Install, data
    <3>. QED  BY <3>1, <3>2 DEF ListStep
  <2>2. ASSUME ~(\E form \in LengthForms, g \in Pkgs : Install(form, g))
        PROVE  UNCHANGED profiles
    BY <1>3, <2>2 DEF Download, UnsupportedCommand, GetEuiccChallenge,
         AuthenticateServer, PrepareDownload, CancelSession,
         InitialiseSecureChannel, LoadSegment, stateVars
  <2>. QED  BY <2>1, <2>2 DEF ListStep
<1>4. CASE Management
  BY <1>4 DEF Management, Query, NotFound, EnableProfile, DisableProfile,
       DeleteProfile, stateVars, ListStep
<1>. QED  BY <1>1, <1>2, <1>3, <1>4 DEF Next

\* A new profile is not enabled.
LEMMA NewProfileType ==
    ASSUME TypeOK, NEW data \in Seq(Chunk)
    PROVE  /\ NewProfile(data) \in Profile
           /\ NewProfile(data).enabled = FALSE
BY DEF NewProfile, Profile, TypeOK

\* Each way of changing the list keeps at most one profile enabled.
LEMMA OneEnabledStep == TypeOK /\ AtMostOneEnabled /\ ListStep => AtMostOneEnabled'
<1>. SUFFICES ASSUME TypeOK, AtMostOneEnabled, ListStep PROVE AtMostOneEnabled'
  OBVIOUS
<1>0. profiles \in Seq(Profile) /\ Len(profiles) \in Nat
  BY LenProperties DEF TypeOK
<1>1. CASE UNCHANGED profiles
  BY <1>1 DEF AtMostOneEnabled
<1>2. CASE profiles' = <<>>
  BY <1>2, EmptySeq DEF AtMostOneEnabled
<1>3. ASSUME NEW data \in Seq(Chunk), profiles' = <<NewProfile(data)>> \o profiles
      PROVE  AtMostOneEnabled'
  <2>. DEFINE p == NewProfile(data)
  <2>1. p \in Profile /\ p.enabled = FALSE
    BY NewProfileType
  <2>. HIDE DEF p
  <2>2. /\ Len(profiles') = Len(profiles) + 1
        /\ profiles'[1] = p
        /\ \A j \in 1 .. Len(profiles) : profiles'[j + 1] = profiles[j]
    BY <1>0, <1>3, <2>1, ConsProperties DEF p
  <2>3. \A j \in 1 .. Len(profiles') :
           profiles'[j].enabled => j - 1 \in 1 .. Len(profiles) /\ profiles[j - 1].enabled
    <3>. SUFFICES ASSUME NEW j \in 1 .. Len(profiles'), profiles'[j].enabled
                  PROVE  j - 1 \in 1 .. Len(profiles) /\ profiles[j - 1].enabled
      OBVIOUS
    <3>1. j # 1
      BY <2>1, <2>2
    <3>2. j - 1 \in 1 .. Len(profiles) /\ j = (j - 1) + 1
      BY <1>0, <2>2, <3>1
    <3>. QED  BY <2>2, <3>2
  <2>. QED  BY <1>0, <2>2, <2>3 DEF AtMostOneEnabled
<1>4. ASSUME NEW i \in 1 .. Len(profiles),
             profiles' = [j \in DOMAIN profiles |-> WithState(profiles[j], j = i)]
      PROVE  AtMostOneEnabled'
  <2>1. /\ Len(profiles') = Len(profiles)
        /\ \A j \in 1 .. Len(profiles) : profiles'[j] = WithState(profiles[j], j = i)
    BY <1>0, <1>4, EnabledList
  <2>2. ASSUME NEW j \in 1 .. Len(profiles)
        PROVE  profiles'[j].enabled = (j = i)
    <3>1. profiles[j] \in Profile
      BY <1>0, ElementOfSeq
    <3>2. (j = i) \in BOOLEAN
      OBVIOUS
    <3>3. WithState(profiles[j], j = i).enabled = (j = i)
      BY <3>1, <3>2, WithStateType, Zenon
    <3>. QED  BY <2>1, <3>3, Zenon
  <2>. QED  BY <2>1, <2>2 DEF AtMostOneEnabled
<1>5. ASSUME NEW i \in 1 .. Len(profiles),
             profiles' = [profiles EXCEPT ![i] = WithState(profiles[i], FALSE)]
      PROVE  AtMostOneEnabled'
  <2>1. /\ Len(profiles') = Len(profiles)
        /\ \A j \in 1 .. Len(profiles) :
              profiles'[j] = IF j = i THEN WithState(profiles[i], FALSE) ELSE profiles[j]
    BY <1>0, <1>5, DisabledList
  <2>2. WithState(profiles[i], FALSE).enabled = FALSE
    BY <1>0, ElementOfSeq, WithStateType
  <2>3. \A j \in 1 .. Len(profiles) : profiles'[j].enabled => profiles[j].enabled
    BY <2>1, <2>2
  <2>. QED  BY <2>1, <2>3 DEF AtMostOneEnabled
<1>6. ASSUME NEW i \in 1 .. Len(profiles), profiles' = Unlink(i)
      PROVE  AtMostOneEnabled'
  <2>1. /\ Len(profiles') = Len(profiles) - 1
        /\ \A j \in 1 .. Len(profiles') :
              profiles'[j] = IF j < i THEN profiles[j] ELSE profiles[j + 1]
    BY <1>0, <1>6, UnlinkType
  <2>. QED  BY <1>0, <2>1 DEF AtMostOneEnabled
<1>. QED  BY <1>1, <1>2, <1>3, <1>4, <1>5, <1>6 DEF ListStep

\* AtMostOneEnabled holds in every reachable state, for any number of profiles.
THEOREM OneEnabled == Spec => []AtMostOneEnabled
<1>1. Init => AtMostOneEnabled
  <2>1. Init => Len(profiles) = 0
    BY EmptySeq DEF Init
  <2>. QED  BY <2>1 DEF AtMostOneEnabled
<1>2. TypeOK /\ AtMostOneEnabled /\ [Next]_vars => AtMostOneEnabled'
  BY NextListStep, OneEnabledStep
<1>. QED  BY <1>1, <1>2, TypeCorrect, PTL DEF Spec

-----------------------------------------------------------------------------
(* Session secrets. *)

\* Every request takes a KeysStep: most leave the three secrets alone, a
\* connection clears them, BF21 and BF23 are the two that replace one of them.
LEMMA KeysNext == [Next]_vars => KeysStep
<1>. SUFFICES ASSUME [Next]_vars PROVE KeysStep
  OBVIOUS
<1>1. ASSUME UNCHANGED secretVars
      PROVE  KeysStep
  BY <1>1 DEF KeysStep, KeysCurrent, secretVars
<1>2. ASSUME session_keys' = None
      PROVE  KeysStep
  BY <1>2 DEF KeysStep
<1>3. CASE UNCHANGED vars
  BY <1>1, <1>3 DEF vars, stateVars
<1>4. CASE Connections
  BY <1>1, <1>2, <1>4 DEF Connections, Accept, Drop, Restart, Connect, Disconnect,
       Refuse, LogicChannelOpen, LogicChannelClose, euicc_state_init,
       euicc_state_reset, Cleared, stateVars
<1>5. ASSUME NEW t, NEW k \in OneTimeKeys, PrepareDownload(t, k)
      PROVE  KeysStep
  <2>1. session_keys' = session_keys
    BY <1>5 DEF PrepareDownload
  <2>2. rsp'.tag = "BF21" \/ rsp' = Failed
    <3>1. rsp' = Failed \/ rsp' = Reply("BF21", 0, transaction_id', None, None, k)
      BY <1>5 DEF PrepareDownload
    <3>. QED  BY <3>1 DEF Reply
  <2>. QED  BY <2>1, <2>2 DEF KeysStep
<1>6. ASSUME NEW t, NEW d, NEW onCurve, InitialiseSecureChannel(t, d, onCurve)
      PROVE  KeysStep
  <2>1. CASE t = transaction_id /\ d # None /\ otk # None /\ onCurve
    <3>1. session_keys' = <<otk, d>> /\ smdp_otpk' = d /\ otk' = otk
      BY <1>6, <2>1 DEF InitialiseSecureChannel
    <3>. QED  BY <3>1 DEF KeysStep, KeysCurrent
  <2>2. CASE ~(t = transaction_id /\ d # None /\ otk # None /\ onCurve)
    <3>1. session_keys' = session_keys /\ rsp' = Failed
      BY <1>6, <2>2 DEF InitialiseSecureChannel
    <3>. QED  BY <3>1 DEF KeysStep
  <2>. QED  BY <2>1, <2>2
<1>7. CASE Download
  BY <1>1, <1>5, <1>6, <1>7 DEF Download, UnsupportedCommand, GetEuiccChallenge,
       AuthenticateServer, CancelSession, LoadSegment, Install, stateVars
<1>8. CASE Management
  BY <1>1, <1>8 DEF Management, Query, NotFound, EnableProfile, DisableProfile,
       DeleteProfile, Manage, stateVars
<1>. QED  BY <1>3, <1>4, <1>7, <1>8 DEF Next

\* KeysFollow holds of every behaviour, for any keys and any order of requests,
\* connections and restarts: session keys come from the pair and the point held,
\* and fall behind only where BF21 or an error says so.
THEOREM KeysFollowTheirPairs == Spec => KeysFollow
BY KeysNext, PTL DEF Spec, KeysFollow

-----------------------------------------------------------------------------
(* The registry. *)

\* The enabled profile is at EnabledIndex, which is 0 when there is none.
LEMMA EnabledIndexValue ==
    ASSUME AtMostOneEnabled
    PROVE  /\ \A i \in 1 .. Len(profiles) : profiles[i].enabled => EnabledIndex = i
           /\ (\A i \in 1 .. Len(profiles) : ~profiles[i].enabled) => EnabledIndex = 0
<1>1. ASSUME NEW i \in 1 .. Len(profiles), profiles[i].enabled
      PROVE  EnabledIndex = i
  <2>. DEFINE c == CHOOSE j \in 1 .. Len(profiles) : profiles[j].enabled
  <2>1. c \in 1 .. Len(profiles) /\ profiles[c].enabled
    BY <1>1
  <2>2. EnabledIndex = c
    BY <1>1 DEF EnabledIndex
  <2>. HIDE DEF c
  <2>. QED  BY <1>1, <2>1, <2>2 DEF AtMostOneEnabled
<1>2. ASSUME \A i \in 1 .. Len(profiles) : ~profiles[i].enabled
      PROVE  EnabledIndex = 0
  BY <1>2 DEF EnabledIndex
<1>. QED  BY <1>1, <1>2

\* The same of the state after a step.
LEMMA EnabledIndexNext ==
    ASSUME AtMostOneEnabled'
    PROVE  /\ \A i \in 1 .. Len(profiles') : profiles'[i].enabled => EnabledIndex' = i
           /\ (\A i \in 1 .. Len(profiles') : ~profiles'[i].enabled) => EnabledIndex' = 0
<1>1. ASSUME NEW i \in 1 .. Len(profiles'), profiles'[i].enabled
      PROVE  EnabledIndex' = i
  <2>. DEFINE c == CHOOSE j \in 1 .. Len(profiles') : profiles'[j].enabled
  <2>1. c \in 1 .. Len(profiles') /\ profiles'[c].enabled
    BY <1>1
  <2>2. EnabledIndex' = c
    BY <1>1 DEF EnabledIndex
  <2>. HIDE DEF c
  <2>. QED  BY <1>1, <2>1, <2>2 DEF AtMostOneEnabled
<1>2. ASSUME \A i \in 1 .. Len(profiles') : ~profiles'[i].enabled
      PROVE  EnabledIndex' = 0
  BY <1>2 DEF EnabledIndex
<1>. QED  BY <1>1, <1>2

\* What Listed keeps of a profile.
LEMMA ListedFields ==
    ASSUME NEW p \in Profile
    PROVE  <<p.name, p.data>> \in Orn(Mids) \X Seq(Chunk)
BY DEF Profile

\* Listed is a list as long as the list of profiles, before and after a step.
LEMMA ListedType ==
    ASSUME profiles \in Seq(Profile), profiles' \in Seq(Profile)
    PROVE  /\ Len(profiles) \in Nat /\ Len(profiles') \in Nat
           /\ DOMAIN Listed = 1 .. Len(profiles) /\ Len(Listed) = Len(profiles)
           /\ DOMAIN Listed' = 1 .. Len(profiles') /\ Len(Listed') = Len(profiles')
           /\ Listed \in Seq(Orn(Mids) \X Seq(Chunk))
           /\ Listed' \in Seq(Orn(Mids) \X Seq(Chunk))
<1>1. \A i \in 1 .. Len(profiles) :
         <<profiles[i].name, profiles[i].data>> \in Orn(Mids) \X Seq(Chunk)
  BY ElementOfSeq, ListedFields
<1>2. \A i \in 1 .. Len(profiles') :
         <<profiles'[i].name, profiles'[i].data>> \in Orn(Mids) \X Seq(Chunk)
  BY ElementOfSeq, ListedFields
<1>3. Len(profiles) \in Nat /\ Len(profiles') \in Nat
  BY LenProperties
<1>4. Listed \in [1 .. Len(profiles) -> Orn(Mids) \X Seq(Chunk)]
  BY <1>1 DEF Listed
<1>5. Listed' \in [1 .. Len(profiles') -> Orn(Mids) \X Seq(Chunk)]
  BY <1>2 DEF Listed
<1>. QED  BY <1>3, <1>4, <1>5, FunctionIsSeq

\* Every step of the card is a step of the registry, or leaves it as it is.
LEMMA RegistryStep ==
    ASSUME TypeOK, TypeOK', AtMostOneEnabled, AtMostOneEnabled', ListStep
    PROVE  [Registry!Next]_<<Listed, EnabledIndex>>
<1>0. /\ profiles \in Seq(Profile) /\ profiles' \in Seq(Profile)
      /\ Len(profiles) \in Nat /\ Len(profiles') \in Nat
  BY LenProperties DEF TypeOK
<1>1. CASE UNCHANGED profiles
  BY <1>1 DEF Listed, EnabledIndex
<1>2. CASE profiles' = <<>>
  <2>1. Len(profiles') = 0
    BY <1>2, EmptySeq
  <2>2. EnabledIndex' = 0
    BY <2>1, EnabledIndexNext
  <2>3. Len(Listed') = 0 /\ Listed' \in Seq(Orn(Mids) \X Seq(Chunk))
    BY <1>0, <2>1, ListedType
  <2>4. Listed' = <<>>
    BY <2>3, EmptySeq
  <2>. QED  BY <2>2, <2>4 DEF Registry!Next, Registry!Clear
<1>3. ASSUME NEW data \in Seq(Chunk), profiles' = <<NewProfile(data)>> \o profiles
      PROVE  Registry!Add
  <2>. DEFINE p == NewProfile(data)
  <2>1. p \in Profile /\ p.enabled = FALSE
    BY NewProfileType
  <2>. HIDE DEF p
  <2>2. /\ Len(profiles') = Len(profiles) + 1
        /\ profiles'[1] = p
        /\ \A j \in 1 .. Len(profiles) : profiles'[j + 1] = profiles[j]
    BY <1>0, <1>3, <2>1, ConsProperties DEF p
  <2>3. Listed' # <<>>
    BY <1>0, <2>2, ListedType, EmptySeq
  <2>4. Tail(Listed') = Listed
    <3>1. /\ Tail(Listed') \in Seq(Orn(Mids) \X Seq(Chunk))
          /\ Len(Tail(Listed')) = Len(profiles)
          /\ \A j \in 1 .. Len(profiles) : Tail(Listed')[j] = Listed'[j + 1]
      BY <1>0, <2>2, <2>3, ListedType, HeadTailProperties
    <3>2. \A j \in 1 .. Len(profiles) : Listed'[j + 1] = Listed[j]
      BY <1>0, <2>2 DEF Listed
    <3>3. Listed \in Seq(Orn(Mids) \X Seq(Chunk)) /\ Len(Listed) = Len(profiles)
      BY <1>0, ListedType
    <3>4. \A j \in 1 .. Len(Tail(Listed')) : Tail(Listed')[j] = Listed[j]
      BY <3>1, <3>2
    <3>5. Len(Tail(Listed')) = Len(Listed)
      BY <3>1, <3>3
    <3>. DEFINE u == Tail(Listed')
    <3>6. u \in Seq(Orn(Mids) \X Seq(Chunk)) /\ Len(u) = Len(Listed)
          /\ \A j \in 1 .. Len(u) : u[j] = Listed[j]
      BY <3>1, <3>4, <3>5
    <3>. HIDE DEF u
    <3>7. u = Listed
      BY <3>3, <3>6, SeqEqual
    <3>. QED  BY <3>7 DEF u
  <2>5. CASE \A j \in 1 .. Len(profiles) : ~profiles[j].enabled
    <3>1. \A j \in 1 .. Len(profiles') : ~profiles'[j].enabled
      <4>. SUFFICES ASSUME NEW j \in 1 .. Len(profiles'), j # 1
                    PROVE  ~profiles'[j].enabled
        BY <2>1, <2>2
      <4>1. j - 1 \in 1 .. Len(profiles) /\ j = (j - 1) + 1
        BY <1>0, <2>2
      <4>. QED  BY <2>2, <2>5, <4>1
    <3>2. EnabledIndex = 0 /\ EnabledIndex' = 0
      BY <2>5, <3>1, EnabledIndexValue, EnabledIndexNext
    <3>. QED  BY <2>3, <2>4, <3>2 DEF Registry!Add
  <2>6. ASSUME NEW j \in 1 .. Len(profiles), profiles[j].enabled
        PROVE  Registry!Add
    <3>1. j + 1 \in 1 .. Len(profiles') /\ profiles'[j + 1].enabled
      BY <1>0, <2>2, <2>6
    <3>2. EnabledIndex = j /\ EnabledIndex' = j + 1
      BY <2>6, <3>1, EnabledIndexValue, EnabledIndexNext
    <3>. QED  BY <2>3, <2>4, <3>2 DEF Registry!Add
  <2>. QED  BY <2>5, <2>6
<1>4. ASSUME NEW i \in 1 .. Len(profiles),
             profiles' = [j \in DOMAIN profiles |-> WithState(profiles[j], j = i)]
      PROVE  Registry!Activate(i)
  <2>1. /\ Len(profiles') = Len(profiles)
        /\ \A j \in 1 .. Len(profiles) : profiles'[j] = WithState(profiles[j], j = i)
    BY <1>0, <1>4, EnabledList
  <2>2. ASSUME NEW j \in 1 .. Len(profiles), NEW b \in BOOLEAN, b = (j = i)
        PROVE  /\ profiles'[j].enabled = b
               /\ profiles'[j].name = profiles[j].name
               /\ profiles'[j].data = profiles[j].data
    <3>1. profiles[j] \in Profile /\ profiles'[j] = WithState(profiles[j], b)
      BY <1>0, <2>1, <2>2, ElementOfSeq
    <3>. QED  BY <3>1, WithStateType
  <2>3. profiles'[i].enabled
    BY <2>2
  <2>4. EnabledIndex' = i
    BY <2>1, <2>3, EnabledIndexNext
  <2>5. Listed' = Listed
    BY <2>1, <2>2 DEF Listed
  <2>. QED  BY <2>4, <2>5 DEF Registry!Activate
<1>5. ASSUME NEW i \in 1 .. Len(profiles), profiles[i].enabled,
             profiles' = [profiles EXCEPT ![i] = WithState(profiles[i], FALSE)]
      PROVE  Registry!Deactivate
  <2>1. /\ Len(profiles') = Len(profiles)
        /\ \A j \in 1 .. Len(profiles) :
              profiles'[j] = IF j = i THEN WithState(profiles[i], FALSE) ELSE profiles[j]
    BY <1>0, <1>5, DisabledList
  <2>2. /\ WithState(profiles[i], FALSE).enabled = FALSE
        /\ WithState(profiles[i], FALSE).name = profiles[i].name
        /\ WithState(profiles[i], FALSE).data = profiles[i].data
    BY <1>0, ElementOfSeq, WithStateType
  <2>3. \A j \in 1 .. Len(profiles') : ~profiles'[j].enabled
    <3>. SUFFICES ASSUME NEW j \in 1 .. Len(profiles) PROVE ~profiles'[j].enabled
      BY <2>1
    <3>1. CASE j = i
      BY <2>1, <2>2, <3>1
    <3>2. CASE j # i
      <4>1. profiles'[j] = profiles[j]
        BY <2>1, <3>2
      <4>2. ~profiles[j].enabled
        BY <1>5, <3>2 DEF AtMostOneEnabled
      <4>. QED  BY <4>1, <4>2
    <3>. QED  BY <3>1, <3>2
  <2>4. EnabledIndex' = 0
    BY <2>3, EnabledIndexNext
  <2>5. Listed' = Listed
    BY <2>1, <2>2 DEF Listed
  <2>. QED  BY <2>4, <2>5 DEF Registry!Deactivate
<1>6. ASSUME NEW i \in 1 .. Len(profiles), ~profiles[i].enabled, profiles' = Unlink(i)
      PROVE  Registry!Remove(i)
  <2>1. /\ Len(profiles') = Len(profiles) - 1
        /\ \A j \in 1 .. Len(profiles') :
              profiles'[j] = IF j < i THEN profiles[j] ELSE profiles[j + 1]
    BY <1>0, <1>6, UnlinkType
  <2>2. Listed' = [j \in 1 .. Len(Listed) - 1 |-> IF j < i THEN Listed[j] ELSE Listed[j + 1]]
    <3>1. Len(Listed) = Len(profiles)
      BY <1>0, ListedType
    <3>. QED  BY <1>0, <2>1, <3>1 DEF Listed
  <2>3. CASE \A j \in 1 .. Len(profiles) : ~profiles[j].enabled
    <3>1. EnabledIndex = 0
      BY <2>3, EnabledIndexValue
    <3>2. EnabledIndex' = 0
      BY <1>0, <2>1, <2>3, EnabledIndexNext
    <3>. QED  BY <1>0, <2>2, <3>1, <3>2 DEF Registry!Remove
  <2>4. ASSUME NEW j \in 1 .. Len(profiles), profiles[j].enabled
        PROVE  Registry!Remove(i)
    <3>1. EnabledIndex = j /\ j # i
      BY <1>6, <2>4, EnabledIndexValue
    <3>2. CASE j < i
      <4>1. j \in 1 .. Len(profiles') /\ profiles'[j].enabled
        BY <1>0, <2>1, <2>4, <3>2
      <4>2. EnabledIndex' = j
        BY <4>1, EnabledIndexNext
      <4>. QED  BY <1>0, <2>2, <3>1, <3>2, <4>2 DEF Registry!Remove
    <3>3. CASE i < j
      <4>1. j - 1 \in 1 .. Len(profiles') /\ profiles'[j - 1].enabled
        BY <1>0, <2>1, <2>4, <3>3
      <4>2. EnabledIndex' = j - 1
        BY <4>1, EnabledIndexNext
      <4>. QED  BY <1>0, <2>2, <3>1, <3>3, <4>2 DEF Registry!Remove
    <3>. QED  BY <1>0, <3>1, <3>2, <3>3
  <2>. QED  BY <2>3, <2>4
<1>7. Len(Listed) = Len(profiles)
  BY <1>0, ListedType
<1>. QED  BY <1>1, <1>2, <1>3, <1>4, <1>5, <1>6, <1>7 DEF ListStep, Registry!Next

\* The card's linked list and per-profile states implement the registry.
THEOREM CardImplementsRegistry == Spec => ImplementsRegistry
<1>1. Init => Registry!Init
  <2>. SUFFICES ASSUME Init PROVE Registry!Init
    OBVIOUS
  <2>1. Len(profiles) = 0
    BY EmptySeq DEF Init
  <2>2. EnabledIndex = 0
    BY <2>1 DEF EnabledIndex
  <2>3. Listed = <<>>
    BY <2>1 DEF Listed
  <2>. QED  BY <2>2, <2>3 DEF Registry!Init
<1>2. TypeOK /\ TypeOK' /\ AtMostOneEnabled /\ AtMostOneEnabled' /\ [Next]_vars
      => [Registry!Next]_<<Listed, EnabledIndex>>
  BY NextListStep, RegistryStep
<1>. QED
  BY <1>1, <1>2, TypeCorrect, OneEnabled, PTL
     DEF Spec, ImplementsRegistry, Registry!Spec

=============================================================================
