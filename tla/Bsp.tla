-------------------------------- MODULE Bsp --------------------------------
(***************************************************************************)
(* The bound profile package: pySim/esim/bsp.py protects data segment by   *)
(* segment, pySim/esim/es8p.py puts the package together (the SM-DP+) and  *)
(* takes it apart (the client that plays the eUICC).  Both ends keep a     *)
(* block counter, which makes the initial vector, and a MAC chaining       *)
(* value; the package is readable only if the two ends advance them        *)
(* alike.  Cryptography is free: a MAC is what it was computed over, a     *)
(* cipher text is its key, its counter and its clear text.  Between the    *)
(* ends a segment may be lost, doubled or moved.                           *)
(***************************************************************************)
EXTENDS Integers, Sequences, SequencesExt

CONSTANTS
    Block,        \* blocksize; 16 in the code
    MaxSegment,   \* MAX_SEGMENT_SIZE; 1020 in the code
    Overhead,     \* tag, length and MAC; 12 in the code
    MaxProfile    \* bound: octets of a profile

VARIABLES
    upp,      \* the DER of the profile
    keys,     \* "session" for keys of the key agreement, "ppk" for a PPP made before
    ppp,      \* segments of a protected profile package, and its keys
    bsp,      \* the SM-DP+'s BspInstance
    pkg,      \* the package: a sequence of tagged sequences
    state,    \* of the package: building, sent, decoding, done, error
    faulty,   \* the package was damaged on its way
    peer,     \* the other end's BspInstance
    got       \* what the other end has decoded of the current sequence

vars == <<upp, keys, ppp, bsp, pkg, state, faulty, peer, got>>

\* 128 marks the end of the data in a padded block, 0 fills it up: an octet is
\* one of these or neither.
Octets == {0, 1, 128}
Profiles == UNION {[1..n -> Octets] : n \in 1..MaxProfile}

MaxPayload == MaxSegment - Overhead

-----------------------------------------------------------------------------
(* bsp.py *)

\* BspInstance(s_enc, s_mac, initial_mcv): the counter starts at 1.
New(s, chain) == [s |-> s, nr |-> 1, chain |-> chain]

\* bsp_key_derivation: the same secret, host id and EID give the same keys.
FromKdf == New("session", <<>>)

Zeros(n) == [i \in 1..n |-> 0]

\* _get_padding, _pad_to_multiple: 80, then zeros up to a full block.
Pad(d) == d \o <<128>> \o Zeros((Block - ((Len(d) + 1) % Block)) % Block)

\* _unpad: the zeros at the end, then one 80, which must be there.
Unpad(p) ==
    LET i == SelectLastInSeq(p, LAMBDA x : x # 0)
    IN  IF i = 0 \/ p[i] # 128 THEN [ok |-> FALSE, val |-> p]
        ELSE [ok |-> TRUE, val |-> SubSeq(p, 1, i - 1)]

Clear(d) == [key |-> "none", nr |-> 0, text |-> d]

\* encrypt: the initial vector comes from the counter, which _get_icv advances.
Encrypt(b, d) == [key |-> b.s, nr |-> b.nr, text |-> Pad(d)]

\* What the wrong initial vector leaves of the text: its first block is garbled.
Garble(p) == [i \in DOMAIN p |-> IF i <= Block THEN 1 ELSE p[i]]

\* decrypt; with another key nothing is left of the text.
Decrypt(b, c) ==
    IF c.key # b.s THEN [ok |-> FALSE, val |-> <<>>]
    ELSE Unpad(IF c.nr = b.nr THEN c.text ELSE Garble(c.text))

\* _auth: the MAC over the chaining value and the data, which is the next
\* chaining value.
Auth(b, tag, val) == Append(b.chain, [key |-> b.s, tag |-> tag, len |-> Len(val.text), val |-> val])

\* The instance after a segment: every one counts, and its MAC is the next
\* chaining value.
Advance(b, mac) == [s |-> b.s, nr |-> b.nr + 1, chain |-> mac]

Segment(tag, val, mac) == [tag |-> tag, val |-> val, mac |-> mac]

\* Mutant of MacOnlyOne: the counter is for encrypted segments only.
MacOnlyOneUncounted(b, tag, d) ==
    LET mac == Auth(b, tag, Clear(d))
    IN  [out |-> Segment(tag, Clear(d), mac), bsp |-> [b EXCEPT !.chain = mac]]

\* mac_only_one: the counter advances here too.
MacOnlyOne(b, tag, d) ==
    LET mac == Auth(b, tag, Clear(d))
    IN  [out |-> Segment(tag, Clear(d), mac), bsp |-> Advance(b, mac)]

EncryptAndMacOne(b, tag, d) ==
    LET c == Encrypt(b, d)
        mac == Auth(b, tag, c)
    IN  [out |-> Segment(tag, c, mac), bsp |-> Advance(b, mac)]

Cuts(n) == (n + MaxPayload - 1) \div MaxPayload

\* The i-th piece the loops of encrypt_and_mac and mac_only take of the data.
Piece(d, i) ==
    SubSeq(d, (i - 1) * MaxPayload + 1, IF i * MaxPayload < Len(d) THEN i * MaxPayload ELSE Len(d))

\* The i-th segment, and the instance after it.
ProtectOne(b, tag, d, i) ==
    IF tag = 88 THEN MacOnlyOne(b, tag, Piece(d, i)) ELSE EncryptAndMacOne(b, tag, Piece(d, i))

\* encrypt_and_mac, mac_only: every piece in turn; no data gives no segment.
Protect(b, tag, d) ==
    LET More(acc, r) == [out |-> Append(acc.out, r.out), bsp |-> r.bsp]
        sealed[i \in 0..Cuts(Len(d))] ==
          IF i = 0 THEN [out |-> <<>>, bsp |-> b]
          ELSE More(sealed[i - 1], ProtectOne(sealed[i - 1].bsp, tag, d, i))
    IN  sealed[Cuts(Len(d))]

\* Mutant of Verify: the chaining value is not part of what is compared.
VerifyAlone(b, seg) == Last(Auth(b, seg.tag, seg.val)) = Last(seg.mac)

\* verify: the MAC of the segment is the one computed here.
Verify(b, seg) == Auth(b, seg.tag, seg.val) = seg.mac

\* demac_and_decrypt_one, demac_only_one; the chain moves on before the MACs are
\* compared.
Open(b, seg, enc) ==
    LET d == IF enc THEN Decrypt(b, seg.val) ELSE [ok |-> TRUE, val |-> seg.val.text]
    IN  [ok |-> Verify(b, seg) /\ d.ok, val |-> d.val,
         bsp |-> Advance(b, Auth(b, seg.tag, seg.val))]

-----------------------------------------------------------------------------
(* es8p.py: the SM-DP+ *)

\* ConfigureISDPRequest, StoreMetadataRequest and ReplaceSessionKeysRequest,
\* each longer than a segment or not.
Conf == <<1>>
Metadata == [i \in 1..MaxPayload + 1 |-> 1]
Rsk == <<1, 128>>

\* The tag of the members of a sequence of the package.
Member(tag) == CASE tag = 161 -> 88 [] tag = 163 -> 86 [] OTHER -> 87

Init ==
    /\ upp \in Profiles
    /\ keys \in {"session", "ppk"}
    /\ ppp = [out |-> <<>>, chain |-> <<>>]
    /\ bsp = FromKdf
    /\ pkg = <<>> /\ state = "start" /\ faulty = FALSE
    /\ peer = FromKdf /\ got = <<>>

\* ProtectedProfilePackage.from_upp with keys of its own.
FromUpp ==
    /\ state = "start" /\ keys = "ppk"
    /\ LET p == Protect(New("ppk", <<>>), 86, upp)
       IN  ppp' = [out |-> p.out, chain |-> <<>>]
    /\ state' = "building"
    /\ UNCHANGED <<upp, keys, bsp, pkg, faulty, peer, got>>

\* BoundProfilePackage.from_upp: nothing is protected yet.
FromNoPpp ==
    /\ state = "start" /\ keys = "session"
    /\ state' = "building"
    /\ UNCHANGED <<upp, keys, ppp, bsp, pkg, faulty, peer, got>>

\* encode_seq of what encrypt_and_mac or mac_only gives.
Add(tag, d) ==
    LET p == Protect(bsp, Member(tag), d)
    IN  /\ pkg' = Append(pkg, [tag |-> tag, segs |-> p.out])
        /\ bsp' = p.bsp

\* encode, in its order.
Encode ==
    /\ state = "building"
    /\ CASE Len(pkg) = 0 -> Add(160, Conf) /\ UNCHANGED <<ppp, state>>
         [] Len(pkg) = 1 -> Add(161, Metadata) /\ UNCHANGED <<ppp, state>>
         [] Len(pkg) = 2 /\ keys = "ppk" -> Add(162, Rsk) /\ UNCHANGED <<ppp, state>>
         [] Len(pkg) = 2 /\ keys = "session" ->
               /\ Add(163, upp)
               /\ ppp' = [out |-> Protect(bsp, 86, upp).out, chain |-> bsp.chain]
               /\ state' = "sent"
         [] Len(pkg) = 3 ->
               /\ pkg' = Append(pkg, [tag |-> 163, segs |-> ppp.out])
               /\ state' = "sent"
               /\ UNCHANGED <<bsp, ppp>>
    /\ UNCHANGED <<upp, keys, faulty, peer, got>>

-----------------------------------------------------------------------------
\* A segment is lost, doubled or changes places with another of its sequence; a
\* sequence is lost.
Damage ==
    /\ state = "sent" /\ ~faulty
    /\ faulty' = TRUE
    /\ \/ \E q \in DOMAIN pkg : pkg' = RemoveAt(pkg, q)
       \/ \E q \in DOMAIN pkg : \E i, j \in DOMAIN pkg[q].segs :
             LET segs == pkg[q].segs
             IN  pkg' = [pkg EXCEPT ![q].segs =
                            IF i = j THEN RemoveAt(segs, i)
                            ELSE IF i < j THEN [segs EXCEPT ![i] = segs[j], ![j] = segs[i]]
                            ELSE InsertAt(segs, i, segs[j])]
    /\ UNCHANGED <<upp, keys, ppp, bsp, state, peer, got>>

-----------------------------------------------------------------------------
(* es8p.py: the eUICC.  The sequence under BF36 is taken out by the client. *)

Tags == [q \in DOMAIN pkg |-> pkg[q].tag]

\* decode takes the package apart first, and refuses any other order.
Split ==
    /\ state = "sent"
    /\ state' = IF Tags \in {<<160, 161, 163>>, <<160, 161, 162, 163>>} THEN "decoding" ELSE "error"
    /\ UNCHANGED <<upp, keys, ppp, bsp, pkg, faulty, peer, got>>

\* One segment of the sequence that is next.
DecodeSegment ==
    /\ state = "decoding" /\ pkg # <<>> /\ Head(pkg).segs # <<>>
    /\ LET q == Head(pkg)
           d == Open(peer, Head(q.segs), q.tag # 161)
       IN  /\ state' = IF d.ok THEN state ELSE "error"
           /\ peer' = d.bsp
           /\ got' = got \o d.val
           /\ pkg' = [pkg EXCEPT ![1].segs = Tail(@)]
    /\ UNCHANGED <<upp, keys, ppp, bsp, faulty>>

\* What a sequence has to decode to, for its ASN.1 to be read.
Request(tag) == CASE tag = 160 -> Conf [] tag = 161 -> Metadata [] tag = 162 -> Rsk

\* BspInstance of the replaced keys.
Replaced == New("ppk", <<>>)

\* A whole sequence is decoded: its request is read, the keys are replaced.
DecodeSequence ==
    /\ state = "decoding" /\ pkg # <<>> /\ Head(pkg).segs = <<>>
    /\ LET tag == Head(pkg).tag
       IN  /\ pkg' = Tail(pkg)
           /\ IF tag = 163
              THEN state' = "done" /\ UNCHANGED <<peer, got>>
              ELSE /\ state' = IF got = Request(tag) THEN "decoding" ELSE "error"
                   /\ peer' = IF tag = 162 THEN Replaced ELSE peer
                   /\ got' = <<>>
    /\ UNCHANGED <<upp, keys, ppp, bsp, faulty>>

Next == FromUpp \/ FromNoPpp \/ Encode \/ Damage \/ Split \/ DecodeSegment \/ DecodeSequence

Spec == Init /\ [][Next]_vars

-----------------------------------------------------------------------------
(* Properties. *)

\* What the SM-DP+ binds, the other end reads: counter and chaining value advance
\* alike through encrypted and MAC-only segments and a change of keys
\* (mac_only_one, demac_only_one, decode).
RoundTrip == ~faulty => state # "error" /\ (state = "done" => got = upp)

\* A package that lost, doubled or moved segments is refused or gives a beginning
\* of the profile, never anything else (verify, decode).
OnlyBeginnings == state = "done" => IsPrefix(got, upp)

\* What the head of bsp.py says: "segments of a maximum size of 1020 bytes
\* (including the tag, length field and MAC)".
SegmentBound ==
    \A q \in DOMAIN pkg : \A i \in DOMAIN pkg[q].segs :
        Len(pkg[q].segs[i].val.text) + Overhead <= MaxSegment

=============================================================================
