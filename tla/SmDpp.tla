-------------------------------- MODULE SmDpp --------------------------------
(***************************************************************************)
(* The SM-DP+ of pysim/osmo-smdpp.py: the session store `rss`, the         *)
(* download history with its JSON file, and the directory of unprotected   *)
(* profile packages.  The handlers run in one Twisted reactor thread and   *)
(* never yield, so each request is one step; what is nondeterministic is   *)
(* which LPA sends what and when, what the MNO does to the packages in     *)
(* between, and where the process dies.                                    *)
(*                                                                         *)
(* The random serverChallenge of a session is represented by the session's *)
(* transaction id, which is as fresh.  A signature is the record of what   *)
(* it signs and of who signed; smdpSignature2 is randomised, so every one  *)
(* is a new member of Sigs.                                                *)
(***************************************************************************)
EXTENDS Integers, Sequences

CONSTANTS
    Tids,        \* transaction ids, upper-case hexadecimal
    AllDigit,    \* those that contain no letter A-F
    Euiccs,      \* certified eUICCs (an EID and its certificate)
    Mids,        \* matching ids: the names of package files
    Iccids,      \* contents of a package file, told apart by their ICCID
    Garbage,     \* contents that saip does not parse
    Sigs,        \* values of smdpSignature2
    Otpks,       \* otPK.EUICC.ECKA values
    DpKeys,      \* otPK.DP.ECKA values
    Corrupt,     \* a history file that json.load rejects
    InMemory,    \* the -m option: sessions are not kept in a file
    MaxRecords,  \* bound: records in the history
    None

ASSUME SmDppAssumption ==
    /\ AllDigit \subseteq Tids
    /\ None \notin Tids \cup Euiccs \cup Mids \cup Iccids \cup Sigs \cup Otpks
                   \cup DpKeys \cup {Garbage}
    /\ Garbage \notin Iccids
    /\ InMemory \in BOOLEAN
    /\ MaxRecords \in Nat

VARIABLES
    issued,      \* transaction ids given out so far
    sigUsed,     \* smdpSignature2 values made so far
    dpkUsed,     \* one-time keys made so far
    rss,         \* the session store
    history,     \* download_history.history
    disk,        \* download_history.json
    upp,         \* the .der files of upp_dir
    cut,         \* the file was cut short at some time (for the properties)
    http         \* the last answer

vars == <<issued, sigUsed, dpkUsed, rss, history, disk, upp, cut, http>>
fresh == <<issued, sigUsed, dpkUsed>>

-----------------------------------------------------------------------------
(* Data. *)

Opt(S) == S \cup {None}

\* euiccSigned1 and euiccSigned2 (with the smdpSignature2 signed with it) as
\* an eUICC signs them for whoever asks; None is a missing matching id.
Signed1 == [euicc : Euiccs, challenge : Tids, mid : Opt(Mids)]
Signed2 == [euicc : Euiccs, tid : Tids, sig2 : Sigs, otpk : Otpks]

\* RspSessionState.  `by` is the euiccSigned1 that was accepted last; it is
\* not a field of the class and no guard reads it.
Session == [euicc_cert : Opt(Euiccs), matchingId : Opt(Mids),
            profileMetadata : Opt(Iccids), smdpSignature2 : Opt(Sigs),
            euicc_otpk : Opt(Otpks), smdp_otpk : Opt(DpKeys),
            by : Opt(Signed1)]

\* A record of the history.  final_result is None, a text, or the (name, dict)
\* tuple of a decoded CHOICE, which holds bytes.  `by` and `prep` are what the
\* eUICC had signed.
Record == [tid : Tids, eid : Euiccs, iccid : Iccids, mid : Mids,
           status : {"bpp_sent", "failed", "success"},
           final_result : {"none", "text", "tuple"},
           by : Signed1, prep : Signed2]

\* The mark of a broken file is not a list of records.
ASSUME CorruptAssumption == Corrupt \notin Seq(Record)

Http == [op : {"start", "initiate", "authenticate", "getBPP", "notification",
               "cancel", "mno"},
         outcome : {"ok", "refused", "error"},   \* refused: ApiError; error: 500
         tid : Opt(Tids), result : {"none", "success", "failure"}]

Reply(op, outcome, tid) ==
    [op |-> op, outcome |-> outcome, tid |-> tid, result |-> "none"]

TypeOK ==
    /\ issued \subseteq Tids
    /\ sigUsed \subseteq Sigs
    /\ dpkUsed \subseteq DpKeys
    /\ rss \in [Tids -> Opt(Session)]
    /\ history \in Seq(Record)
    /\ disk \in Seq(Record) \cup {Corrupt}
    /\ upp \in [Mids -> Opt(Iccids \cup {Garbage})]
    /\ cut \in BOOLEAN
    /\ http \in Http

-----------------------------------------------------------------------------
(* The stores. *)

NewSession == [euicc_cert |-> None, matchingId |-> None, profileMetadata |-> None,
               smdpSignature2 |-> None, euicc_otpk |-> None, smdp_otpk |-> None,
               by |-> None]

\* _save: json.dump stops at bytes, after the file was opened for writing.
Saved(h) == IF \E i \in 1 .. Len(h) : h[i].final_result = "tuple" THEN Corrupt ELSE h

\* _load: what cannot be read is an empty history.
Loaded(file) == IF file = Corrupt THEN <<>> ELSE file

\* Mutant of record_download: the file is not written.
RecordUnsaved(r) ==
    /\ history' = Append(history, r)
    /\ UNCHANGED disk

\* record_download
record_download(r) ==
    /\ history' = Append(history, r)
    /\ disk' = Saved(history')

\* r with what handleNotification found.
Finished(r, status, final) == [r EXCEPT !.status = status, !.final_result = final]

\* update_download: the first record of the transaction, if there is one.
update_download(t, status, final) ==
    LET of == {i \in 1 .. Len(history) : history[i].tid = t}
    IN  IF of = {}
        THEN UNCHANGED <<history, disk>>
        ELSE /\ history' = [i \in DOMAIN history |->
                               IF i \in of /\ \A j \in of : i <= j
                               THEN Finished(history[i], status, final)
                               ELSE history[i]]
             /\ disk' = Saved(history')

Init ==
    /\ issued = {} /\ sigUsed = {} /\ dpkUsed = {}
    /\ rss = [t \in Tids |-> None]
    /\ history = <<>> /\ disk = <<>> /\ cut = FALSE
    /\ upp \in [Mids -> Opt(Iccids)]
    /\ http = Reply("start", "ok", None)

-----------------------------------------------------------------------------
(* ES9+. *)

\* A request that is refused for its contents alone, before any state is read:
\* another address, an unsupported CI key, a malformed or an error response.
Reject(op, outcome) ==
    /\ http' = Reply(op, outcome, None)
    /\ UNCHANGED <<fresh, rss, history, disk, upp, cut>>

initiateAutentication(t) ==
    /\ t \notin issued
    /\ issued' = issued \cup {t}
    /\ rss' = [rss EXCEPT ![t] = NewSession]
    /\ http' = Reply("initiate", "ok", t)
    /\ UNCHANGED <<sigUsed, dpkUsed, history, disk, upp, cut>>

\* The MNO has published a package under m, and one that saip parses.
Published(m) == m # None /\ upp[m] # None
Readable(m) == Published(m) /\ upp[m] # Garbage

\* Mutant of Authentic: the serverChallenge is not compared.
AuthenticWithoutChallenge(t, a, valid) == rss[t] # None /\ valid /\ Readable(a.mid)

\* What authenticateClient asks of the request: a known session, a valid
\* certificate chain, signature and EID (all in `valid`), the session's
\* challenge, and a package for the matching id.
Authentic(t, a, valid) ==
    rss[t] # None /\ valid /\ a.challenge = t /\ Readable(a.mid)

\* Session s after its eUICC authenticated with a.
Authenticated(s, a, metadata, g) ==
    [s EXCEPT !.euicc_cert = a.euicc, !.matchingId = a.mid,
              !.profileMetadata = metadata, !.smdpSignature2 = g, !.by = a]

\* The session object is a copy out of the shelf: what the handler assigns to it
\* counts only when the last line stores it.
authenticateClient(t, a, valid, g) ==
    /\ Authentic(t, a, valid)
    /\ g \in Sigs \ sigUsed
    /\ sigUsed' = sigUsed \cup {g}
    /\ rss' = [rss EXCEPT ![t] = Authenticated(rss[t], a, upp[a.mid], g)]
    /\ http' = Reply("authenticate", "ok", t)
    /\ UNCHANGED <<issued, dpkUsed, history, disk, upp, cut>>

\* The same request when a check fails; a package that does not parse is an
\* exception, the other failures are API errors.
authenticateClientFails(t, a, valid) ==
    /\ ~Authentic(t, a, valid)
    /\ LET unparsable == /\ rss[t] # None /\ valid /\ a.challenge = t
                         /\ a.mid # None /\ upp[a.mid] = Garbage
       IN  http' = Reply("authenticate", IF unparsable THEN "error" ELSE "refused", t)
    /\ UNCHANGED <<fresh, rss, history, disk, upp, cut>>

\* The signatures getBoundProfilePackage verifies, over the smdpSignature2 of
\* the last authenticateClient, and the transaction id inside.
Prepared(t, p) ==
    /\ rss[t] # None /\ rss[t].euicc_cert # None
    /\ p.euicc = rss[t].euicc_cert
    /\ p.sig2 = rss[t].smdpSignature2
    /\ p.tid = t

BppRecord(t, p) ==
    [tid |-> t, eid |-> rss[t].euicc_cert, iccid |-> rss[t].profileMetadata,
     mid |-> rss[t].matchingId, status |-> "bpp_sent", final_result |-> "none",
     by |-> rss[t].by, prep |-> p]

\* The package is opened again and its octets are bound as they are: only
\* authenticateClient parses it.
Bindable(t, p) ==
    Prepared(t, p) /\ Published(rss[t].matchingId) /\ Len(history) < MaxRecords

\* Session s after a package was bound to the key k of its eUICC.
Bound(s, k, d) == [s EXCEPT !.euicc_otpk = k, !.smdp_otpk = d]

\* The history comes before the session.
getBoundProfilePackage(t, p, d) ==
    /\ Bindable(t, p)
    /\ d \in DpKeys \ dpkUsed
    /\ dpkUsed' = dpkUsed \cup {d}
    /\ record_download(BppRecord(t, p))
    /\ rss' = [rss EXCEPT ![t] = Bound(rss[t], p.otpk, d)]
    /\ http' = Reply("getBPP", "ok", t)
    /\ UNCHANGED <<issued, sigUsed, upp, cut>>

\* An unknown session, signature or id is an API error; a session that was not
\* authenticated, a point off the curve, or a package that is gone, an exception.
getBoundProfilePackageFails(t, p, onCurve) ==
    /\ ~(Prepared(t, p) /\ onCurve /\ Published(rss[t].matchingId))
    /\ LET exception == rss[t] # None /\ (rss[t].euicc_cert = None \/ Prepared(t, p))
       IN  http' = Reply("getBPP", IF exception THEN "error" ELSE "refused", t)
    /\ UNCHANGED <<fresh, rss, history, disk, upp, cut>>

\* Mutant of CrashInGetBpp: the session is stored before the history.
CrashAfterSession(t, p, d) ==
    /\ Bindable(t, p) /\ d \in DpKeys \ dpkUsed
    /\ dpkUsed' = dpkUsed \cup {d}
    /\ rss' = IF InMemory THEN [u \in Tids |-> None]
              ELSE [rss EXCEPT ![t] = Bound(rss[t], p.otpk, d)]
    /\ history' = Loaded(disk)
    /\ http' = Reply("start", "ok", None)
    /\ UNCHANGED <<issued, sigUsed, disk, upp, cut>>

\* The process dies in getBoundProfilePackage: while the history file is
\* written (it is truncated first), or between the history and the session.
CrashInGetBpp(t, p, d) ==
    /\ Bindable(t, p) /\ d \in DpKeys \ dpkUsed
    /\ dpkUsed' = dpkUsed \cup {d}
    /\ disk' \in {Corrupt, Saved(Append(history, BppRecord(t, p)))}
    /\ history' = Loaded(disk')
    /\ cut' = (cut \/ disk' = Corrupt)
    /\ rss' = IF InMemory THEN [u \in Tids |-> None] ELSE rss
    /\ http' = Reply("start", "ok", None)
    /\ UNCHANGED <<issued, sigUsed, upp>>

\* handleNotification looks the session up by b2h of the binary id: lower case.
Lookup(t) == t \in AllDigit /\ rss[t] # None

NotificationReply(t, outcome, result) ==
    [op |-> "notification", outcome |-> outcome, tid |-> t, result |-> result]

\* A profileInstallationResult; whatever the result, the tuple is not the text
\* 'success'.
handleNotification(t, valid, result) ==
    /\ UNCHANGED <<fresh, upp>>
    /\ IF Lookup(t) /\ rss[t].euicc_cert # None
       THEN /\ update_download(t, "failed", IF valid THEN "tuple" ELSE "text")
            /\ cut' = (cut \/ disk' = Corrupt)
            /\ rss' = IF valid THEN [rss EXCEPT ![t] = None] ELSE rss
            /\ http' = NotificationReply(t, IF valid THEN "ok" ELSE "error", result)
       ELSE /\ http' = NotificationReply(t, IF Lookup(t) THEN "error" ELSE "ok", result)
            /\ UNCHANGED <<rss, history, disk, cut>>

\* cancelSession by the eUICC e, which signed the id u.
cancelSession(t, e, u) ==
    /\ LET accepted == rss[t] # None /\ rss[t].euicc_cert = e /\ u = t
       IN  /\ rss' = IF accepted THEN [rss EXCEPT ![t] = None] ELSE rss
           /\ http' = Reply("cancel", IF accepted THEN "ok" ELSE "refused", t)
    /\ UNCHANGED <<fresh, history, disk, upp, cut>>

-----------------------------------------------------------------------------
(* The MNO's endpoints and the process. *)

mno_upload_profile(m, content) ==
    /\ upp' = [upp EXCEPT ![m] = content]
    /\ http' = Reply("mno", "ok", None)
    /\ UNCHANGED <<fresh, rss, history, disk, cut>>

mno_delete_profile(m) ==
    /\ upp' = [upp EXCEPT ![m] = None]
    /\ http' = Reply("mno", IF upp[m] = None THEN "refused" ELSE "ok", None)
    /\ UNCHANGED <<fresh, rss, history, disk, cut>>

\* The process ends between two requests and is started again.
Restart ==
    /\ history' = Loaded(disk)
    /\ rss' = IF InMemory THEN [t \in Tids |-> None] ELSE rss
    /\ http' = Reply("start", "ok", None)
    /\ UNCHANGED <<fresh, disk, upp, cut>>

Requests ==
    \/ \E op \in {"initiate", "authenticate", "getBPP", "notification", "cancel", "mno"},
          outcome \in {"refused", "error"} : Reject(op, outcome)
    \/ \E t \in Tids :
          \/ initiateAutentication(t)
          \/ \E a \in Signed1, valid \in BOOLEAN :
                \/ \E g \in Sigs : authenticateClient(t, a, valid, g)
                \/ authenticateClientFails(t, a, valid)
          \/ \E p \in Signed2 :
                \/ \E d \in DpKeys : getBoundProfilePackage(t, p, d) \/ CrashInGetBpp(t, p, d)
                \/ \E onCurve \in BOOLEAN : getBoundProfilePackageFails(t, p, onCurve)
          \/ \E valid \in BOOLEAN, result \in {"success", "failure"} :
                handleNotification(t, valid, result)
          \/ \E e \in Euiccs, u \in Tids : cancelSession(t, e, u)

Operator ==
    \/ \E m \in Mids, content \in Iccids \cup {Garbage} : mno_upload_profile(m, content)
    \/ \E m \in Mids : mno_delete_profile(m)
    \/ Restart

Next == Requests \/ Operator

Spec == Init /\ [][Next]_vars

-----------------------------------------------------------------------------
(* Properties. *)

\* Every recorded download was agreed to twice by the eUICC it is recorded for:
\* in AuthenticateServer for this session's challenge and this matching id, and
\* in PrepareDownload for this session; though between the two calls the same
\* session can be authenticated again, by another eUICC or for another package.
AgreedRecord(r) ==
    /\ r.by.euicc = r.eid /\ r.by.challenge = r.tid /\ r.by.mid = r.mid
    /\ r.prep.euicc = r.eid /\ r.prep.tid = r.tid

AllAgreed(h) == \A i \in 1 .. Len(h) : AgreedRecord(h[i])

HistoryAuthentic == AllAgreed(history)

\* A session for which a bound package was made has its record in the history,
\* in spite of crashes inside getBoundProfilePackage and of restarts, unless
\* the history file was cut short.
BoundIsRecorded ==
    \A t \in Tids :
        rss[t] # None /\ rss[t].smdp_otpk # None /\ ~cut =>
            \E i \in 1 .. Len(history) : history[i].tid = t

\* The records of before are in their places, about whom and what they were.
SameRecords ==
    \A i \in 1 .. Len(history) :
        /\ i <= Len(history')
        /\ history'[i].tid = history[i].tid
        /\ history'[i].eid = history[i].eid
        /\ history'[i].mid = history[i].mid

\* The server starts with no history, from a file that was cut short.
StartsEmpty == http'.op = "start" /\ cut' /\ history' = <<>>

\* No step loses a record of the history or changes whom and what it is about,
\* restarts and crashes included, but for one way: a file that a crash or a
\* failing json.dump has cut short loses the whole history at the next start.
\* A file is never an older or a shorter history than the one in memory.
HistoryKept == [][SameRecords \/ StartsEmpty]_vars

\* What makes these inductive.  A session of an authenticated eUICC holds what
\* that eUICC signed for it ...
AgreedSession(s, t) ==
    /\ s.by \in Signed1 /\ s.by.euicc = s.euicc_cert /\ s.by.challenge = t
    /\ s.by.mid = s.matchingId
    /\ s.matchingId \in Mids /\ s.profileMetadata \in Iccids

SessionsAgreed ==
    \A t \in Tids : rss[t] # None /\ rss[t].euicc_cert # None => AgreedSession(rss[t], t)

\* ... and the history file is the history or cut short; one that was never cut
\* short is whole and can be written again.
Plain(h) == \A i \in 1 .. Len(h) : h[i].final_result # "tuple"

FileInv ==
    /\ disk \in {history, Corrupt}
    /\ ~cut => disk # Corrupt /\ Plain(history)

\* What the docstring of RspSessionState says: the session is removed after
\* notification.
RemovedAfterNotification ==
    [][\A t \in Tids :
          /\ http' = NotificationReply(t, "ok", "success")
          /\ rss[t] # None /\ rss[t].smdp_otpk # None
          => rss'[t] = None]_vars

\* What docs/05-MODIFICATIONS.md says of the hook in handleNotification: the
\* record gets the final result; a reported success is then a 'success'.
SuccessIsRecorded ==
    [][\A i \in 1 .. Len(history) :
          /\ http' = NotificationReply(history[i].tid, "ok", "success")
          /\ rss[history[i].tid] # None
          => \E j \in 1 .. Len(history') :
                history'[j].tid = history[i].tid /\ history'[j].status = "success"]_vars

\* What docs/05-MODIFICATIONS.md says of DownloadHistoryStore: it "persists
\* every profile download event"; a record is never lost by a restart.
DownloadsPersist ==
    [][http'.op = "start" =>
          \A i \in 1 .. Len(history) : \E j \in 1 .. Len(history') :
              history'[j].tid = history[i].tid]_vars

=============================================================================
