----------------------------- MODULE SmDppProofs -----------------------------
(***************************************************************************)
(* Proofs about SmDpp for any number of sessions, eUICCs and packages: its *)
(* type invariant, the authenticity of the download history, and that      *)
(* nothing leaves the history, or is bound without being in it, unless the *)
(* history file is cut short.                                              *)
(***************************************************************************)
EXTENDS SmDpp, ListTheorems, TLAPS

-----------------------------------------------------------------------------
(* The helpers. *)

\* None is a value of every optional field, and so is every proper one.
LEMMA OptTypes == \A S : None \in Opt(S) /\ \A x \in S : x \in Opt(S)
BY DEF Opt

\* A value of an optional field that is not None is a proper one.
LEMMA OptElim == \A S : \A x \in Opt(S) : x # None => x \in S
BY DEF Opt

\* Answers have the type of answers.
LEMMA ReplyType ==
    ASSUME NEW op \in {"start", "initiate", "authenticate", "getBPP",
                       "notification", "cancel", "mno"},
           NEW outcome \in {"ok", "refused", "error"}, NEW tid \in Opt(Tids)
    PROVE  Reply(op, outcome, tid) \in Http
BY DEF Reply, Http

\* So do the answers to notifications.
LEMMA NotificationReplyType ==
    ASSUME NEW outcome \in {"ok", "refused", "error"}, NEW t \in Tids,
           NEW result \in {"none", "success", "failure"}
    PROVE  NotificationReply(t, outcome, result) \in Http
BY OptTypes DEF NotificationReply, Http

\* A new session is neither authenticated nor bound.
LEMMA NewSessionType == NewSession \in Session /\ NewSession.euicc_cert = None
                        /\ NewSession.smdp_otpk = None
BY OptTypes DEF NewSession, Session

\* Authentication replaces what identifies the eUICC and the package, and keeps
\* the keys of an earlier binding.
LEMMA AuthenticatedType ==
    ASSUME NEW s \in Session, NEW a \in Signed1, NEW meta \in Iccids, NEW g \in Sigs
    PROVE  /\ Authenticated(s, a, meta, g) \in Session
           /\ Authenticated(s, a, meta, g).euicc_cert = a.euicc
           /\ Authenticated(s, a, meta, g).matchingId = a.mid
           /\ Authenticated(s, a, meta, g).profileMetadata = meta
           /\ Authenticated(s, a, meta, g).by = a
           /\ Authenticated(s, a, meta, g).smdp_otpk = s.smdp_otpk
<1>1. a.euicc \in Euiccs /\ a.mid \in Opt(Mids)
  BY DEF Signed1
<1>2. a.euicc \in Opt(Euiccs) /\ meta \in Opt(Iccids) /\ g \in Opt(Sigs)
      /\ a \in Opt(Signed1)
  BY <1>1, OptTypes
<1>. QED  BY <1>1, <1>2 DEF Authenticated, Session

\* Binding replaces the keys and nothing else.
LEMMA BoundType ==
    ASSUME NEW s \in Session, NEW k \in Otpks, NEW d \in DpKeys
    PROVE  /\ Bound(s, k, d) \in Session
           /\ Bound(s, k, d).euicc_cert = s.euicc_cert
           /\ Bound(s, k, d).matchingId = s.matchingId
           /\ Bound(s, k, d).profileMetadata = s.profileMetadata
           /\ Bound(s, k, d).by = s.by
<1>1. k \in Opt(Otpks) /\ d \in Opt(DpKeys)
  BY OptTypes
<1>. QED  BY <1>1 DEF Bound, Session

\* The result of a download changes nothing else of its record.
LEMMA FinishedType ==
    ASSUME NEW r \in Record, NEW status \in {"bpp_sent", "failed", "success"},
           NEW final \in {"none", "text", "tuple"}
    PROVE  /\ Finished(r, status, final) \in Record
           /\ Finished(r, status, final).tid = r.tid
           /\ Finished(r, status, final).eid = r.eid
           /\ Finished(r, status, final).mid = r.mid
           /\ Finished(r, status, final).by = r.by
           /\ Finished(r, status, final).prep = r.prep
           /\ Finished(r, status, final).final_result = final
BY DEF Finished, Record

-----------------------------------------------------------------------------
(* The history. *)

\* A history with one more record.
LEMMA AppendType ==
    ASSUME NEW h \in Seq(Record), NEW r \in Record
    PROVE  /\ Append(h, r) \in Seq(Record)
           /\ Len(Append(h, r)) = Len(h) + 1
           /\ \A i \in 1 .. Len(h) : Append(h, r)[i] = h[i]
           /\ Append(h, r)[Len(h) + 1] = r
           /\ AllAgreed(h) /\ AgreedRecord(r) => AllAgreed(Append(h, r))
           /\ Plain(h) /\ r.final_result # "tuple" => Plain(Append(h, r))
<1>. DEFINE g == Append(h, r)
<1>1. /\ g \in Seq(Record) /\ Len(g) = Len(h) + 1
      /\ \A i \in 1 .. Len(h) : g[i] = h[i]
      /\ g[Len(h) + 1] = r
  BY AppendProperties
<1>2. Len(h) \in Nat
  BY LenProperties
<1>. HIDE DEF g
<1>3. \A i \in 1 .. Len(g) : i \in 1 .. Len(h) \/ i = Len(h) + 1
  BY <1>1, <1>2
<1>4. AllAgreed(h) /\ AgreedRecord(r) => AllAgreed(g)
  BY <1>1, <1>3 DEF AllAgreed
<1>5. Plain(h) /\ r.final_result # "tuple" => Plain(g)
  BY <1>1, <1>3 DEF Plain
<1>. QED  BY <1>1, <1>4, <1>5 DEF g

\* What the file holds after a save.
LEMMA SavedType ==
    ASSUME NEW h \in Seq(Record)
    PROVE  /\ Saved(h) \in Seq(Record) \cup {Corrupt}
           /\ Saved(h) # Corrupt => Saved(h) = h
           /\ Plain(h) => Saved(h) = h
BY DEF Saved, Plain

\* What a start makes of it.
LEMMA LoadedType ==
    ASSUME NEW f \in Seq(Record) \cup {Corrupt}, f # Corrupt => AllAgreed(f)
    PROVE  /\ Loaded(f) \in Seq(Record)
           /\ AllAgreed(Loaded(f))
           /\ f # Corrupt => Loaded(f) = f
<1>1. CASE f = Corrupt
  <2>1. Loaded(f) = <<>>
    BY <1>1 DEF Loaded
  <2>. QED  BY <1>1, <2>1, EmptySeq DEF AllAgreed
<1>2. CASE f # Corrupt
  BY <1>2 DEF Loaded
<1>. QED  BY <1>1, <1>2

\* update_download keeps every record's identity and what was agreed to.
LEMMA UpdateType ==
    ASSUME history \in Seq(Record), NEW t \in Tids, NEW final \in {"text", "tuple"},
           update_download(t, "failed", final)
    PROVE  /\ history' \in Seq(Record)
           /\ Len(history') = Len(history)
           /\ \A i \in 1 .. Len(history) :
                 /\ history'[i].tid = history[i].tid
                 /\ history'[i].eid = history[i].eid
                 /\ history'[i].mid = history[i].mid
           /\ AllAgreed(history) => AllAgreed(history')
           /\ final # "tuple" /\ Plain(history) => Plain(history')
           /\ \/ history' = history /\ disk' = disk
              \/ disk' = Saved(history')
<1>. DEFINE of == {i \in 1 .. Len(history) : history[i].tid = t}
            first(i) == i \in of /\ \A j \in of : i <= j
<1>1. CASE of = {}
  <2>1. history' = history /\ disk' = disk
    BY <1>1 DEF update_download
  <2>. QED  BY <2>1
<1>2. CASE of # {}
  <2>1. /\ history' = [i \in DOMAIN history |->
                         IF first(i) THEN Finished(history[i], "failed", final)
                         ELSE history[i]]
        /\ disk' = Saved(history')
    BY <1>2 DEF update_download
  <2>2. DOMAIN history = 1 .. Len(history) /\ Len(history) \in Nat
    BY LenProperties
  <2>. HIDE DEF first
  <2>3. \A i \in 1 .. Len(history) :
           history'[i] \in {Finished(history[i], "failed", final), history[i]}
    BY <2>1, <2>2
  <2>4. \A i \in 1 .. Len(history) :
           /\ history[i] \in Record
           /\ Finished(history[i], "failed", final) \in Record
    BY ElementOfSeq, FinishedType
  <2>5. history' \in [1 .. Len(history) -> Record]
    BY <2>1, <2>2, <2>4
  <2>6. history' \in Seq(Record) /\ Len(history') = Len(history)
    BY <2>2, <2>5, FunctionIsSeq
  <2>7. \A i \in 1 .. Len(history) :
           /\ history'[i].tid = history[i].tid
           /\ history'[i].eid = history[i].eid
           /\ history'[i].mid = history[i].mid
           /\ history'[i].by = history[i].by
           /\ history'[i].prep = history[i].prep
           /\ history'[i].final_result \in {history[i].final_result, final}
    BY <2>3, <2>4, FinishedType
  <2>8. AllAgreed(history) => AllAgreed(history')
    BY <2>6, <2>7 DEF AllAgreed, AgreedRecord
  <2>9. final # "tuple" /\ Plain(history) => Plain(history')
    BY <2>6, <2>7 DEF Plain
  <2>. QED  BY <2>1, <2>6, <2>7, <2>8, <2>9
<1>. QED  BY <1>1, <1>2

\* What getBoundProfilePackage records.
LEMMA BppRecordType ==
    ASSUME TypeOK, SessionsAgreed, NEW t \in Tids, NEW p \in Signed2, Prepared(t, p)
    PROVE  /\ BppRecord(t, p) \in Record
           /\ BppRecord(t, p).tid = t
           /\ AgreedRecord(BppRecord(t, p))
           /\ BppRecord(t, p).final_result = "none"
<1>. DEFINE s == rss[t]
<1>1. s \in Session /\ s.euicc_cert # None
  BY OptElim DEF TypeOK, Prepared
<1>2. AgreedSession(s, t)
  BY <1>1 DEF SessionsAgreed, Prepared
<1>3. s.euicc_cert \in Euiccs
  <2>1. s.euicc_cert \in Opt(Euiccs)
    BY <1>1 DEF Session
  <2>. QED  BY <1>1, <2>1, OptElim
<1>4. p.euicc = s.euicc_cert /\ p.tid = t
  BY DEF Prepared
<1>5. BppRecord(t, p) = [tid |-> t, eid |-> s.euicc_cert, iccid |-> s.profileMetadata,
                         mid |-> s.matchingId, status |-> "bpp_sent",
                         final_result |-> "none", by |-> s.by, prep |-> p]
  BY DEF BppRecord
<1>. HIDE DEF s
<1>6. BppRecord(t, p) \in Record
  BY <1>2, <1>3, <1>5 DEF Record, AgreedSession
<1>7. AgreedRecord(BppRecord(t, p))
  BY <1>2, <1>4, <1>5 DEF AgreedRecord, AgreedSession
<1>. QED  BY <1>5, <1>6, <1>7

-----------------------------------------------------------------------------
(* The inductive invariant. *)

\* The properties and what carries them over a step.
Inv == TypeOK /\ SessionsAgreed /\ HistoryAuthentic /\ FileInv /\ BoundIsRecorded

\* The records of before are kept, or the server starts with a file cut short.
Kept == (SameRecords /\ (~cut' => ~cut)) \/ StartsEmpty

\* Storing a session that is in order keeps the session store in order.
LEMMA RssUpdate ==
    ASSUME TypeOK, SessionsAgreed, NEW t \in Tids, NEW s \in Opt(Session),
           s # None /\ s.euicc_cert # None => AgreedSession(s, t),
           rss' = [rss EXCEPT ![t] = s]
    PROVE  /\ rss' \in [Tids -> Opt(Session)]
           /\ SessionsAgreed'
           /\ \A u \in Tids : rss'[u] = IF u = t THEN s ELSE rss[u]
<1>1. rss \in [Tids -> Opt(Session)]
  BY DEF TypeOK
<1>2. \A u \in Tids : rss'[u] = IF u = t THEN s ELSE rss[u]
  BY <1>1
<1>3. rss' \in [Tids -> Opt(Session)]
  BY <1>1
<1>4. ASSUME NEW u \in Tids, rss'[u] # None, rss'[u].euicc_cert # None
      PROVE  AgreedSession(rss'[u], u)
  <2>1. CASE u = t
    BY <1>2, <1>4, <2>1
  <2>2. CASE u # t
    BY <1>2, <1>4, <2>2 DEF SessionsAgreed
  <2>. QED  BY <2>1, <2>2
<1>. QED  BY <1>2, <1>3, <1>4 DEF SessionsAgreed

\* A step that binds no session and keeps the records keeps BoundIsRecorded.
LEMMA RecordedKept ==
    ASSUME TypeOK, BoundIsRecorded, Kept,
           \A u \in Tids : rss'[u] # None /\ rss'[u].smdp_otpk # None =>
                              rss[u] # None /\ rss[u].smdp_otpk # None,
           history' \in Seq(Record)
    PROVE  BoundIsRecorded'
<1>. SUFFICES ASSUME NEW u \in Tids, rss'[u] # None, rss'[u].smdp_otpk # None, ~cut'
              PROVE  \E i \in 1 .. Len(history') : history'[i].tid = u
  BY DEF BoundIsRecorded
<1>0. SameRecords /\ ~cut
  BY DEF Kept, StartsEmpty
<1>1. PICK i \in 1 .. Len(history) : history[i].tid = u
  BY <1>0 DEF BoundIsRecorded
<1>2. Len(history) \in Nat /\ Len(history') \in Nat
  BY LenProperties DEF TypeOK
<1>3. i \in 1 .. Len(history') /\ history'[i].tid = u
  BY <1>0, <1>1, <1>2 DEF SameRecords
<1>. QED  BY <1>3

\* A step that leaves the history, the file and the sessions alone.
LEMMA IdleStep ==
    ASSUME Inv, UNCHANGED <<rss, history, disk, cut>>, TypeOK'
    PROVE  Inv' /\ Kept
<1>1. Kept
  BY LenProperties DEF Kept, SameRecords, Inv, TypeOK
<1>2. BoundIsRecorded'
  BY DEF Inv, BoundIsRecorded
<1>. QED
  BY <1>1, <1>2 DEF Inv, SessionsAgreed, HistoryAuthentic, FileInv

\* A step that stores one session, and does not bind it.
LEMMA SessionStep ==
    ASSUME Inv, NEW t \in Tids, NEW s \in Opt(Session),
           s # None /\ s.euicc_cert # None => AgreedSession(s, t),
           s # None /\ s.smdp_otpk # None => rss[t] # None /\ rss[t].smdp_otpk # None,
           rss' = [rss EXCEPT ![t] = s], UNCHANGED <<history, disk, cut, upp>>,
           issued' \subseteq Tids, sigUsed' \subseteq Sigs, dpkUsed' \subseteq DpKeys,
           http' \in Http
    PROVE  Inv' /\ Kept
<1>1. Kept
  BY LenProperties DEF Kept, SameRecords, Inv, TypeOK
<1>2. /\ rss' \in [Tids -> Opt(Session)]
      /\ SessionsAgreed'
      /\ \A u \in Tids : rss'[u] = IF u = t THEN s ELSE rss[u]
  BY RssUpdate DEF Inv
<1>3. TypeOK'
  BY <1>2 DEF Inv, TypeOK
<1>4. \A u \in Tids : rss'[u] # None /\ rss'[u].smdp_otpk # None =>
                          rss[u] # None /\ rss[u].smdp_otpk # None
  BY <1>2
<1>5. BoundIsRecorded'
  BY <1>1, <1>4, RecordedKept DEF Inv, TypeOK
<1>. QED  BY <1>1, <1>2, <1>3, <1>5 DEF Inv, HistoryAuthentic, FileInv

\* The server starts again with a file f that is as good as the history.
LEMMA StartStep ==
    ASSUME Inv, NEW f \in Seq(Record) \cup {Corrupt}, f # Corrupt => AllAgreed(f),
           disk' = f, history' = Loaded(f), cut' \in BOOLEAN,
           ~cut' => ~cut /\ f # Corrupt /\ Plain(f),
           f # Corrupt =>
               \A i \in 1 .. Len(history) : i <= Len(f) /\ f[i] = history[i],
           rss' = IF InMemory THEN [u \in Tids |-> None] ELSE rss,
           dpkUsed' \subseteq DpKeys, UNCHANGED <<issued, sigUsed, upp>>,
           http' = Reply("start", "ok", None)
    PROVE  Inv' /\ Kept
<1>1. /\ history' \in Seq(Record) /\ HistoryAuthentic'
      /\ f # Corrupt => history' = f
  BY LoadedType DEF HistoryAuthentic
<1>2. Kept
  <2>1. CASE f # Corrupt
    BY <1>1, <2>1 DEF Kept, SameRecords
  <2>2. CASE f = Corrupt
    BY <2>2 DEF Kept, StartsEmpty, Loaded, Reply
  <2>. QED  BY <2>1, <2>2
<1>3. rss' \in [Tids -> Opt(Session)]
  BY OptTypes DEF Inv, TypeOK
<1>4. http' \in Http
  BY ReplyType, OptTypes
<1>5. TypeOK'
  BY <1>1, <1>3, <1>4 DEF Inv, TypeOK
<1>6. \A u \in Tids : rss'[u] = None \/ rss'[u] = rss[u]
  OBVIOUS
<1>7. SessionsAgreed'
  BY <1>6 DEF Inv, SessionsAgreed
<1>8. BoundIsRecorded'
  BY <1>1, <1>2, <1>6, RecordedKept DEF Inv
<1>9. FileInv'
  <2>1. disk' \in {history', Corrupt}
    BY <1>1
  <2>. QED  BY <1>1, <2>1 DEF FileInv
<1>. QED  BY <1>1, <1>2, <1>5, <1>7, <1>8, <1>9 DEF Inv

\* A package is bound: the record and the session.
LEMMA GetBppStep ==
    ASSUME Inv, NEW t \in Tids, NEW p \in Signed2, NEW d \in DpKeys,
           getBoundProfilePackage(t, p, d)
    PROVE  Inv' /\ Kept
<1>. DEFINE r == BppRecord(t, p)
            s == Bound(rss[t], p.otpk, d)
<1>1. Prepared(t, p)
  BY DEF getBoundProfilePackage, Bindable
<1>2. r \in Record /\ r.tid = t /\ AgreedRecord(r) /\ r.final_result = "none"
  BY <1>1, BppRecordType DEF Inv
<1>3. rss[t] \in Session /\ rss[t].euicc_cert # None /\ p.otpk \in Otpks
  BY <1>1, OptElim DEF Inv, TypeOK, Prepared, Signed2
<1>4. /\ s \in Session /\ s.euicc_cert = rss[t].euicc_cert
      /\ s.matchingId = rss[t].matchingId
      /\ s.profileMetadata = rss[t].profileMetadata /\ s.by = rss[t].by
  BY <1>3, BoundType
<1>5. AgreedSession(s, t)
  BY <1>1, <1>3, <1>4 DEF Inv, SessionsAgreed, AgreedSession, Prepared
<1>6. /\ history' = Append(history, r) /\ disk' = Saved(history')
      /\ rss' = [rss EXCEPT ![t] = s] /\ UNCHANGED <<issued, sigUsed, upp, cut>>
      /\ dpkUsed' \subseteq DpKeys /\ http' = Reply("getBPP", "ok", t)
  BY DEF getBoundProfilePackage, record_download, Inv, TypeOK
<1>. HIDE DEF r, s
<1>7. history \in Seq(Record) /\ AllAgreed(history) /\ Len(history) \in Nat
  BY LenProperties DEF Inv, TypeOK, HistoryAuthentic
<1>8. /\ history' \in Seq(Record) /\ Len(history') = Len(history) + 1
      /\ \A i \in 1 .. Len(history) : history'[i] = history[i]
      /\ history'[Len(history) + 1] = r
      /\ AllAgreed(history')
      /\ Plain(history) => Plain(history')
  BY <1>2, <1>6, <1>7, AppendType
<1>9. Kept
  BY <1>6, <1>7, <1>8 DEF Kept, SameRecords
<1>10. /\ rss' \in [Tids -> Opt(Session)] /\ SessionsAgreed'
       /\ \A u \in Tids : rss'[u] = IF u = t THEN s ELSE rss[u]
  BY <1>4, <1>5, <1>6, RssUpdate, OptTypes DEF Inv
<1>11. TypeOK'
  BY <1>6, <1>8, <1>10, SavedType, ReplyType, OptTypes DEF Inv, TypeOK
<1>12. FileInv'
  <2>1. disk' \in {history', Corrupt}
    BY <1>6 DEF Saved
  <2>2. ~cut' => disk' # Corrupt /\ Plain(history')
    BY <1>6, <1>8, SavedType, CorruptAssumption DEF Inv, FileInv
  <2>. QED  BY <2>1, <2>2 DEF FileInv
<1>13. BoundIsRecorded'
  <2>. SUFFICES ASSUME NEW u \in Tids, rss'[u] # None, rss'[u].smdp_otpk # None, ~cut'
                PROVE  \E i \in 1 .. Len(history') : history'[i].tid = u
    BY DEF BoundIsRecorded
  <2>1. CASE u = t
    BY <1>2, <1>7, <1>8, <2>1
  <2>2. CASE u # t
    <3>1. rss[u] # None /\ rss[u].smdp_otpk # None /\ ~cut
      BY <1>6, <1>10, <2>2
    <3>2. PICK i \in 1 .. Len(history) : history[i].tid = u
      BY <3>1 DEF Inv, BoundIsRecorded
    <3>3. i \in 1 .. Len(history') /\ history'[i].tid = u
      BY <1>7, <1>8, <3>2
    <3>. QED  BY <3>3
  <2>. QED  BY <2>1, <2>2
<1>. QED  BY <1>8, <1>9, <1>10, <1>11, <1>12, <1>13 DEF Inv, HistoryAuthentic

\* The process dies while it records or before it stores the session.
LEMMA CrashStep ==
    ASSUME Inv, NEW t \in Tids, NEW p \in Signed2, NEW d \in DpKeys,
           CrashInGetBpp(t, p, d)
    PROVE  Inv' /\ Kept
<1>. DEFINE r == BppRecord(t, p)
            h == Append(history, r)
<1>1. r \in Record /\ AgreedRecord(r) /\ r.final_result = "none"
  BY BppRecordType DEF CrashInGetBpp, Bindable, Inv
<1>2. /\ disk' \in {Corrupt, Saved(h)} /\ history' = Loaded(disk')
      /\ cut' = (cut \/ disk' = Corrupt)
      /\ rss' = (IF InMemory THEN [u \in Tids |-> None] ELSE rss)
      /\ dpkUsed' \subseteq DpKeys /\ UNCHANGED <<issued, sigUsed, upp>>
      /\ http' = Reply("start", "ok", None)
  BY DEF CrashInGetBpp, Inv, TypeOK
<1>. HIDE DEF r
<1>3. history \in Seq(Record) /\ AllAgreed(history) /\ Len(history) \in Nat
  BY LenProperties DEF Inv, TypeOK, HistoryAuthentic
<1>4. /\ h \in Seq(Record) /\ Len(h) = Len(history) + 1
      /\ \A i \in 1 .. Len(history) : h[i] = history[i]
      /\ AllAgreed(h)
      /\ Plain(history) => Plain(h)
  BY <1>1, <1>3, AppendType
<1>. HIDE DEF h
<1>5. disk' \in Seq(Record) \cup {Corrupt} /\ (disk' # Corrupt => disk' = h)
  BY <1>2, <1>4, SavedType
<1>6. disk' # Corrupt => AllAgreed(disk')
  BY <1>4, <1>5
<1>7. cut' \in BOOLEAN
  BY <1>2
<1>8. ~cut' => ~cut /\ disk' # Corrupt /\ Plain(disk')
  BY <1>2, <1>4, <1>5 DEF Inv, FileInv
<1>9. disk' # Corrupt =>
         \A i \in 1 .. Len(history) : i <= Len(disk') /\ disk'[i] = history[i]
  BY <1>3, <1>4, <1>5
<1>. QED  BY <1>2, <1>5, <1>6, <1>7, <1>8, <1>9, StartStep

\* The process is restarted between two requests.
LEMMA RestartStep == Inv /\ Restart => Inv' /\ Kept
<1>. SUFFICES ASSUME Inv, Restart PROVE Inv' /\ Kept
  OBVIOUS
<1>1. disk \in Seq(Record) \cup {Corrupt} /\ (disk # Corrupt => AllAgreed(disk))
  BY DEF Inv, TypeOK, FileInv, HistoryAuthentic
<1>2. disk # Corrupt => disk = history
  BY DEF Inv, FileInv
<1>3. disk # Corrupt => \A i \in 1 .. Len(history) : i <= Len(disk) /\ disk[i] = history[i]
  BY <1>2, LenProperties DEF Inv, TypeOK
<1>5. ~cut => disk # Corrupt /\ Plain(disk)
  BY <1>2 DEF Inv, FileInv
<1>4. /\ disk' = disk /\ history' = Loaded(disk) /\ cut' = cut /\ cut' \in BOOLEAN
      /\ rss' = (IF InMemory THEN [u \in Tids |-> None] ELSE rss)
      /\ dpkUsed' \subseteq DpKeys /\ UNCHANGED <<issued, sigUsed, upp>>
      /\ http' = Reply("start", "ok", None)
  BY DEF Restart, fresh, Inv, TypeOK
<1>. QED  BY <1>1, <1>3, <1>4, <1>5, StartStep

\* A notification is handled.
LEMMA NotificationStep ==
    ASSUME Inv, NEW t \in Tids, NEW valid \in BOOLEAN,
           NEW result \in {"success", "failure"}, handleNotification(t, valid, result)
    PROVE  Inv' /\ Kept
<1>1. UNCHANGED <<issued, sigUsed, dpkUsed, upp>>
  BY DEF handleNotification, fresh
<1>2. http' \in Http
  BY NotificationReplyType DEF handleNotification
<1>3. CASE Lookup(t) /\ rss[t].euicc_cert # None
  <2>. DEFINE final == IF valid THEN "tuple" ELSE "text"
  <2>1. /\ update_download(t, "failed", final)
        /\ cut' = (cut \/ disk' = Corrupt)
        /\ rss' = IF valid THEN [rss EXCEPT ![t] = None] ELSE rss
    BY <1>3 DEF handleNotification
  <2>2. final \in {"text", "tuple"}
    OBVIOUS
  <2>. HIDE DEF final
  <2>3. history \in Seq(Record) /\ AllAgreed(history) /\ Len(history) \in Nat
    BY LenProperties DEF Inv, TypeOK, HistoryAuthentic
  <2>4. /\ history' \in Seq(Record)
        /\ Len(history') = Len(history)
        /\ \A i \in 1 .. Len(history) :
              /\ history'[i].tid = history[i].tid
              /\ history'[i].eid = history[i].eid
              /\ history'[i].mid = history[i].mid
        /\ AllAgreed(history')
        /\ \/ history' = history /\ disk' = disk
           \/ disk' = Saved(history')
    BY <2>1, <2>2, <2>3, UpdateType
  <2>5. Kept
    <3>1. ~cut' => ~cut
      BY <2>1
    <3>2. \A i \in 1 .. Len(history) : i <= Len(history')
      BY <2>3, <2>4
    <3>. QED  BY <2>4, <3>1, <3>2 DEF Kept, SameRecords
  <2>6. disk' \in Seq(Record) \cup {Corrupt} /\ cut' \in BOOLEAN
    BY <2>1, <2>4, SavedType DEF Inv, TypeOK
  <2>7. FileInv'
    <3>1. disk' \in {history', Corrupt}
      BY <2>4, SavedType DEF Inv, FileInv
    <3>2. ASSUME ~cut' PROVE disk' # Corrupt /\ Plain(history')
      <4>1. ~cut /\ disk' # Corrupt /\ Plain(history)
        BY <2>1, <3>2 DEF Inv, FileInv
      <4>2. CASE history' = history /\ disk' = disk
        BY <4>1, <4>2
      <4>3. CASE disk' = Saved(history')
        BY <4>1, <4>3 DEF Saved, Plain
      <4>. QED  BY <2>4, <4>2, <4>3
    <3>. QED  BY <3>1, <3>2 DEF FileInv
  <2>8. rss' \in [Tids -> Opt(Session)] /\ \A u \in Tids : rss'[u] \in {None, rss[u]}
    <3>1. rss \in [Tids -> Opt(Session)] /\ None \in Opt(Session)
      BY OptTypes DEF Inv, TypeOK
    <3>2. CASE valid
      BY <2>1, <3>1, <3>2
    <3>3. CASE ~valid
      BY <2>1, <3>1, <3>3
    <3>. QED  BY <3>2, <3>3
  <2>9. SessionsAgreed'
    BY <2>8 DEF Inv, SessionsAgreed
  <2>10. BoundIsRecorded'
    BY <2>4, <2>5, <2>8, RecordedKept DEF Inv
  <2>11. TypeOK'
    BY <1>1, <1>2, <2>4, <2>6, <2>8 DEF Inv, TypeOK
  <2>. QED
    BY <2>4, <2>5, <2>7, <2>9, <2>10, <2>11 DEF Inv, HistoryAuthentic
<1>4. CASE ~(Lookup(t) /\ rss[t].euicc_cert # None)
  <2>1. UNCHANGED <<rss, history, disk, cut>>
    BY <1>4 DEF handleNotification
  <2>2. TypeOK'
    BY <1>1, <1>2, <2>1 DEF Inv, TypeOK
  <2>. QED  BY <2>1, <2>2, IdleStep
<1>. QED  BY <1>3, <1>4

\* Every step keeps the invariant and the records.
LEMMA InvStep == Inv /\ [Next]_vars => Inv' /\ Kept
<1>. SUFFICES ASSUME Inv, [Next]_vars PROVE Inv' /\ Kept
  OBVIOUS
<1>. USE OptTypes
<1>0. ASSUME UNCHANGED <<fresh, rss, history, disk, upp, cut>>, http' \in Http
      PROVE  Inv' /\ Kept
  <2>1. TypeOK'
    BY <1>0 DEF Inv, TypeOK, fresh
  <2>. QED  BY <1>0, <2>1, IdleStep
<1>1. CASE UNCHANGED vars
  BY <1>0, <1>1 DEF vars, fresh, Inv, TypeOK
<1>2. ASSUME NEW op \in {"initiate", "authenticate", "getBPP", "notification",
                         "cancel", "mno"},
             NEW outcome \in {"refused", "error"}, Reject(op, outcome)
      PROVE  Inv' /\ Kept
  BY <1>0, <1>2, ReplyType DEF Reject
<1>3. ASSUME NEW t \in Tids, initiateAutentication(t)
      PROVE  Inv' /\ Kept
  <2>1. /\ rss' = [rss EXCEPT ![t] = NewSession]
        /\ UNCHANGED <<history, disk, cut, upp>>
        /\ issued' \subseteq Tids /\ sigUsed' \subseteq Sigs /\ dpkUsed' \subseteq DpKeys
    BY <1>3 DEF initiateAutentication, Inv, TypeOK
  <2>2. http' \in Http
    BY <1>3, ReplyType DEF initiateAutentication
  <2>. QED  BY <2>1, <2>2, NewSessionType, SessionStep
<1>4. ASSUME NEW t \in Tids, NEW a \in Signed1, NEW valid \in BOOLEAN, NEW g \in Sigs,
             authenticateClient(t, a, valid, g)
      PROVE  Inv' /\ Kept
  <2>. DEFINE s == Authenticated(rss[t], a, upp[a.mid], g)
  <2>1. rss[t] # None /\ a.challenge = t /\ Readable(a.mid)
    BY <1>4 DEF authenticateClient, Authentic
  <2>2. rss[t] \in Session
    BY <2>1, OptElim DEF Inv, TypeOK
  <2>3. a.mid \in Mids
    BY <2>1, OptElim DEF Readable, Published, Signed1
  <2>4. upp[a.mid] \in Iccids
    <3>1. upp[a.mid] \in Opt(Iccids \cup {Garbage}) /\ upp[a.mid] \notin {None, Garbage}
      BY <2>1, <2>3 DEF Inv, TypeOK, Readable, Published
    <3>. QED  BY <3>1, OptElim
  <2>5. /\ s \in Session /\ s.euicc_cert = a.euicc /\ s.matchingId = a.mid
        /\ s.profileMetadata = upp[a.mid] /\ s.by = a /\ s.smdp_otpk = rss[t].smdp_otpk
    BY <2>2, <2>4, AuthenticatedType
  <2>6. /\ rss' = [rss EXCEPT ![t] = s] /\ UNCHANGED <<history, disk, cut, upp>>
        /\ issued' \subseteq Tids /\ sigUsed' \subseteq Sigs /\ dpkUsed' \subseteq DpKeys
    BY <1>4 DEF authenticateClient, Inv, TypeOK
  <2>7. http' \in Http
    BY <1>4, ReplyType DEF authenticateClient
  <2>. HIDE DEF s
  <2>8. AgreedSession(s, t)
    BY <2>1, <2>3, <2>4, <2>5 DEF AgreedSession
  <2>. QED  BY <2>1, <2>5, <2>6, <2>7, <2>8, SessionStep
<1>5. ASSUME NEW t \in Tids, NEW a, NEW valid, authenticateClientFails(t, a, valid)
      PROVE  Inv' /\ Kept
  BY <1>0, <1>5, ReplyType DEF authenticateClientFails
<1>6. ASSUME NEW t \in Tids, NEW p, NEW onCurve, getBoundProfilePackageFails(t, p, onCurve)
      PROVE  Inv' /\ Kept
  BY <1>0, <1>6, ReplyType DEF getBoundProfilePackageFails
<1>7. ASSUME NEW t \in Tids, NEW e, NEW u, cancelSession(t, e, u)
      PROVE  Inv' /\ Kept
  <2>1. http' \in Http
    BY <1>7, ReplyType DEF cancelSession
  <2>2. CASE rss' = rss
    BY <1>0, <1>7, <2>1, <2>2 DEF cancelSession
  <2>3. CASE rss' = [rss EXCEPT ![t] = None]
    <3>1. /\ UNCHANGED <<history, disk, cut, upp>>
          /\ issued' \subseteq Tids /\ sigUsed' \subseteq Sigs /\ dpkUsed' \subseteq DpKeys
      BY <1>7 DEF cancelSession, fresh, Inv, TypeOK
    <3>. QED  BY <2>1, <2>3, <3>1, SessionStep
  <2>. QED  BY <1>7, <2>2, <2>3 DEF cancelSession
<1>8. ASSUME NEW m \in Mids, NEW content \in Iccids \cup {Garbage},
             mno_upload_profile(m, content)
      PROVE  Inv' /\ Kept
  <2>1. UNCHANGED <<rss, history, disk, cut>> /\ UNCHANGED <<issued, sigUsed, dpkUsed>>
        /\ upp' \in [Mids -> Opt(Iccids \cup {Garbage})]
    BY <1>8 DEF mno_upload_profile, fresh, Inv, TypeOK
  <2>2. http' \in Http
    BY <1>8, ReplyType DEF mno_upload_profile
  <2>3. TypeOK'
    BY <2>1, <2>2 DEF Inv, TypeOK
  <2>. QED  BY <2>1, <2>3, IdleStep
<1>9. ASSUME NEW m \in Mids, mno_delete_profile(m)
      PROVE  Inv' /\ Kept
  <2>1. UNCHANGED <<rss, history, disk, cut>> /\ UNCHANGED <<issued, sigUsed, dpkUsed>>
        /\ upp' \in [Mids -> Opt(Iccids \cup {Garbage})]
    BY <1>9 DEF mno_delete_profile, fresh, Inv, TypeOK
  <2>2. http' \in Http
    BY <1>9, ReplyType DEF mno_delete_profile
  <2>3. TypeOK'
    BY <2>1, <2>2 DEF Inv, TypeOK
  <2>. QED  BY <2>1, <2>3, IdleStep
<1>10. CASE Requests
  BY <1>2, <1>3, <1>4, <1>5, <1>6, <1>7, <1>10, GetBppStep, CrashStep, NotificationStep
     DEF Requests
<1>11. CASE Operator
  BY <1>8, <1>9, <1>11, RestartStep DEF Operator
<1>. QED  BY <1>1, <1>10, <1>11 DEF Next

\* The invariant holds at the start.
LEMMA InvInit == Init => Inv
<1>. SUFFICES ASSUME Init PROVE Inv
  OBVIOUS
<1>1. /\ history = <<>> /\ disk = <<>> /\ history \in Seq(Record)
      /\ Len(history) = 0 /\ AllAgreed(history) /\ Plain(history)
  BY EmptySeq DEF Init, AllAgreed, Plain
<1>2. rss \in [Tids -> Opt(Session)] /\ \A t \in Tids : rss[t] = None
  BY OptTypes DEF Init
<1>3. upp \in [Mids -> Opt(Iccids \cup {Garbage})]
  BY DEF Init, Opt
<1>4. http \in Http
  BY OptTypes, ReplyType DEF Init
<1>5. TypeOK
  BY <1>1, <1>2, <1>3, <1>4 DEF Init, TypeOK
<1>6. disk \in {history, Corrupt} /\ disk # Corrupt
  BY <1>1, CorruptAssumption
<1>. QED
  BY <1>1, <1>2, <1>5, <1>6
     DEF Inv, SessionsAgreed, HistoryAuthentic, FileInv, BoundIsRecorded

-----------------------------------------------------------------------------
(* The theorems. *)

\* The invariant holds always.
LEMMA Invariance == Spec => []Inv
BY InvInit, InvStep, PTL DEF Spec

\* Type correctness of the server.
THEOREM TypeCorrect == Spec => []TypeOK
<1>1. Inv => TypeOK
  BY DEF Inv
<1>. QED  BY <1>1, Invariance, PTL

\* Every recorded download was agreed to by the eUICC it names, whatever is
\* authenticated, replayed, cancelled or restarted in between.
THEOREM HistoryIsAuthentic == Spec => []HistoryAuthentic
<1>1. Inv => HistoryAuthentic
  BY DEF Inv
<1>. QED  BY <1>1, Invariance, PTL

\* No bound session is missing from a history whose file was never cut short.
THEOREM BoundSessionsRecorded == Spec => []BoundIsRecorded
<1>1. Inv => BoundIsRecorded
  BY DEF Inv
<1>. QED  BY <1>1, Invariance, PTL

\* No step loses or changes a record, restarts and crashes included, except that a
\* file that was cut short loses all of them at the next start.
THEOREM RecordsAreKept == Spec => HistoryKept
<1>1. Inv /\ [Next]_vars => SameRecords \/ StartsEmpty
  BY InvStep DEF Kept
<1>. QED  BY <1>1, Invariance, PTL DEF Spec, HistoryKept

=============================================================================
