----------------------------- MODULE FileAccess -----------------------------
(***************************************************************************)
(* Reading and writing the selected EF (pySim/commands.py and the EF       *)
(* classes of pySim/filesystem.py): a transparent EF in pieces of at most  *)
(* max_cmd_len octets, with the compare that saves a write and the verify  *)
(* after it, one record of a linear fixed EF, and one object of a BER-TLV  *)
(* EF.  The card answers each piece, refuses it, or the link fails before  *)
(* or after it has been executed.                                          *)
(***************************************************************************)
EXTENDS Naturals, Sequences

CONSTANTS
    Octets,      \* values of an octet, 255 the padding
    Size,        \* of the transparent EF
    RecLen,      \* of the record
    MaxCmdLen,   \* scc.max_cmd_len
    MaxData,     \* bound: octets a command writes
    MaxFaults    \* bound: link errors

VARIABLES
    ef,      \* structure of the selected EF, whose commands there are
    bin,     \* card: the transparent EF
    rec,     \* card: the record
    tlv,     \* card: the stored object, <<>> when there is none
    part,    \* card: what SET DATA has sent so far, and how much is to come
    job,     \* the command under way, "none" between commands
    last,    \* how the last one ended
    faults

vars == <<ef, bin, rec, tlv, part, job, last, faults>>

SeqsUpTo(S, n) == UNION {[1..k -> S] : k \in 0..n}
Smaller(a, b) == IF a < b THEN a ELSE b
Overlay(s, off, d) ==
    [i \in 1..Len(s) |-> IF i > off /\ i <= off + Len(d) THEN d[i - off] ELSE s[i]]

NoJob == [kind |-> "none"]
NoPart == [got |-> <<>>, need |-> 0]
Nothing == [kind |-> "none", ok |-> TRUE]

Init ==
    /\ ef \in {"transparent", "linear", "tlv"}
    /\ bin = [i \in 1..Size |-> 255]
    /\ rec = [i \in 1..RecLen |-> 255]
    /\ tlv = <<>>
    /\ part = NoPart
    /\ job = NoJob
    /\ last = Nothing
    /\ faults = 0

Idle(structure) == ef = structure /\ job.kind = "none"

\* The command ends; what it began with is kept for the properties.
End(j, ok, out) ==
    /\ job' = NoJob
    /\ last' = [kind |-> j.cmd, ok |-> ok, out |-> out, off |-> j.off, data |-> j.data,
                before |-> j.before]

-----------------------------------------------------------------------------
(* Transparent EF. *)

\* read_binary; without a length it reads to the end.
ReadBinary(off, len) ==
    /\ Idle("transparent")
    /\ job' = [cmd |-> "read", kind |-> "read", off |-> off, data |-> <<>>, len |-> len,
               pos |-> 0, out |-> <<>>, verify |-> FALSE, before |-> bin]
    /\ last' = Nothing
    /\ UNCHANGED <<ef, bin, rec, tlv, part, faults>>

\* update_binary, with the compare (conserve) or at once
UpdateBinary(off, data, conserve, verify) ==
    /\ Idle("transparent")
    /\ job' = [cmd |-> "update", kind |-> IF conserve THEN "compare" ELSE "write",
               off |-> off, data |-> data, len |-> Len(data), pos |-> 0, out |-> <<>>,
               verify |-> verify, before |-> bin]
    /\ last' = Nothing
    /\ UNCHANGED <<ef, bin, rec, tlv, part, faults>>

Reading == job.kind \in {"read", "compare", "verify"}
ChunkLen == Smaller(MaxCmdLen, job.len - job.pos)
InRange == job.off + job.pos + ChunkLen <= Size
Restart(kind) == [job EXCEPT !.kind = kind, !.pos = 0, !.out = <<>>]

\* A failed read ends a read and a verify; of the compare it is ignored.
ReadFails ==
    IF job.kind = "compare" THEN job' = Restart("write") /\ UNCHANGED last
    ELSE End(job, FALSE, <<>>)

\* One READ BINARY
ReadChunk ==
    /\ Reading
    /\ job.pos < job.len
    /\ IF InRange
       THEN job' = [job EXCEPT !.pos = @ + ChunkLen,
                      !.out = @ \o SubSeq(bin, job.off + job.pos + 1, job.off + job.pos + ChunkLen)]
            /\ UNCHANGED last
       ELSE ReadFails
    /\ UNCHANGED <<ef, bin, rec, tlv, part, faults>>

\* All is read.  Nothing was written when nothing was read: the status word
\* of the last piece is not there.
ReadDone ==
    /\ Reading
    /\ job.pos >= job.len
    /\ CASE job.len = 0 -> ReadFails
         [] job.len > 0 /\ job.kind = "read" -> End(job, TRUE, job.out)
         [] job.len > 0 /\ job.kind = "verify" -> End(job, job.out = job.data, <<>>)
         [] OTHER -> IF job.out = job.data THEN End(job, TRUE, <<>>)
                     ELSE job' = Restart("write") /\ UNCHANGED last
    /\ UNCHANGED <<ef, bin, rec, tlv, part, faults>>

\* Mutant of WritePiece: every piece is the first.
WritePieceFirst == SubSeq(job.data, 1, ChunkLen)

WritePiece == SubSeq(job.data, job.pos + 1, job.pos + ChunkLen)

\* One UPDATE BINARY
WriteChunk ==
    /\ job.kind = "write"
    /\ job.pos < job.len
    /\ IF InRange
       THEN /\ bin' = Overlay(bin, job.off + job.pos, WritePiece)
            /\ job' = [job EXCEPT !.pos = @ + ChunkLen]
            /\ UNCHANGED last
       ELSE End(job, FALSE, <<>>) /\ UNCHANGED bin
    /\ UNCHANGED <<ef, rec, tlv, part, faults>>

\* All is written; with no data there is no status word to return.
WriteDone ==
    /\ job.kind = "write"
    /\ job.pos >= job.len
    /\ IF job.len = 0 THEN End(job, FALSE, <<>>)
       ELSE IF job.verify THEN job' = Restart("verify") /\ UNCHANGED last
       ELSE End(job, TRUE, <<>>)
    /\ UNCHANGED <<ef, bin, rec, tlv, part, faults>>

-----------------------------------------------------------------------------
(* Linear fixed EF. *)

Pad(data, left) ==
    LET fill == [i \in 1..(RecLen - Len(data)) |-> 255]
    IN  IF left THEN fill \o data ELSE data \o fill

\* update_record: data are padded to the record's length, or forced in their own;
\* too long ones raise before the card is asked.
UpdateRecord(data, left, force, conserve, verify) ==
    /\ Idle("linear")
    /\ LET d == IF force \/ Len(data) > RecLen THEN data ELSE Pad(data, left)
           j == [cmd |-> "record", kind |-> IF conserve THEN "compareRecord" ELSE "writeRecord",
                 off |-> 0, data |-> d, len |-> Len(d), verify |-> verify, before |-> rec]
       IN  IF ~force /\ Len(data) > RecLen THEN End(j, FALSE, <<>>)
           ELSE job' = j /\ last' = Nothing
    /\ UNCHANGED <<ef, bin, rec, tlv, part, faults>>

\* The record begins with the data: what the compare asks, which cuts the record
\* to the length that was forced.
Stored(d) == Len(d) <= RecLen /\ SubSeq(rec, 1, Len(d)) = d

\* READ RECORD before the write: what is there already is not written.
CompareRecord ==
    /\ job.kind = "compareRecord"
    /\ IF Stored(job.data) THEN End(job, TRUE, <<>>)
       ELSE job' = [job EXCEPT !.kind = "writeRecord"] /\ UNCHANGED last
    /\ UNCHANGED <<ef, bin, rec, tlv, part, faults>>

\* The card (external) takes a record of its own length only.
Taken(d) == IF Len(d) = RecLen THEN d ELSE rec

\* UPDATE RECORD
WriteRecord ==
    /\ job.kind = "writeRecord"
    /\ rec' = Taken(job.data)
    /\ CASE Len(job.data) # RecLen -> End(job, FALSE, <<>>)
         [] Len(job.data) = RecLen /\ job.verify ->
              job' = [job EXCEPT !.kind = "verifyRecord"] /\ UNCHANGED last
         [] OTHER -> End(job, TRUE, <<>>)
    /\ UNCHANGED <<ef, bin, tlv, part, faults>>

\* READ RECORD after it: another content raises.
VerifyRecord ==
    /\ job.kind = "verifyRecord"
    /\ End(job, rec = job.data, <<>>)
    /\ UNCHANGED <<ef, bin, rec, tlv, part, faults>>

-----------------------------------------------------------------------------
(* BER-TLV EF.  The octets of a TLV are a header, which tells the card how   *)
(* much is to come, and the value.                                           *)

TlvOf(value) == <<Len(value)>> \o value

\* set_data of a value, or of none, which deletes the object
SetData(value) ==
    /\ Idle("tlv")
    /\ job' = [cmd |-> "set", kind |-> IF value = <<>> THEN "delete" ELSE "set", off |-> 0,
               data |-> IF value = <<>> THEN <<>> ELSE TlvOf(value), pos |-> 0,
               len |-> IF value = <<>> THEN 0 ELSE Len(value) + 1, before |-> tlv]
    /\ last' = Nothing
    /\ UNCHANGED <<ef, bin, rec, tlv, part, faults>>

\* The card (external): a tag alone deletes the object.
CardDelete == tlv' = <<>> /\ part' = NoPart

\* SET DATA of the tag alone
DeleteData ==
    /\ job.kind = "delete"
    /\ CardDelete
    /\ End(job, TRUE, <<>>)
    /\ UNCHANGED <<ef, bin, rec, faults>>

\* The card (external): the first piece begins an object, the others continue
\* it, and the object is stored when it is whole.
CardSet(first, piece) ==
    LET p == IF first THEN [got |-> piece, need |-> piece[1] + 1]
             ELSE [part EXCEPT !.got = @ \o piece]
    IN  IF Len(p.got) >= p.need THEN tlv' = SubSeq(p.got, 1, p.need) /\ part' = NoPart
        ELSE part' = p /\ UNCHANGED tlv

\* Mutant of FirstPiece: the mark of the first piece is not set again when a
\* command follows one that was interrupted.
FirstPieceOnce == job.pos = 0 /\ part.got = <<>>

FirstPiece == job.pos = 0

SetBlock == SubSeq(job.data, job.pos + 1, job.pos + ChunkLen)

\* One SET DATA
SetPiece ==
    /\ job.kind = "set"
    /\ CardSet(FirstPiece, SetBlock)
    /\ IF job.pos + ChunkLen = job.len THEN End(job, TRUE, <<>>)
       ELSE job' = [job EXCEPT !.pos = @ + ChunkLen] /\ UNCHANGED last
    /\ UNCHANGED <<ef, bin, rec, faults>>

\* The link fails, before the card has executed the piece or after (late).  A
\* failed compare is ignored; every other failure ends the command.
LinkError(late) ==
    /\ faults < MaxFaults
    /\ faults' = faults + 1
    /\ \/ Reading /\ ReadFails /\ UNCHANGED <<bin, rec, part, tlv>>
       \/ /\ job.kind = "compareRecord"
          /\ job' = [job EXCEPT !.kind = "writeRecord"]
          /\ UNCHANGED <<bin, rec, part, tlv, last>>
       \/ /\ job.kind \in {"writeRecord", "verifyRecord"}
          /\ End(job, FALSE, <<>>)
          /\ rec' = IF late /\ job.kind = "writeRecord" THEN Taken(job.data) ELSE rec
          /\ UNCHANGED <<bin, part, tlv>>
       \/ /\ job.kind = "write" /\ job.pos < job.len /\ InRange
          /\ End(job, FALSE, <<>>)
          /\ bin' = IF late THEN Overlay(bin, job.off + job.pos, WritePiece) ELSE bin
          /\ UNCHANGED <<rec, part, tlv>>
       \/ /\ job.kind = "set"
          /\ End(job, FALSE, <<>>)
          /\ IF late THEN CardSet(FirstPiece, SetBlock) ELSE UNCHANGED <<part, tlv>>
          /\ UNCHANGED <<bin, rec>>
       \/ /\ job.kind = "delete"
          /\ End(job, FALSE, <<>>)
          /\ IF late THEN CardDelete ELSE UNCHANGED <<part, tlv>>
          /\ UNCHANGED <<bin, rec>>
    /\ UNCHANGED ef

\* retrieve_data: an answer that says there is more (62f1) does not match
\* 9000 and ends the command, as an answer that is lost does.
RetrieveData(lost) ==
    /\ Idle("tlv")
    /\ tlv # <<>>
    /\ lost => faults < MaxFaults
    /\ faults' = IF lost THEN faults + 1 ELSE faults
    /\ LET whole == ~lost /\ Len(tlv) <= MaxCmdLen
       IN  last' = [kind |-> "retrieve", ok |-> whole, out |-> IF whole THEN tlv ELSE <<>>,
                    off |-> 0, data |-> <<>>, before |-> tlv]
    /\ UNCHANGED <<ef, bin, rec, tlv, part, job>>

-----------------------------------------------------------------------------

Next ==
    \/ \E off \in 0..Size : \/ ReadBinary(off, Size - off)
                            \/ \E n \in 0..(Size + 1) : ReadBinary(off, n)
    \/ \E off \in 0..Size, data \in SeqsUpTo(Octets, MaxData), c, v \in BOOLEAN :
         UpdateBinary(off, data, c, v)
    \/ ReadChunk \/ ReadDone \/ WriteChunk \/ WriteDone
    \/ \E late \in BOOLEAN : LinkError(late)
    \/ \E data \in SeqsUpTo(Octets, RecLen + 1), left, force, c, v \in BOOLEAN :
         UpdateRecord(data, left, force, c, v)
    \/ CompareRecord \/ WriteRecord \/ VerifyRecord
    \/ \E value \in SeqsUpTo(Octets, MaxData) : SetData(value)
    \/ SetPiece \/ DeleteData
    \/ \E lost \in BOOLEAN : RetrieveData(lost)

Spec == Init /\ [][Next]_vars

\* An update that returns has written its data at its offset and nothing
\* else, whether it compared, wrote in pieces or verified; one that raises has
\* written a beginning of its data (update_binary).  A record has the data when
\* its update returns, and when it raises all of it or nothing of it: also when
\* it was written and only the answer or the verify was lost (update_record).
UpdateOutcome ==
    /\ last.kind = "update" =>
         \E n \in 0..Len(last.data) :
            /\ bin = Overlay(last.before, last.off, SubSeq(last.data, 1, n))
            /\ last.ok => n = Len(last.data)
    /\ last.kind = "record" =>
         /\ rec \in {last.before, last.data}
         /\ last.ok => Stored(last.data)

\* What read_binary and retrieve_data return is what the card holds.
ReadOutcome ==
    last.kind \in {"read", "retrieve"} /\ last.ok =>
       last.out = IF last.kind = "retrieve" THEN last.before
                  ELSE SubSeq(last.before, last.off + 1, last.off + Len(last.out))

\* The outcome a command reports is what has become of the file.
TrueOutcome == UpdateOutcome /\ ReadOutcome

\* The stored object is the one before or the new one, never a mix of the
\* pieces of two SET DATA, one of which was interrupted.
ObjectWhole ==
    /\ tlv # <<>> => Len(tlv) = tlv[1] + 1
    /\ last.kind = "set" => tlv = last.data \/ (~last.ok /\ tlv = last.before)

=============================================================================
