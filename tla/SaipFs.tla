------------------------------- MODULE SaipFs -------------------------------
(***************************************************************************)
(* The file system of an eSIM profile being read (ProfileElementSequence   *)
(* .parse_der): every file-bearing profile element adds its files to one   *)
(* tree, below the current DF that the files before it left behind         *)
(* (FsProfileElement.add_file, ProfileElementGFM.add_file), and the file's *)
(* contents are put together from its template, its descriptor and its     *)
(* fillFileContent tuples.                                                 *)
(***************************************************************************)
EXTENDS SaipTemplates, SequencesExt

CONSTANTS
    Elements,    \* template classes whose elements a profile is made of
    MaxElements  \* bound: profile elements in the sequence

VARIABLES
    pes,      \* the elements read so far, the current one last
    added,    \* positions, in the template, of the current element's files
    nodes,    \* paths of the DFs of the tree
    base,     \* element -> path of its base DF
    cur_df,   \* pe_sequence.cur_df
    last,     \* the file added last, where, what is known and what said of it, its octets
    raised    \* an exception ended the reading

vars == <<pes, added, nodes, base, cur_df, last, raised>>

-----------------------------------------------------------------------------
(* Contents. *)

Greater(a, b) == IF a > b THEN a ELSE b

\* What an element says of a file: nothing ("empty"), octets for it ("content"), and
\* with that a size, as n records of len octets: without a file descriptor byte
\* ("bare"), with one, and with a pattern of two octets ("fill", "repeat").
NoDescriptor == {"empty", "content"}
Described == {"sized", "fill", "repeat"}

\* Bounds: the template's size, one record more, or records of two octets more; in
\* the last element that MaxElements allows every file comes with its size.
Descriptors(f) ==
    LET n == Greater(f.nb_rec, 1)
        len == Greater(f.size, 2)
        more == IF f.type \in {"LF", "CY"} THEN {n, n + 1} ELSE {n}
    IN  IF IsDF(f) THEN [kind : {"empty"}, n : {0}, len : {0}]
        ELSE IF Len(pes) = MaxElements THEN [kind : {"sized"}, n : {n}, len : {len}]
        ELSE [kind : NoDescriptor, n : {f.nb_rec}, len : {f.size}]
             \cup [kind : {"sized"}, n : more, len : {len}]
             \cup [kind : {"bare"} \cup Described, n : {n}, len : {len + 2}]

\* from_fileDescriptor looks at nothing without a file descriptor byte, and takes
\* the number of records from efFileSize only if the template has none.  (It would
\* prefer a fifth octet, which PE_Definitions.asn does not allow.)  0: None.
NbRec(f, d) == IF f.nb_rec # 0 THEN f.nb_rec ELSE IF d.kind \in Described THEN d.n ELSE 0
RecLen(f, d) == IF d.kind \in Described THEN d.len ELSE f.size

\* File.file_size
FileSize(f, d) == NbRec(f, d) * RecLen(f, d)

\* Mutant of ExpandDefault: the octets after the dots are forgotten.
ExpandDefaultPrefix(p, size) ==
    CASE p.kind = "none" -> 0
      [] p.kind \in {"lit", "rep"} -> p.pre
      [] p.kind = "dots" -> IF p.pre + p.suf >= size THEN size ELSE size - p.suf

\* expand_default_value_pattern: how many octets result
ExpandDefault(p, size) ==
    CASE p.kind = "none" -> 0
      [] p.kind \in {"lit", "rep"} -> p.pre
      [] p.kind = "dots" -> IF p.pre + p.suf >= size THEN size
                            ELSE p.pre + (size - p.pre - p.suf) + p.suf

\* ts_102_222.expand_pattern
ExpandPattern(len, repeat, size) ==
    IF repeat THEN (size \div len) * len + (size - (size \div len) * len) ELSE Greater(len, size)

\* An exception: from_tuples expands a default value to a size that is not known, or
\* neither template nor descriptor tells the type of file (FsNodeDF.add_file).
Unfit(f, d, known) ==
    \/ known /\ d.kind \in {"content", "bare"} /\ f.default.kind # "none" /\ FileSize(f, d) = 0
    \/ ~known /\ d.kind \notin Described

\* file_content_from_tuples: the pattern, or the default value, and over its
\* beginning the element's octets (bound: one).
Body(f, d) ==
    LET size == FileSize(f, d)
    IN  IF d.kind = "empty" THEN 0
        ELSE Greater(1, IF d.kind \in {"fill", "repeat"} THEN ExpandPattern(2, d.kind = "repeat", size)
                        ELSE ExpandDefault(f.default, size))

-----------------------------------------------------------------------------
(* The tree. *)

Nowhere == <<"nowhere">>
Current == pes[Len(pes)]
Have(pe) == {t \in ToSet(pes) : t # "gfm" /\ Template[t].pe = pe}
NoFile == [t |-> "none"]

Init ==
    /\ pes = <<"FilesAtMF">>
    /\ added = {1}
    /\ nodes = {<<"MF">>}
    /\ base = [t \in Elements |-> IF t = "FilesAtMF" THEN <<"MF">> ELSE Nowhere]
    /\ cur_df = <<"MF">>
    /\ last = NoFile
    /\ raised = FALSE

\* The mandatory elements an optional one needs (CheckBasicStructure)
Needs(t) == IF Template[t].pe \in {"opt-usim", "phonebook", "gsm-access", "df-5gs", "df-saip", "df-snpn", "df-5gprose"}
            THEN "usim" ELSE IF Template[t].pe = "opt-isim" THEN "isim" ELSE "mf"

\* from_der of the next element, of a type the profile does not have yet.
Element(t) ==
    /\ ~raised /\ Len(pes) < MaxElements
    /\ Have(Template[t].pe) = {} /\ Have(Needs(t)) # {}
    /\ pes' = Append(pes, t)
    /\ added' = {}
    /\ last' = NoFile
    /\ UNCHANGED <<nodes, base, cur_df, raised>>

\* FsNodeDF.add_file: an ADF goes to the root.
Place(f, df) == IF f.type = "ADF" THEN <<"MF", f.name>> ELSE Append(df, f.name)

\* File: what is known of a file without a template is what its descriptor says.
Known(t, i) == Template[t].files[i].name \notin Misnamed[t]
Taken(t, i) ==
    LET f == Template[t].files[i]
    IN  IF Known(t, i) THEN f
        ELSE [f EXCEPT !.nb_rec = IF f.type \in {"LF", "CY"} THEN 0 ELSE 1,
                       !.size = 0, !.default = None, !.ppath = 0]

\* FsProfileElement.add_file: the DF a file goes to.  A file other than the
\* base DF goes to the base DF or to the DF its ppath names there; the base
\* DF of an element with a parent goes to the parent's; all others go to
\* the current DF.
Where(t, i) ==
    LET f == Taken(t, i)
        dfs == {j \in added \ {1} : IsDF(Template[t].files[j]) /\ Template[t].files[j].fid = f.ppath}
    IN  IF Template[t].extends = "none" /\ i # 1
        THEN IF f.ppath = 0 THEN {base[t]}
             ELSE {Append(base[t], Template[t].files[j].name) : j \in dfs}
        ELSE IF Template[t].parent # "none" THEN {base[e] : e \in Have(Template[t].parent)}
        ELSE {cur_df}

\* pe2files: the next file of the current element.  Bound: one EF is looked
\* at between two DFs, no DF is left out, and EF.PBC, which no template has, is.
Coming ==
    IF Current = "gfm" THEN {}
    ELSE {i \in NamedIn[Current] : /\ \A j \in added : j < i
                                   /\ \A j \in DFsIn[Current] \ added : j >= i
                                   /\ i \in DFsIn[Current] \/ added \subseteq DFsIn[Current]}

\* File and add_file, under the name the element has for it.
AddFile(i, d) ==
    LET t == Current
        f == Taken(t, i)
        fits == ~Unfit(f, d, Known(t, i))
    IN  /\ ~raised
        /\ added' = (added \cap DFsIn[t]) \cup {i}
        /\ raised' = ~(fits /\ Where(t, i) # {})
        /\ IF raised' THEN UNCHANGED <<nodes, base, cur_df, last>>
           ELSE \E df \in Where(t, i) :
                  LET path == Place(f, df)
                  IN  /\ nodes' = IF IsDF(f) THEN nodes \cup {path} ELSE nodes
                      /\ base' = IF i = 1 /\ IsDF(f) THEN [base EXCEPT ![t] = path] ELSE base
                      /\ cur_df' = IF IsDF(f) THEN path ELSE df
                      /\ last' = [t |-> t, i |-> i, at |-> Front(path), f |-> f, d |-> d, body |-> Body(f, d)]
        /\ UNCHANGED pes

\* ProfileElementGFM.pe2files: a file at any path that exists already.
Gfm(df, type) ==
    /\ ~raised /\ Len(pes) < MaxElements /\ "gfm" \notin ToSet(pes)
    /\ pes' = Append(pes, "gfm")
    /\ added' = {}
    /\ cur_df' = IF type = "DF" THEN Append(df, "DF.NEW") ELSE df
    /\ nodes' = IF type = "DF" THEN nodes \cup {Append(df, "DF.NEW")} ELSE nodes
    /\ last' = NoFile
    /\ UNCHANGED <<base, raised>>

Next ==
    \/ \E t \in Elements : Element(t)
    \/ \E i \in Coming : \E d \in Descriptors(Template[Current].files[i]) : AddFile(i, d)
    \/ \E df \in nodes, type \in {"DF", "EF"} : Gfm(df, type)

Spec == Init /\ [][Next]_vars

-----------------------------------------------------------------------------

\* The path of a file in its template (FileTemplate.path), from the base DF
Path(t, i) ==
    LET up == Parents[t][i]
    IN  IF up \in {0, 1} THEN <<>> ELSE <<Template[t].files[up].name>>

\* The two ways of telling where a file is agree: the tree that the template
\* class built from the order of its files, and the place that add_file
\* found by the parent path, whatever elements came before.  A file found under
\* no name has no parent path and stays in the base DF, wherever it belongs.
PlacedByTemplate ==
    last.t # "none" /\ Template[last.t].extends = "none" /\ last.i # 1
       => last.at = base[last.t] \o (IF Known(last.t, last.i) THEN Path(last.t, last.i) ELSE <<>>)

\* A size that from_fileDescriptor overlooks: without a file descriptor byte any,
\* and another number of records than the template's.
Overlooked(f, d) ==
    /\ <<d.n, d.len>> # <<f.nb_rec, f.size>>
    /\ d.kind = "bare" \/ f.nb_rec \notin {0, d.n}

\* A file is filled to the last octet of the size that its element or its template
\* declares, and not beyond it, if it has a pattern for its contents, or a default
\* of a fixed length and no other size; unless the size is overlooked
\* (expand_default_value_pattern, file_content_from_tuples).
FilledWhole ==
    last.t # "none" /\ last.d.kind # "empty" /\ ~Overlooked(last.f, last.d)
    /\ (\/ last.d.kind \in {"fill", "repeat"} \/ last.f.default.kind = "dots"
        \/ last.d.kind = "content" /\ last.f.default.kind = "lit")
       => last.body = last.d.n * last.d.len

\* What one would expect instead of the two.
AllPlaced ==
    last.t # "none" /\ Template[last.t].extends = "none" /\ last.i # 1
       => last.at = base[last.t] \o Path(last.t, last.i)
SizeKept ==
    last.t # "none" /\ last.d.kind # "empty"
       => FileSize(last.f, last.d) = last.d.n * last.d.len

\* FileTemplate: ppath is "the intermediate path between the base_df of the
\* ProfileTemplate and this file", so a file is always found a DF.
Readable == ~raised

=============================================================================
