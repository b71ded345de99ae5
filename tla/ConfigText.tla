----------------------------- MODULE ConfigText -----------------------------
(***************************************************************************)
(* How a configuration file is written: the layout of vdht.conf and its    *)
(* like, with all the freedom that an author has in blanks, new lines and  *)
(* comments.  A layout is a record; its text is what the parser of module  *)
(* Config reads, and its item is what the author means.                    *)
(***************************************************************************)
EXTENDS Config, SequencesExt

Ch(c) == [c |-> c]

IsSeq(s) == s \in Seq(ToSet(s))

(* A comment goes from its mark to the end of the line.                    *)
InComment(s, k) == \E i \in 1 .. k : s[i].c = ";" /\ \A j \in i .. k : s[j].c # "nl"

AreBlanks(s) == IsSeq(s) /\ \A k \in DOMAIN s : s[k].c \in Blanks
AreSpaces(s) == IsSeq(s) /\ \A k \in DOMAIN s : s[k].c \in Space
IsGap(s)     == /\ IsSeq(s) /\ ~InComment(s, Len(s))
                /\ \A k \in DOMAIN s : s[k].c \in Space \/ InComment(s, k)

-----------------------------------------------------------------------------
(* A key [words, blanks], with blanks after each word, and its colon       *)
IsKey(key) ==
    /\ IsSeq(key.words) /\ Len(key.words) \in 1 .. MaxKeyWords
    /\ \A k \in DOMAIN key.words : Alnum(key.words[k]) /\ AreBlanks(key.blanks[k])

KeyText(key) ==
    FlattenSeq([k \in DOMAIN key.words |-> <<key.words[k]>> \o key.blanks[k]]) \o <<Ch(":")>>

(* A string [word, blanks, after]: a comment or a new line ends it.        *)
IsStr(v) ==
    /\ ValueChar(v.word) /\ AreBlanks(v.blanks)
    /\ IsGap(v.after) /\ v.after # <<>> /\ v.after[1].c \notin Blanks

StrText(v) == <<v.word>> \o v.blanks \o v.after

(* A tuple [start, strs, after]: one string a line, without comments       *)
IsTuple(v) ==
    /\ AreSpaces(v.start) /\ IsSeq(v.strs) /\ IsGap(v.after)
    /\ \A k \in DOMAIN v.strs :
         IsStr(v.strs[k]) /\ v.strs[k].word.c # "path" /\ AreSpaces(v.strs[k].after)

TupleText(v) ==
    <<Ch("(")>> \o v.start \o FlattenSeq([k \in DOMAIN v.strs |-> StrText(v.strs[k])])
    \o <<Ch(")")>> \o v.after

TupleItem(v) == [type |-> "tuple", items |-> [k \in DOMAIN v.strs |-> Str(v.strs[k].word)]]

(* A value inside of a section: a string or a tuple                        *)
IsLeaf(v)   == (v.type = "str" /\ IsStr(v)) \/ (v.type = "tuple" /\ IsTuple(v))
LeafText(v) == IF v.type = "str" THEN StrText(v) ELSE TupleText(v)
LeafItem(v) == IF v.type = "str" THEN Str(v.word) ELSE TupleItem(v)

-----------------------------------------------------------------------------
(* An entry [key, between, value] of a list or a dictionary                *)
IsEntry(e) == IsKey(e.key) /\ IsGap(e.between)

EntryText(e, text) == KeyText(e.key) \o e.between \o text

(* A block [start, entries, after] of entries with strings or tuples       *)
IsBlock(v) ==
    /\ IsGap(v.start) /\ IsSeq(v.entries) /\ IsGap(v.after)
    /\ \A k \in DOMAIN v.entries : IsEntry(v.entries[k]) /\ IsLeaf(v.entries[k].value)

BlockText(v, open, close) ==
    <<Ch(open)>> \o v.start
    \o FlattenSeq([k \in DOMAIN v.entries |-> EntryText(v.entries[k], LeafText(v.entries[k].value))])
    \o <<Ch(close)>> \o v.after

(* A list: tuples with the same key                                        *)
IsList(v) ==
    /\ IsBlock(v)
    /\ \A k \in DOMAIN v.entries : /\ v.entries[k].value.type = "tuple"
                                   /\ v.entries[k].key.words = v.entries[1].key.words

ListItem(v) == [type |-> "list", items |-> [k \in DOMAIN v.entries |-> LeafItem(v.entries[k].value)]]

DictItem(v) ==
    [type |-> "dict",
     items |-> [k \in DOMAIN v.entries |-> <<v.entries[k].key.words, LeafItem(v.entries[k].value)>>]]

(* What a key of the file stands for                                       *)
IsSection(v) == \/ v.type = "list" /\ IsList(v)
                \/ v.type = "dict" /\ IsBlock(v)
                \/ IsLeaf(v)

SectionText(v) ==
    CASE v.type = "list" -> BlockText(v, "[", "]")
      [] v.type = "dict" -> BlockText(v, "{", "}")
      [] OTHER           -> LeafText(v)

SectionItem(v) ==
    CASE v.type = "list" -> ListItem(v)
      [] v.type = "dict" -> DictItem(v)
      [] OTHER           -> LeafItem(v)

(* A file [start, entries]: it ends with a bracket and spaces.             *)
IsFile(f) ==
    /\ IsGap(f.start) /\ IsSeq(f.entries) /\ f.entries # <<>>
    /\ \A k \in DOMAIN f.entries : IsEntry(f.entries[k]) /\ IsSection(f.entries[k].value)
    /\ LET last == f.entries[Len(f.entries)].value
       IN  last.type # "str" /\ AreSpaces(last.after)

FileText(f) ==
    f.start \o FlattenSeq([k \in DOMAIN f.entries |->
                             EntryText(f.entries[k], SectionText(f.entries[k].value))])

FileItem(f) ==
    [type |-> "dict",
     items |-> [k \in DOMAIN f.entries |-> <<f.entries[k].key.words, SectionItem(f.entries[k].value)>>]]
=============================================================================
