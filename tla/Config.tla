------------------------------- MODULE Config -------------------------------
(***************************************************************************)
(* The configuration file of the daemon: its parser and the settings that  *)
(* are read from the items (vcfg.c).                                       *)
(*                                                                         *)
(* A file is a sequence of tokens [c, ...]: one of the characters          *)
(* { } [ ] ( ) : ; a new line ("nl"), a blank ("sp"), or the characters up *)
(* to the next of these: letters or digits only ("word", "num" for a       *)
(* number n, "tmo" for a number n with the suffix unit), or with some of   *)
(* "/", "." and "_" among them ("path" if the first one is "/" or ".",     *)
(* "name" if it is a letter or a digit).  The words of a key are joined by *)
(* "_" in the code; here a key is the sequence of them.                    *)
(*                                                                         *)
(* Status "undefined" stands for the two places where the code leaves its  *)
(* buffers: strchr finds the end of the text in any set of characters, so  *)
(* that eating blanks or new lines does not stop there; and the blanks of  *)
(* a value of several words are written but not counted.                   *)
(***************************************************************************)
EXTENDS Naturals, Sequences

CONSTANT MaxKeyWords   \* bound on keys, in place of their 30 characters

ASSUME ConfigAssumption == MaxKeyWords \in Nat

Alnum(t)     == t.c \in {"word", "num", "tmo"}
ValueChar(t) == Alnum(t) \/ t.c \in {"name", "path"}

Blanks == {"sp"}
Space  == {"sp", "nl"}

-----------------------------------------------------------------------------
(* The parser reads token by token.  The calls of _aux_parse_dict, list    *)
(* and tuple that are not over yet are a stack, the innermost first: each  *)
(* has a key, the words of it, and the items that it has read.  A call is  *)
(* in its own loop ("loop") or in an inner one, which has a name here; the *)
(* last two of these collect words.                                        *)
NoKey == <<>>

Block(type, key, items) == [type |-> type, key |-> key, items |-> items]

Reading(calls, doing, words) ==
    [st |-> "reading", calls |-> calls, doing |-> doing, words |-> words]
InLoop(calls) == Reading(calls, "loop", <<>>)

Ok(item)  == [st |-> "ok", item |-> item]
Failed    == [st |-> "error"]
Undefined == [st |-> "undefined"]

(* Mutant: only the mark of a comment is eaten.                            *)
Eats_Mark(doing, token) ==
    CASE doing \in {"blanks", "delimiter"} -> token.c \in Blanks
      [] doing \in {"newline", "endings"}  -> token.c \in Space
      [] doing = "key" -> token.c \notin {";", ":", "nl", "{", "}", "[", "]", "(", ")"}
      [] doing = "val" -> token.c \notin {";", ":", "nl", "}", "]", ")"}
      [] OTHER -> FALSE

(* The inner loops: _aux_eat_blanks, delimiter, newline, endings and       *)
(* comments, those of _aux_create_key and _aux_create_val                  *)
Eats(doing, token) ==
    CASE doing \in {"blanks", "delimiter"} -> token.c \in Blanks
      [] doing \in {"newline", "endings"}  -> token.c \in Space
      [] doing = "comment" -> token.c # "nl"
      [] doing = "key" -> token.c \notin {";", ":", "nl", "{", "}", "[", "]", "(", ")"}
      [] doing = "val" -> token.c \notin {";", ":", "nl", "}", "]", ")"}
      [] OTHER -> FALSE

Collected(doing, words, token) ==
    IF doing \in {"key", "val"} /\ token.c \notin Blanks THEN Append(words, token) ELSE words

(* An item of a tuple, a list or a dictionary was read.                    *)
Str(t)     == [type |-> "str", s |-> t]
Item(call) == [type |-> call.type, items |-> call.items]

Added(call, item) ==
    IF call.type = "dict" THEN Block("dict", NoKey, Append(call.items, <<call.key, item>>))
    ELSE Block(call.type, call.key, Append(call.items, item))

Returned(calls, item) == <<Added(Head(calls), item)>> \o Tail(calls)

(* The end of _aux_create_key: the keys of a list are all the same.        *)
CreateKey(calls, words) ==
    LET call == Head(calls)
    IN  IF \/ Len(words) > MaxKeyWords \/ \E k \in DOMAIN words : ~Alnum(words[k])
           \/ call.type = "list" /\ call.key \notin {NoKey, words}
        THEN Failed
        ELSE InLoop(<<Block(call.type, words, call.items)>> \o Tail(calls))

(* The end of _aux_create_val and _aux_parse_str                           *)
ParseStr(calls, words) ==
    IF \E k \in DOMAIN words : ~ValueChar(words[k]) THEN Failed
    ELSE IF Len(words) > 1 THEN Undefined
    ELSE InLoop(Returned(calls, Str(words[1])))

(* The inner loop is over.                                                 *)
Over(s) ==
    CASE s.doing = "key" -> CreateKey(s.calls, s.words)
      [] s.doing = "val" -> ParseStr(s.calls, s.words)
      [] OTHER           -> InLoop(s.calls)

(* A call ends with its bracket, and with that of the file's dictionary    *)
(* ends the file.                                                          *)
Bracket == [dict |-> "}", list |-> "]", tuple |-> ")"]

Closed(calls) ==
    IF Len(calls) = 1 THEN Ok(Item(Head(calls)))
    ELSE Reading(Returned(Tail(calls), Item(Head(calls))), "endings", <<>>)

Opened(c) ==
    CASE c = "{" -> Block("dict", NoKey, <<>>)
      [] c = "[" -> Block("list", NoKey, <<>>)
      [] c = "(" -> Block("tuple", NoKey, <<>>)

(* What begins a key or a value                                            *)
BeginsWord(call, token) ==
    Alnum(token) \/ token.c = "name" \/ (call.type = "dict" /\ token.c = "path")

(* The token is the next one in the loop of _aux_parse_dict, list or       *)
(* tuple.  Without a key, a block in a dictionary ends the program         *)
(* (vassert).                                                              *)
Loop(calls, token) ==
    LET call  == Head(calls)
        keyed == call.type = "dict" => call.key # NoKey
    IN  CASE token.c = "sp" -> Reading(calls, "blanks", <<>>)
          [] token.c = "nl" -> Reading(calls, "newline", <<>>)
          [] token.c = Bracket[call.type] -> Closed(calls)
          [] token.c = ";" /\ call.type # "tuple" -> Reading(calls, "comment", <<>>)
          [] token.c = ":" /\ call.type # "tuple" /\ keyed -> Reading(calls, "delimiter", <<>>)
          [] token.c \in {"{", "[", "("} /\ call.type # "tuple" /\ keyed ->
               InLoop(<<Opened(token.c)>> \o calls)
          [] BeginsWord(call, token) ->
               Reading(calls, IF call.type = "tuple" \/ (call.type = "dict" /\ keyed) THEN "val" ELSE "key",
                       <<token>>)
          [] OTHER -> Failed

Parsed(s, token) ==
    IF s.st # "reading" THEN s
    ELSE IF Eats(s.doing, token) THEN Reading(s.calls, s.doing, Collected(s.doing, s.words, token))
    ELSE LET next == Over(s) IN IF next.st = "reading" THEN Loop(next.calls, token) ELSE next

(* The calls return as they are.                                           *)
AllClosed(calls) ==
    LET item[k \in 1 .. Len(calls)] ==
          Item(IF k = 1 THEN calls[1] ELSE Added(calls[k], item[k - 1]))
    IN  item[Len(calls)]

(* At the end of the text                                                  *)
AtEnd(s) ==
    IF s.st # "reading" THEN s
    ELSE IF s.doing \in {"blanks", "newline"} THEN Undefined
    ELSE LET next == Over(s) IN IF next.st = "reading" THEN Ok(AllClosed(next.calls)) ELSE next

(* _vcfg_parse                                                             *)
Parse(text) ==
    LET after[k \in 0 .. Len(text)] ==
          IF k = 0 THEN InLoop(<<Block("dict", NoKey, <<>>)>>) ELSE Parsed(after[k - 1], text[k])
    IN  AtEnd(after[Len(text)])

-----------------------------------------------------------------------------
(* The settings                                                            *)

Word(w)    == [c |-> "word", s |-> w]
Key(words) == [k \in DOMAIN words |-> Word(words[k])]

None == [type |-> "none"]

(* vcfg_item_get on a dictionary: the first item with the key              *)
Lookup(item, key) ==
    LET at == {k \in DOMAIN item.items : item.items[k][1] = key}
    IN  IF at = {} THEN None ELSE item.items[CHOOSE k \in at : \A j \in at : k =< j][2]

(* _aux_get_cfg_item for "section.key"                                     *)
GetItem(dict, section, key) ==
    LET sub == Lookup(dict, Key(<<section>>))
    IN  IF sub.type = "dict" THEN Lookup(sub, Key(key)) ELSE None

(* _vcfg_get_str_val and the default of the caller                         *)
GetStr(dict, section, key, default) ==
    LET item == GetItem(dict, section, key)
    IN  IF item.type = "str" THEN item.s ELSE default

(* _vcfg_get_int_val and the default of the caller                         *)
GetInt(dict, section, key, default) ==
    LET item == GetItem(dict, section, key)
    IN  IF item.type = "str" /\ item.s.c = "num" THEN item.s.n ELSE default

(* _vcfg_get_host_tick_tmo and its like: a number of seconds or minutes    *)
GetTmo(dict, section, key, default) ==
    LET item == GetItem(dict, section, key)
    IN  IF item.type = "str" /\ item.s.c = "tmo" THEN item.s.n * (IF item.s.unit = "m" THEN 60 ELSE 1)
        ELSE default

(* _vcfg_get_tuple_val: the strings of a tuple                             *)
GetTuple(dict, section, key) ==
    LET item == GetItem(dict, section, key)
    IN  IF item.type = "tuple" THEN [k \in DOMAIN item.items |-> item.items[k].s] ELSE <<>>

(* _vcfg_load_boot_nodes: host, port and protocol of each; others are      *)
(* passed over.                                                            *)
BootNodes(dict) ==
    LET item == Lookup(dict, Key(<<"boot">>))
        l    == IF item.type = "list" THEN SelectSeq(item.items, LAMBDA x : Len(x.items) >= 3) ELSE <<>>
    IN  [k \in DOMAIN l |-> <<l[k].items[1].s, l[k].items[2].s, l[k].items[3].s>>]

(* _vcfg_get_dht_address: address and port, none if there are not both     *)
DhtAddress(dict) ==
    LET t == GetTuple(dict, "dht", <<"address">>)
    IN  IF Len(t) >= 2 THEN <<t[1], t[2]>> ELSE <<>>

Path(name) == [c |-> "path", s |-> name]
Name(name) == [c |-> "name", s |-> name]

(* The names of messages that vdht_get_dhtId_by_desc finds                 *)
Messages ==
    {Word(w) : w \in {"ping", "reflex", "probe"}} \cup
    {Name(w) : w \in {"ping_rsp", "find_node", "find_node_rsp", "find_closest_nodes",
                      "find_closest_nodes_rsp", "reflex_rsp", "probe_rsp", "post_service",
                      "find_service", "find_service_rsp"}}

(* _aux_route_load_proto_caps: the messages to send, up to an unknown one  *)
ProtoCaps(dict) ==
    LET t == GetTuple(dict, "dht", <<"protocol">>)
    IN  IF GetItem(dict, "dht", <<"protocol">>).type # "tuple" THEN {Word("ping"), Name("ping_rsp")}
        ELSE {t[k] : k \in {j \in DOMAIN t : \A i \in 1 .. j : t[i] \in Messages}}

(* All that the daemon's parts ask for: cfg_ext_ops                        *)
Settings(dict) ==
    [pid_file     |-> GetStr(dict, "global", <<"pid", "file">>, Path("/var/run/vdht/vdhtd.pid")),
     syslog       |-> GetInt(dict, "global", <<"syslog">>, 1),
     syslog_ident |-> GetStr(dict, "global", <<"syslog", "ident">>, Word("vdhtd")),
     unix_path    |-> GetStr(dict, "lsctl", <<"unix", "path">>, Path("/var/run/vdht/lsctl_socket")),
     boot         |-> BootNodes(dict),
     tick_tmo     |-> GetTmo(dict, "host", <<"tick", "timeout">>, 5),
     wb_tmo       |-> GetTmo(dict, "host", <<"writeback", "timeout">>, 60),
     db_file      |-> GetStr(dict, "host", <<"db", "file">>, Name("vdht.db")),
     bucket_sz    |-> GetInt(dict, "route", <<"bucket", "size">>, 10),
     max_next_tmo |-> GetTmo(dict, "route", <<"max", "next", "tmo">>, 60),
     address      |-> DhtAddress(dict),
     caps         |-> ProtoCaps(dict)]

(* _vcfg_parse and the getters: the settings of a file, if it is one       *)
FileSettings(text) == LET r == Parse(text) IN IF r.st = "ok" THEN Settings(r.item) ELSE <<>>
=============================================================================
