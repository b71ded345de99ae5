------------------------------ MODULE Bencode ------------------------------
(***************************************************************************)
(* vdht_core.c: how a be_node becomes a datagram and is parsed again.  A   *)
(* datagram is a sequence of tokens: "d", "l" and "e" are the bytes that   *)
(* open and close dictionaries and lists, and a byte string, with its      *)
(* length in front, is one token.  Two more stand for data that ends too   *)
(* early: "cut" for a byte string of which the last bytes are missing, and *)
(* "nul" for the end of the data.                                          *)
(***************************************************************************)
EXTENDS Dht, Naturals, Sequences

(* The order in which vdht.c adds the keys                                 *)
KeyOrder == <<"t", "y", "q", "r", "a", "id", "target", "node", "nodes", "m", "service">>

Mark(c)  == [mark |-> c]
Bytes(s) == [bytes |-> s]

(* The loops of be_encode: what begins with the token first, and goes on   *)
(* with the tokens of parts[1], parts[2], ..., ends with "e".              *)
Enclosed(first, parts) ==
    LET upTo[k \in 0 .. Len(parts)] ==
          IF k = 0 THEN <<first>> ELSE upTo[k - 1] \o parts[k]
    IN  Append(upTo[Len(parts)], Mark("e"))

(* be_encode, which calls itself (Encode) for the elements                 *)
EncodeList(node, Encode(_)) ==
    Enclosed(Mark("l"), [k \in DOMAIN node.l |-> Encode(node.l[k])])

EncodeDict(node, Encode(_)) ==
    Enclosed(Mark("d"),
             [k \in DOMAIN KeyOrder |->
                IF KeyOrder[k] \in DOMAIN node.d
                THEN <<Bytes(KeyOrder[k])>> \o Encode(node.d[KeyOrder[k]])
                ELSE << >>])

EncodeNode(node, Encode(_)) ==
    CASE node.type = "str"  -> <<Bytes(node.s)>>
      [] node.type = "list" -> EncodeList(node, Encode)
      [] node.type = "dict" -> EncodeDict(node, Encode)

(* A message is nested as deep as this: the message, its arguments, a list *)
(* of infos, an info.                                                      *)
EncodeInfo(node) == <<Bytes(node.s)>>
EncodeArg(node)  == EncodeNode(node, EncodeInfo)
EncodeArgs(node) == EncodeNode(node, EncodeArg)
be_encode(node)  == EncodeNode(node, EncodeArgs)

-----------------------------------------------------------------------------
(* The parser reads token by token.  The calls of _be_decode that are not  *)
(* over yet are a stack of frames, the innermost first: the list or        *)
(* dictionary that the call has read so far and, in a dictionary, the key  *)
(* whose value comes next.                                                 *)
Frame(node, key) == [node |-> node, key |-> key]

NoKey == << >>

Reading(calls) == [st |-> "reading", calls |-> calls]
Got(node)      == [st |-> "ok", node |-> node]

(* What be_decode comes to when it returns no node: it refuses the data,   *)
(* returning NULL; or it ends the program, in the assertion that there is  *)
(* data left; or its be_free is undefined, because it frees the value of a *)
(* byte string that has none yet, or goes on to an entry of a dictionary   *)
(* that was never filled in.  If the program gets over the last, it        *)
(* returns NULL.                                                           *)
Failed    == [st |-> "error"]
Aborted   == [st |-> "aborted"]
Undefined == [st |-> "undefined"]

IsBytes(token) == "bytes" \in DOMAIN token

(* Of two equal keys the first one counts (be_find_node).                  *)
Entered(d, key, node) ==
    [k \in DOMAIN d \cup {key} |-> IF k \in DOMAIN d THEN d[k] ELSE node]

(* Mutant: the key stays where it was.                                     *)
Grown_KeepKey(frame, node) ==
    IF frame.node.type = "list" THEN Frame(List(Append(frame.node.l, node)), NoKey)
    ELSE Frame(Dict(Entered(frame.node.d, frame.key[1], node)), frame.key)

(* An element or a value was read.                                         *)
Grown(frame, node) ==
    IF frame.node.type = "list" THEN Frame(List(Append(frame.node.l, node)), NoKey)
    ELSE Frame(Dict(Entered(frame.node.d, frame.key[1], node)), NoKey)

(* A call returns its node to the one before it, be_decode in the end.     *)
Return(calls, node) ==
    IF calls = << >> THEN Got(node)
    ELSE Reading(<<Grown(Head(calls), node)>> \o Tail(calls))

InDict(calls) == calls # << >> /\ Head(calls).node.type = "dict"
AtKey(calls)  == InDict(calls) /\ Head(calls).key = NoKey
AtEnd(calls)  == calls # << >> /\ (InDict(calls) => AtKey(calls))

(* _be_decode at the next token, with _be_decode_str for a key             *)
_be_decode(calls, token) ==
    IF AtEnd(calls) /\ token = Mark("e") THEN Return(Tail(calls), Head(calls).node)
    ELSE IF AtKey(calls)
    THEN IF IsBytes(token)
         THEN Reading(<<Frame(Head(calls).node, <<token.bytes>>)>> \o Tail(calls))
         ELSE Undefined
    ELSE CASE IsBytes(token)      -> Return(calls, Str(token.bytes))
           [] token = Mark("l")   -> Reading(<<Frame(List(<< >>), NoKey)>> \o calls)
           [] token = Mark("d")   -> Reading(<<Frame(Dict(<< >>), NoKey)>> \o calls)
           [] token = Mark("nul") -> Aborted
           [] token = Mark("cut") -> Undefined
           [] OTHER               -> Failed

Parsed(state, token) == IF state.st = "reading" THEN _be_decode(state.calls, token) ELSE state

(* be_decode: what follows the first node is ignored.  Behind the end of   *)
(* the data the buffer is zero, so a loop that is not over goes on there:  *)
(* the next element or value meets the assertion, the next key is NULL.    *)
be_decode(data) ==
    LET after[k \in 0 .. Len(data)] ==
          IF k = 0 THEN Reading(<< >>) ELSE Parsed(after[k - 1], data[k])
    IN  Parsed(after[Len(data)], Mark("nul"))

(* What may be there of data when it ends too early                        *)
Parts(data) ==
    {SubSeq(data, 1, k) : k \in 0 .. Len(data) - 1}
      \cup {Append(SubSeq(data, 1, k - 1), Mark("cut")) :
               k \in {j \in DOMAIN data : IsBytes(data[j])}}
=============================================================================
