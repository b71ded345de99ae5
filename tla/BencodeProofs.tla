--------------------------- MODULE BencodeProofs ---------------------------
(***************************************************************************)
(* Proofs about vdht_core.c: the parser reads what the encoder writes, for *)
(* messages of any content, and takes no part of a message for a message:  *)
(* where data ends too early it refuses nothing, but ends the program or   *)
(* frees what was never set.                                               *)
(***************************************************************************)
EXTENDS Bencode, Induction

(* A sequence of anything                                                  *)
IsSeq(s) == \E X : s \in Seq(X)

(* The states of the parser while it reads tokens, from state from to to   *)
IsParse(r, from, tokens, to) ==
    /\ r = [k \in 0 .. Len(tokens) |-> r[k]]
    /\ r[0] = from /\ r[Len(tokens)] = to
    /\ \A k \in 1 .. Len(tokens) : r[k - 1].st = "reading" /\ r[k] = Parsed(r[k - 1], tokens[k])

(* The tokens take the parser from one state to the other, and it is not   *)
(* done before the last one.                                               *)
Leads(from, tokens, to) == IsSeq(tokens) /\ \E r : IsParse(r, from, tokens, to)

(* The calls of _be_decode of which the last one is about to read a node   *)
Expecting(calls) == IsSeq(calls) /\ ~AtKey(calls)

(* Wherever the parser expects a node, the tokens are read as this one.    *)
ReadAs(tokens, node) ==
    \A calls : Expecting(calls) => Leads(Reading(calls), tokens, Return(calls, node))

-----------------------------------------------------------------------------
(* Sequences of anything                                                   *)

LEMMA SeqConcat ==
    ASSUME NEW s, IsSeq(s), NEW t, IsSeq(t)
    PROVE  /\ IsSeq(s \o t) /\ Len(s) \in Nat /\ Len(t) \in Nat
           /\ Len(s \o t) = Len(s) + Len(t)
           /\ \A k \in 1 .. Len(s) : (s \o t)[k] = s[k]
           /\ \A k \in 1 .. Len(t) : (s \o t)[Len(s) + k] = t[k]
<1>1. PICK X : s \in Seq(X)
  BY DEF IsSeq
<1>2. PICK Y : t \in Seq(Y)
  BY DEF IsSeq
<1>3. s \in Seq(X \cup Y) /\ t \in Seq(X \cup Y)
  BY <1>1, <1>2
<1> QED
  BY <1>3 DEF IsSeq

LEMMA SeqOne == \A x : IsSeq(<<x>>) /\ Len(<<x>>) = 1 /\ <<x>>[1] = x
<1>1. \A x : <<x>> \in Seq({x})
  OBVIOUS
<1> QED
  BY <1>1 DEF IsSeq

LEMMA SeqNone == IsSeq(<< >>) /\ Len(<< >>) = 0
<1>1. << >> \in Seq({})
  OBVIOUS
<1> QED
  BY <1>1 DEF IsSeq

(* One more call in front of the others                                    *)
LEMMA SeqPush ==
    ASSUME NEW x, NEW s, IsSeq(s)
    PROVE  /\ IsSeq(<<x>> \o s) /\ <<x>> \o s # << >>
           /\ Head(<<x>> \o s) = x /\ Tail(<<x>> \o s) = s
<1>1. PICK X : s \in Seq(X)
  BY DEF IsSeq
<1>2. s \in Seq(X \cup {x}) /\ <<x>> \in Seq(X \cup {x})
  BY <1>1
<1> QED
  BY <1>2 DEF IsSeq

-----------------------------------------------------------------------------
(* Nothing is read.                                                        *)
LEMMA LeadsNowhere == \A s : Leads(s, << >>, s)
<1> SUFFICES ASSUME NEW s PROVE Leads(s, << >>, s)
  OBVIOUS
<1>1. IsParse([k \in 0 .. 0 |-> s], s, << >>, s)
  BY SeqNone DEF IsParse
<1> QED
  BY <1>1, SeqNone DEF Leads

(* One token                                                               *)
LEMMA LeadsOne ==
    ASSUME NEW calls, NEW token
    PROVE  Leads(Reading(calls), <<token>>, _be_decode(calls, token))
<1> DEFINE from == Reading(calls)
           to   == _be_decode(calls, token)
           r    == [k \in 0 .. 1 |-> IF k = 0 THEN from ELSE to]
<1>1. from.st = "reading" /\ Parsed(from, token) = to
  BY DEF Parsed, Reading
<1> HIDE DEF from, to
<1>2. IsParse(r, from, <<token>>, to)
  BY <1>1, SeqOne DEF IsParse
<1>3. Leads(from, <<token>>, to)
  BY <1>2, SeqOne DEF Leads
<1> QED
  BY <1>3 DEF from, to

(* First some tokens, then others                                          *)
LEMMA LeadsOn ==
    ASSUME NEW from, NEW s, NEW mid, NEW t, NEW to,
           Leads(from, s, mid), Leads(mid, t, to)
    PROVE  Leads(from, s \o t, to)
<1>1. PICK p : IsParse(p, from, s, mid)
  BY DEF Leads
<1>2. PICK q : IsParse(q, mid, t, to)
  BY DEF Leads
<1> DEFINE m == Len(s)
           n == Len(t)
           r == [k \in 0 .. m + n |-> IF k =< m THEN p[k] ELSE q[k - m]]
<1>0. IsSeq(s) /\ IsSeq(t)
  BY DEF Leads
<1>3. /\ IsSeq(s \o t) /\ m \in Nat /\ n \in Nat /\ Len(s \o t) = m + n
      /\ \A k \in 1 .. m : (s \o t)[k] = s[k]
      /\ \A k \in 1 .. n : (s \o t)[m + k] = t[k]
  BY <1>0, SeqConcat
<1> HIDE DEF m, n
<1>4. r[0] = from
  BY <1>1, <1>3 DEF IsParse
<1>5. p[m] = mid /\ q[0] = mid /\ q[n] = to
  BY <1>1, <1>2 DEF IsParse, m, n
<1>6. r[m + n] = to
  BY <1>3, <1>5
<1>7. ASSUME NEW k \in 1 .. m + n
      PROVE  r[k - 1].st = "reading" /\ r[k] = Parsed(r[k - 1], (s \o t)[k])
  <2>1. CASE k =< m
    <3>1. k \in 1 .. m /\ r[k - 1] = p[k - 1] /\ r[k] = p[k]
      BY <1>3, <2>1
    <3>2. p[k - 1].st = "reading" /\ p[k] = Parsed(p[k - 1], s[k])
      BY <1>1, <3>1 DEF IsParse, m
    <3> QED
      BY <1>3, <3>1, <3>2
  <2>2. CASE ~(k =< m)
    <3>1. PICK j \in 1 .. n : k = m + j
      <4>1. k - m \in 1 .. n /\ k = m + (k - m)
        BY <1>3, <2>2
      <4> QED
        BY <4>1
    <3>2. r[k] = q[j] /\ r[k - 1] = q[j - 1]
      BY <1>3, <1>5, <3>1
    <3>3. q[j - 1].st = "reading" /\ q[j] = Parsed(q[j - 1], t[j])
      BY <1>2, <3>1 DEF IsParse, n
    <3> QED
      BY <1>3, <3>1, <3>2, <3>3
  <2> QED
    BY <2>1, <2>2
<1>8. IsParse(r, from, s \o t, to)
  BY <1>3, <1>4, <1>6, <1>7 DEF IsParse
<1> QED
  BY <1>3, <1>8 DEF Leads
-----------------------------------------------------------------------------
(* The recursive functions of the module                                   *)

(* What the encoder's loop has written after each part                     *)
IsUpTo(f, first, parts, n) ==
    f = [k \in 0 .. n |-> IF k = 0 THEN <<first>> ELSE f[k - 1] \o parts[k]]

(* The parser's state after each token                                     *)
IsAfter(f, data, n) ==
    f = [k \in 0 .. n |-> IF k = 0 THEN Reading(<< >>) ELSE Parsed(f[k - 1], data[k])]

LEMMA UpToExists ==
    ASSUME NEW first, NEW parts
    PROVE  \A n \in Nat : \E f : IsUpTo(f, first, parts, n)
<1> DEFINE N == {n \in Nat : \E f : IsUpTo(f, first, parts, n)}
<1>1. 0 \in N
  <2>1. IsUpTo([k \in 0 .. 0 |-> <<first>>], first, parts, 0)
    BY DEF IsUpTo
  <2> QED
    BY <2>1
<1>2. ASSUME NEW n \in N PROVE n + 1 \in N
  <2>1. PICK f : IsUpTo(f, first, parts, n)
    OBVIOUS
  <2> DEFINE g == [k \in 0 .. n + 1 |-> IF k = n + 1 THEN f[n] \o parts[n + 1] ELSE f[k]]
  <2>2. \A k \in 0 .. n : g[k] = f[k]
    OBVIOUS
  <2>3. \A k \in 0 .. n : f[k] = IF k = 0 THEN <<first>> ELSE f[k - 1] \o parts[k]
    BY <2>1 DEF IsUpTo
  <2>4. \A k \in 0 .. n + 1 : g[k] = IF k = 0 THEN <<first>> ELSE g[k - 1] \o parts[k]
    BY <2>2, <2>3
  <2> HIDE DEF g
  <2>5. g = [k \in 0 .. n + 1 |-> g[k]]
    BY DEF g
  <2>6. IsUpTo(g, first, parts, n + 1)
    BY <2>4, <2>5 DEF IsUpTo
  <2> QED
    BY <2>6
<1>3. N \in SUBSET Nat
  OBVIOUS
<1> HIDE DEF N
<1>4. N = Nat
  BY <1>1, <1>2, <1>3, SetInduction
<1> QED
  BY <1>4 DEF N

LEMMA AfterExists ==
    ASSUME NEW data
    PROVE  \A n \in Nat : \E f : IsAfter(f, data, n)
<1> DEFINE N == {n \in Nat : \E f : IsAfter(f, data, n)}
<1>1. 0 \in N
  <2>1. IsAfter([k \in 0 .. 0 |-> Reading(<< >>)], data, 0)
    BY DEF IsAfter
  <2> QED
    BY <2>1
<1>2. ASSUME NEW n \in N PROVE n + 1 \in N
  <2>1. PICK f : IsAfter(f, data, n)
    OBVIOUS
  <2> DEFINE g == [k \in 0 .. n + 1 |-> IF k = n + 1 THEN Parsed(f[n], data[n + 1]) ELSE f[k]]
  <2>2. \A k \in 0 .. n : g[k] = f[k]
    OBVIOUS
  <2>3. \A k \in 0 .. n : f[k] = IF k = 0 THEN Reading(<< >>) ELSE Parsed(f[k - 1], data[k])
    BY <2>1 DEF IsAfter
  <2>4. \A k \in 0 .. n + 1 : g[k] = IF k = 0 THEN Reading(<< >>) ELSE Parsed(g[k - 1], data[k])
    BY <2>2, <2>3
  <2> HIDE DEF g
  <2>5. g = [k \in 0 .. n + 1 |-> g[k]]
    BY DEF g
  <2>6. IsAfter(g, data, n + 1)
    BY <2>4, <2>5 DEF IsAfter
  <2> QED
    BY <2>6
<1>3. N \in SUBSET Nat
  OBVIOUS
<1> HIDE DEF N
<1>4. N = Nat
  BY <1>1, <1>2, <1>3, SetInduction
<1> QED
  BY <1>4 DEF N

(* What be_encode writes of a list or a dictionary: f is the data so far.  *)
LEMMA EnclosedIs ==
    ASSUME NEW first, NEW parts, Len(parts) \in Nat
    PROVE  \E f : /\ IsUpTo(f, first, parts, Len(parts))
                  /\ Enclosed(first, parts) = Append(f[Len(parts)], Mark("e"))
<1> DEFINE f == CHOOSE f : IsUpTo(f, first, parts, Len(parts))
<1>1. IsUpTo(f, first, parts, Len(parts))
  BY UpToExists
<1>2. Enclosed(first, parts) = Append(f[Len(parts)], Mark("e"))
  BY DEF Enclosed, IsUpTo
<1> QED
  BY <1>1, <1>2

(* be_decode at the end of the data                                        *)
LEMMA DecodedIs ==
    ASSUME NEW data, Len(data) \in Nat
    PROVE  \E f : /\ IsAfter(f, data, Len(data))
                  /\ be_decode(data) = Parsed(f[Len(data)], Mark("nul"))
<1> DEFINE f == CHOOSE f : IsAfter(f, data, Len(data))
<1>1. IsAfter(f, data, Len(data))
  BY AfterExists
<1>2. be_decode(data) = Parsed(f[Len(data)], Mark("nul"))
  BY DEF be_decode, IsAfter
<1> QED
  BY <1>1, <1>2
-----------------------------------------------------------------------------
(* One step of the parser                                                  *)

LEMMA TokenKinds ==
    /\ \A s : IsBytes(Bytes(s)) /\ Bytes(s).bytes = s
    /\ \A c : ~IsBytes(Mark(c))
    /\ \A c, e : Mark(c) = Mark(e) => c = e
    /\ \A s, c : Bytes(s) # Mark(c)
<1>1. \A s : IsBytes(Bytes(s)) /\ Bytes(s).bytes = s
  BY DEF IsBytes, Bytes
<1>2. \A c : ~IsBytes(Mark(c))
  BY DEF IsBytes, Mark
<1>3. \A c, e : Mark(c) = Mark(e) => c = e
  <2>1. \A c : Mark(c).mark = c
    BY DEF Mark
  <2> QED
    BY <2>1
<1>4. \A s, c : Bytes(s) # Mark(c)
  BY <1>1, <1>2
<1> QED
  BY <1>1, <1>2, <1>3, <1>4

(* A byte string                                                           *)
LEMMA StrRead == \A s : ReadAs(<<Bytes(s)>>, Str(s))
<1> SUFFICES ASSUME NEW s, NEW calls, Expecting(calls)
             PROVE  Leads(Reading(calls), <<Bytes(s)>>, Return(calls, Str(s)))
  BY DEF ReadAs
<1>1. _be_decode(calls, Bytes(s)) = Return(calls, Str(s))
  BY TokenKinds DEF _be_decode, Expecting
<1> QED
  BY <1>1, LeadsOne

(* The beginning of a list or a dictionary                                 *)
LEMMA Opened ==
    ASSUME NEW calls, Expecting(calls)
    PROVE  /\ Leads(Reading(calls), <<Mark("l")>>, Reading(<<Frame(List(<< >>), NoKey)>> \o calls))
           /\ Leads(Reading(calls), <<Mark("d")>>, Reading(<<Frame(Dict(<< >>), NoKey)>> \o calls))
<1>1. _be_decode(calls, Mark("l")) = Reading(<<Frame(List(<< >>), NoKey)>> \o calls)
  BY TokenKinds DEF _be_decode, Expecting
<1>2. _be_decode(calls, Mark("d")) = Reading(<<Frame(Dict(<< >>), NoKey)>> \o calls)
  BY TokenKinds DEF _be_decode, Expecting
<1> QED
  BY <1>1, <1>2, LeadsOne

(* The fields of a frame                                                   *)
LEMMA FrameFields ==
    /\ \A node, key : Frame(node, key).node = node /\ Frame(node, key).key = key
    /\ \A l : List(l).type = "list" /\ List(l).l = l
    /\ \A d : Dict(d).type = "dict" /\ Dict(d).d = d
    /\ \A x : <<x>> # NoKey /\ <<x>>[1] = x
BY DEF Frame, List, Dict, NoKey

(* A call that reads a list expects an element or the end.                 *)
LEMMA InList ==
    ASSUME NEW calls, IsSeq(calls), NEW l
    PROVE  LET inner == <<Frame(List(l), NoKey)>> \o calls
           IN  /\ Expecting(inner)
               /\ \A node : Return(inner, node) =
                     Reading(<<Frame(List(Append(l, node)), NoKey)>> \o calls)
               /\ Leads(Reading(inner), <<Mark("e")>>, Return(calls, List(l)))
<1> DEFINE frame == Frame(List(l), NoKey)
           inner == <<frame>> \o calls
<1>1. /\ IsSeq(inner) /\ inner # << >>
      /\ Head(inner) = frame /\ Tail(inner) = calls
  BY SeqPush
<1>2. frame.node = List(l) /\ List(l).type = "list" /\ List(l).l = l
  BY FrameFields
<1> HIDE DEF frame, inner
<1>3. ~InDict(inner) /\ AtEnd(inner)
  BY <1>1, <1>2 DEF InDict, AtEnd
<1>4. Expecting(inner)
  BY <1>1, <1>3 DEF Expecting, AtKey
<1>5. \A node : Return(inner, node) = Reading(<<Frame(List(Append(l, node)), NoKey)>> \o calls)
  BY <1>1, <1>2 DEF Return, Grown
<1>6. _be_decode(inner, Mark("e")) = Return(calls, List(l))
  BY <1>1, <1>2, <1>3 DEF _be_decode
<1>7. Leads(Reading(inner), <<Mark("e")>>, Return(calls, List(l)))
  BY <1>6, LeadsOne
<1> QED
  BY <1>4, <1>5, <1>7 DEF inner, frame

(* A call that reads a dictionary expects a key or the end, and a value    *)
(* after a key.                                                            *)
LEMMA InDictionary ==
    ASSUME NEW calls, IsSeq(calls), NEW d
    PROVE  LET inner      == <<Frame(Dict(d), NoKey)>> \o calls
               keyed(key) == <<Frame(Dict(d), <<key>>)>> \o calls
           IN  /\ \A key : /\ Leads(Reading(inner), <<Bytes(key)>>, Reading(keyed(key)))
                            /\ Expecting(keyed(key))
                            /\ \A node : Return(keyed(key), node) =
                                  Reading(<<Frame(Dict(Entered(d, key, node)), NoKey)>> \o calls)
               /\ Leads(Reading(inner), <<Mark("e")>>, Return(calls, Dict(d)))
<1> DEFINE frame == Frame(Dict(d), NoKey)
           inner == <<frame>> \o calls
           at(key) == Frame(Dict(d), <<key>>)
           keyed(key) == <<at(key)>> \o calls
<1>1. /\ IsSeq(inner) /\ inner # << >>
      /\ Head(inner) = frame /\ Tail(inner) = calls
  BY SeqPush
<1>2. /\ frame.node = Dict(d) /\ frame.key = NoKey
      /\ Dict(d).type = "dict" /\ Dict(d).d = d
  BY FrameFields
<1> HIDE DEF frame, inner
<1>3. InDict(inner) /\ AtEnd(inner) /\ AtKey(inner)
  BY <1>1, <1>2 DEF InDict, AtEnd, AtKey
<1>4. _be_decode(inner, Mark("e")) = Return(calls, Dict(d))
  BY <1>1, <1>2, <1>3 DEF _be_decode
<1>5. Leads(Reading(inner), <<Mark("e")>>, Return(calls, Dict(d)))
  BY <1>4, LeadsOne
<1>6. ASSUME NEW key
      PROVE  /\ Leads(Reading(inner), <<Bytes(key)>>, Reading(keyed(key)))
             /\ Expecting(keyed(key))
             /\ \A node : Return(keyed(key), node) =
                   Reading(<<Frame(Dict(Entered(d, key, node)), NoKey)>> \o calls)
  <2>1. /\ IsSeq(keyed(key)) /\ keyed(key) # << >>
        /\ Head(keyed(key)) = at(key) /\ Tail(keyed(key)) = calls
    BY SeqPush
  <2>2. at(key).node = Dict(d) /\ at(key).key = <<key>> /\ <<key>> # NoKey /\ <<key>>[1] = key
    BY FrameFields
  <2>3. _be_decode(inner, Bytes(key)) = Reading(keyed(key))
    BY <1>1, <1>2, <1>3, TokenKinds DEF _be_decode
  <2>4. Leads(Reading(inner), <<Bytes(key)>>, Reading(keyed(key)))
    BY <2>3, LeadsOne
  <2> HIDE DEF at, keyed
  <2>5. Expecting(keyed(key))
    BY <2>1, <2>2 DEF Expecting, AtKey
  <2>6. ~(at(key).node.type = "list")
    BY <1>2, <2>2
  <2>7. \A node : Return(keyed(key), node) =
                   Reading(<<Frame(Dict(Entered(d, key, node)), NoKey)>> \o calls)
    BY <1>2, <2>1, <2>2, <2>6 DEF Return, Grown
  <2> QED
    BY <2>4, <2>5, <2>7
<1> QED
  BY <1>5, <1>6 DEF inner, frame
-----------------------------------------------------------------------------
(* Lists and dictionaries                                                  *)

(* The encoder's loop ends with "e".                                       *)
LEMMA AppendIs == \A s, x : IsSeq(s) => Append(s, x) = s \o <<x>>
<1> SUFFICES ASSUME NEW s, NEW x, IsSeq(s) PROVE Append(s, x) = s \o <<x>>
  OBVIOUS
<1>1. PICK X : s \in Seq(X)
  BY DEF IsSeq
<1>2. s \in Seq(X \cup {x}) /\ x \in X \cup {x}
  BY <1>1
<1> QED
  BY <1>2

(* One more element                                                        *)
LEMMA PrefixGrows ==
    ASSUME NEW l, IsSeq(l)
    PROVE  /\ Len(l) \in Nat /\ SubSeq(l, 1, 0) = << >> /\ SubSeq(l, 1, Len(l)) = l
           /\ \A k \in 1 .. Len(l) : SubSeq(l, 1, k) = Append(SubSeq(l, 1, k - 1), l[k])
<1>1. PICK X : l \in Seq(X)
  BY DEF IsSeq
<1>2. Len(l) \in Nat /\ SubSeq(l, 1, 0) = << >> /\ SubSeq(l, 1, Len(l)) = l
  BY <1>1
<1>3. ASSUME NEW k \in 1 .. Len(l)
      PROVE  SubSeq(l, 1, k) = Append(SubSeq(l, 1, k - 1), l[k])
  BY <1>1
<1> QED
  BY <1>2, <1>3

(* Step by step                                                            *)
LEMMA LoopLeads ==
    ASSUME NEW first, NEW parts, NEW n \in Nat, Len(parts) = n,
           NEW from, NEW states, NEW to,
           Leads(from, <<first>>, states[0]),
           \A k \in 1 .. n : Leads(states[k - 1], parts[k], states[k]),
           Leads(states[n], <<Mark("e")>>, to)
    PROVE  Leads(from, Enclosed(first, parts), to)
<1>1. PICK f : IsUpTo(f, first, parts, n) /\ Enclosed(first, parts) = Append(f[n], Mark("e"))
  BY EnclosedIs
<1>2. \A k \in 0 .. n : f[k] = IF k = 0 THEN <<first>> ELSE f[k - 1] \o parts[k]
  BY <1>1 DEF IsUpTo
<1> DEFINE N == {k \in Nat : k =< n => Leads(from, f[k], states[k])}
<1>3. 0 \in N
  <2>1. f[0] = <<first>>
    BY <1>2
  <2> QED
    BY <2>1
<1>4. ASSUME NEW k \in N PROVE k + 1 \in N
  <2>1. SUFFICES ASSUME k + 1 =< n PROVE Leads(from, f[k + 1], states[k + 1])
    OBVIOUS
  <2>2. k + 1 \in 1 .. n /\ k + 1 \in 0 .. n /\ k + 1 # 0 /\ (k + 1) - 1 = k
    BY <2>1
  <2>3. f[k + 1] = f[k] \o parts[k + 1]
    BY <1>2, <2>2
  <2>4. Leads(states[k], parts[k + 1], states[k + 1])
    BY <2>2
  <2>5. Leads(from, f[k], states[k])
    BY <2>1
  <2> QED
    BY <2>3, <2>4, <2>5, LeadsOn
<1>5. N = Nat
  <2>1. N \in SUBSET Nat
    OBVIOUS
  <2> HIDE DEF N
  <2> QED
    BY <1>3, <1>4, <2>1, SetInduction
<1>6. Leads(from, f[n], states[n])
  BY <1>5
<1>7. IsSeq(f[n])
  BY <1>6 DEF Leads
<1>8. Enclosed(first, parts) = f[n] \o <<Mark("e")>>
  BY <1>1, <1>7, AppendIs
<1> QED
  BY <1>6, <1>8, LeadsOn

(* A list whose elements are read                                          *)
LEMMA ListRead ==
    ASSUME NEW l, IsSeq(l), NEW parts, Len(parts) = Len(l),
           \A k \in 1 .. Len(l) : ReadAs(parts[k], l[k])
    PROVE  ReadAs(Enclosed(Mark("l"), parts), List(l))
<1> SUFFICES ASSUME NEW calls, Expecting(calls)
             PROVE  Leads(Reading(calls), Enclosed(Mark("l"), parts), Return(calls, List(l)))
  BY DEF ReadAs
<1> DEFINE n == Len(l)
           inner(k) == <<Frame(List(SubSeq(l, 1, k)), NoKey)>> \o calls
           states == [k \in 0 .. n |-> Reading(inner(k))]
<1>1. IsSeq(calls)
  BY DEF Expecting
<1>2. /\ n \in Nat /\ SubSeq(l, 1, 0) = << >> /\ SubSeq(l, 1, n) = l
      /\ \A k \in 1 .. n : SubSeq(l, 1, k) = Append(SubSeq(l, 1, k - 1), l[k])
  BY PrefixGrows
<1> HIDE DEF n
<1>3. Leads(Reading(calls), <<Mark("l")>>, states[0])
  <2>1. states[0] = Reading(inner(0))
    BY <1>2
  <2>2. inner(0) = <<Frame(List(<< >>), NoKey)>> \o calls
    BY <1>2
  <2> HIDE DEF states, inner
  <2> QED
    BY <2>1, <2>2, Opened
<1>4. ASSUME NEW k \in 1 .. n
      PROVE  Leads(states[k - 1], parts[k], states[k])
  <2>1. /\ Expecting(inner(k - 1))
        /\ Return(inner(k - 1), l[k]) = Reading(<<Frame(List(Append(SubSeq(l, 1, k - 1), l[k])), NoKey)>> \o calls)
    BY <1>1, InList
  <2>2. Return(inner(k - 1), l[k]) = Reading(inner(k))
    BY <1>2, <2>1
  <2>3. ReadAs(parts[k], l[k])
    BY DEF n
  <2> HIDE DEF inner
  <2>4. Leads(Reading(inner(k - 1)), parts[k], Reading(inner(k)))
    BY <2>1, <2>2, <2>3 DEF ReadAs
  <2>5. states[k - 1] = Reading(inner(k - 1)) /\ states[k] = Reading(inner(k))
    BY <1>2
  <2> QED
    BY <2>4, <2>5
<1>5. Leads(states[n], <<Mark("e")>>, Return(calls, List(l)))
  <2>1. Leads(Reading(inner(n)), <<Mark("e")>>, Return(calls, List(SubSeq(l, 1, n))))
    BY <1>1, InList
  <2>2. states[n] = Reading(inner(n))
    BY <1>2
  <2> QED
    BY <1>2, <2>1, <2>2
<1> HIDE DEF states
<1> QED
  BY <1>2, <1>3, <1>4, <1>5, LoopLeads DEF n

Keys == {KeyOrder[j] : j \in 1 .. 11}

(* vdht.c adds every key once.                                             *)
LEMMA KeysDiffer ==
    /\ DOMAIN KeyOrder = 1 .. 11 /\ Len(KeyOrder) = 11
    /\ \A j, k \in 1 .. 11 : KeyOrder[j] = KeyOrder[k] => j = k
BY DEF KeyOrder

(* A dictionary whose values are read; data[key] is what is written of the *)
(* value of the key.                                                       *)
LEMMA DictRead ==
    ASSUME NEW d, d = [key \in DOMAIN d |-> d[key]], DOMAIN d \subseteq Keys, NEW data,
           \A key \in DOMAIN d : ReadAs(data[key], d[key])
    PROVE  ReadAs(Enclosed(Mark("d"),
                           [k \in DOMAIN KeyOrder |->
                              IF KeyOrder[k] \in DOMAIN d
                              THEN <<Bytes(KeyOrder[k])>> \o data[KeyOrder[k]]
                              ELSE << >>]),
                  Dict(d))
<1> DEFINE parts == [k \in DOMAIN KeyOrder |->
                       IF KeyOrder[k] \in DOMAIN d
                       THEN <<Bytes(KeyOrder[k])>> \o data[KeyOrder[k]]
                       ELSE << >>]
<1> SUFFICES ASSUME NEW calls, Expecting(calls)
             PROVE  Leads(Reading(calls), Enclosed(Mark("d"), parts), Return(calls, Dict(d)))
  BY DEF ReadAs
<1> DEFINE seen(k) == {key \in DOMAIN d : \E j \in 1 .. k : key = KeyOrder[j]}
           part(k) == [key \in seen(k) |-> d[key]]
           inner(k) == <<Frame(Dict(part(k)), NoKey)>> \o calls
           states == [k \in 0 .. 11 |-> Reading(inner(k))]
<1>1. IsSeq(calls)
  BY DEF Expecting
<1>2. part(0) = << >>
  <2>1. seen(0) = {}
    OBVIOUS
  <2> QED
    BY <2>1
<1>3. part(11) = d
  <2>1. seen(11) = DOMAIN d
    BY DEF Keys
  <2> QED
    BY <2>1
<1>4. Len(parts) = 11 /\ \A k \in 1 .. 11 : parts[k] = IF KeyOrder[k] \in DOMAIN d
                                                      THEN <<Bytes(KeyOrder[k])>> \o data[KeyOrder[k]]
                                                      ELSE << >>
  BY KeysDiffer
<1>5. Leads(Reading(calls), <<Mark("d")>>, states[0])
  <2>1. states[0] = Reading(inner(0))
    OBVIOUS
  <2>2. inner(0) = <<Frame(Dict(<< >>), NoKey)>> \o calls
    BY <1>2
  <2> HIDE DEF states, inner
  <2> QED
    BY <2>1, <2>2, Opened
<1>6. ASSUME NEW k \in 1 .. 11
      PROVE  Leads(states[k - 1], parts[k], states[k])
  <2>1. states[k - 1] = Reading(inner(k - 1)) /\ states[k] = Reading(inner(k))
    OBVIOUS
  <2> DEFINE key == KeyOrder[k]
  <2>2. \A j \in 1 .. k - 1 : KeyOrder[j] # key
    BY KeysDiffer
  <2>3. CASE key \notin DOMAIN d
    <3>1. seen(k) = seen(k - 1)
      <4>1. \A x \in DOMAIN d : (\E j \in 1 .. k : x = KeyOrder[j]) <=> \E j \in 1 .. k - 1 : x = KeyOrder[j]
        BY <2>3
      <4> QED
        BY <4>1
    <3>2. inner(k) = inner(k - 1)
      BY <3>1
    <3>3. parts[k] = << >>
      BY <1>4, <2>3
    <3> HIDE DEF inner, states, parts
    <3> QED
      BY <2>1, <3>2, <3>3, LeadsNowhere
  <2>4. CASE key \in DOMAIN d
    <3> DEFINE keyed == <<Frame(Dict(part(k - 1)), <<key>>)>> \o calls
    <3>1. /\ Leads(Reading(inner(k - 1)), <<Bytes(key)>>, Reading(keyed))
          /\ Expecting(keyed)
          /\ Return(keyed, d[key]) = Reading(<<Frame(Dict(Entered(part(k - 1), key, d[key])), NoKey)>> \o calls)
      BY <1>1, InDictionary
    <3>2. Entered(part(k - 1), key, d[key]) = part(k)
      <4>1. key \notin seen(k - 1)
        BY <2>2
      <4>2. seen(k) = seen(k - 1) \cup {key}
        <5>1. \A x : (\E j \in 1 .. k : x = KeyOrder[j]) <=> (\E j \in 1 .. k - 1 : x = KeyOrder[j]) \/ x = key
          OBVIOUS
        <5> QED
          BY <2>4, <5>1
      <4> HIDE DEF seen, key
      <4> QED
        BY <4>1, <4>2 DEF Entered
    <3>3. parts[k] = <<Bytes(key)>> \o data[key]
      BY <1>4, <2>4
    <3>4. Return(keyed, d[key]) = Reading(inner(k))
      BY <3>1, <3>2
    <3> HIDE DEF keyed, inner, states, parts, key
    <3>5. Leads(Reading(keyed), data[key], Reading(inner(k)))
      BY <2>4, <3>1, <3>4 DEF ReadAs
    <3> QED
      BY <2>1, <3>1, <3>3, <3>5, LeadsOn
  <2> QED
    BY <2>3, <2>4
<1>7. Leads(states[11], <<Mark("e")>>, Return(calls, Dict(d)))
  <2>1. Leads(Reading(inner(11)), <<Mark("e")>>, Return(calls, Dict(part(11))))
    BY <1>1, InDictionary
  <2>2. states[11] = Reading(inner(11))
    OBVIOUS
  <2> HIDE DEF inner, states, part
  <2> QED
    BY <1>3, <2>1, <2>2
<1> HIDE DEF states, parts
<1> QED
  BY <1>4, <1>5, <1>6, <1>7, LoopLeads

-----------------------------------------------------------------------------
(* The messages of vdht.c                                                  *)

(* An argument: an id, an info, ... or a list of infos                     *)
IsStr(node) == \E s : node = Str(s)
IsArg(node) ==
    \/ IsStr(node)
    \/ \E l : IsSeq(l) /\ node = List(l) /\ \A k \in 1 .. Len(l) : IsStr(l[k])

IsDict(d) == d = [key \in DOMAIN d |-> d[key]] /\ DOMAIN d \subseteq Keys

AreArgs(args) == IsDict(args) /\ \A key \in DOMAIN args : IsArg(args[key])

(* What the encoders of vdht.c hand to be_encode                           *)
Written(msg) ==
    \E name, nonce, args :
        AreArgs(args) /\ msg \in {Query(name, nonce, args), Response(name, nonce, args)}

(* EncodeNode by the type of the node                                      *)
LEMMA StrWritten ==
    \A s : LET node == Str(s)
           IN  /\ EncodeInfo(node) = <<Bytes(s)>> /\ EncodeArg(node) = <<Bytes(s)>>
               /\ EncodeArgs(node) = <<Bytes(s)>>
BY DEF EncodeInfo, EncodeArg, EncodeArgs, EncodeNode, Str

(* An argument is read as it was written.                                  *)
LEMMA ArgRead ==
    ASSUME NEW node, IsArg(node)
    PROVE  ReadAs(EncodeArg(node), node)
<1>1. CASE IsStr(node)
  BY <1>1, StrWritten, StrRead DEF IsStr
<1>2. ASSUME NEW l, IsSeq(l), node = List(l), \A k \in 1 .. Len(l) : IsStr(l[k])
      PROVE  ReadAs(EncodeArg(node), node)
  <2> DEFINE parts == [k \in DOMAIN l |-> EncodeInfo(l[k])]
  <2>1. node.type = "list" /\ node.l = l
    BY <1>2, FrameFields
  <2>2. EncodeArg(node) = Enclosed(Mark("l"), parts)
    BY <2>1 DEF EncodeArg, EncodeNode, EncodeList
  <2>3. Len(l) \in Nat /\ DOMAIN l = 1 .. Len(l)
    BY <1>2 DEF IsSeq
  <2>4. Len(parts) = Len(l) /\ \A k \in 1 .. Len(l) : parts[k] = EncodeInfo(l[k])
    BY <2>3
  <2>5. \A k \in 1 .. Len(l) : ReadAs(parts[k], l[k])
    BY <1>2, <2>4, StrWritten, StrRead DEF IsStr
  <2> HIDE DEF parts
  <2> QED
    BY <1>2, <2>2, <2>4, <2>5, ListRead
<1> QED
  BY <1>1, <1>2 DEF IsArg

(* The arguments                                                           *)
LEMMA ArgsRead ==
    ASSUME NEW args, AreArgs(args)
    PROVE  ReadAs(EncodeArgs(Dict(args)), Dict(args))
<1> DEFINE data == [key \in DOMAIN args |-> EncodeArg(args[key])]
           parts == [k \in DOMAIN KeyOrder |->
                       IF KeyOrder[k] \in DOMAIN args
                       THEN <<Bytes(KeyOrder[k])>> \o data[KeyOrder[k]]
                       ELSE << >>]
<1>1. Dict(args).type = "dict" /\ Dict(args).d = args
  BY FrameFields
<1>2. EncodeArgs(Dict(args)) = Enclosed(Mark("d"), parts)
  <2>1. EncodeArgs(Dict(args)) = EncodeDict(Dict(args), EncodeArg)
    BY <1>1 DEF EncodeArgs, EncodeNode
  <2> QED
    BY <1>1, <2>1 DEF EncodeDict
<1>3. \A key \in DOMAIN args : ReadAs(data[key], args[key])
  BY ArgRead DEF AreArgs
<1> HIDE DEF data
<1> QED
  BY <1>2, <1>3, DictRead DEF AreArgs, IsDict

(* A message                                                               *)
LEMMA MessageRead ==
    ASSUME NEW msg, Written(msg)
    PROVE  Leads(Reading(<< >>), be_encode(msg), Got(msg))
<1>1. PICK name, nonce, args :
        AreArgs(args) /\ msg \in {Query(name, nonce, args), Response(name, nonce, args)}
  BY DEF Written
<1>2. PICK d : /\ msg = Dict(d) /\ IsDict(d)
               /\ \A key \in DOMAIN d : IsStr(d[key]) \/ d[key] = Dict(args)
  <2>1. "t" \in Keys /\ "y" \in Keys /\ "q" \in Keys /\ "r" \in Keys /\ "a" \in Keys
    <3>1. /\ KeyOrder[1] = "t" /\ KeyOrder[2] = "y" /\ KeyOrder[3] = "q"
          /\ KeyOrder[4] = "r" /\ KeyOrder[5] = "a"
      BY DEF KeyOrder
    <3> QED
      BY <3>1 DEF Keys
  <2>2. CASE msg = Query(name, nonce, args)
    <3> DEFINE d == [t |-> Str(nonce), y |-> Str("q"), q |-> Str(name), a |-> Dict(args)]
    <3>1. msg = Dict(d)
      BY <2>2 DEF Query
    <3>2. IsDict(d) /\ \A key \in DOMAIN d : IsStr(d[key]) \/ d[key] = Dict(args)
      BY <2>1 DEF IsDict, IsStr
    <3> QED
      BY <3>1, <3>2
  <2>3. CASE msg = Response(name, nonce, args)
    <3> DEFINE d == [t |-> Str(nonce), y |-> Str("r"), r |-> Str(name), a |-> Dict(args)]
    <3>1. msg = Dict(d)
      BY <2>3 DEF Response
    <3>2. IsDict(d) /\ \A key \in DOMAIN d : IsStr(d[key]) \/ d[key] = Dict(args)
      BY <2>1 DEF IsDict, IsStr
    <3> QED
      BY <3>1, <3>2
  <2> QED
    BY <1>1, <2>2, <2>3
<1> DEFINE data == [key \in DOMAIN d |-> EncodeArgs(d[key])]
           parts == [k \in DOMAIN KeyOrder |->
                       IF KeyOrder[k] \in DOMAIN d
                       THEN <<Bytes(KeyOrder[k])>> \o data[KeyOrder[k]]
                       ELSE << >>]
<1>3. msg.type = "dict" /\ msg.d = d
  BY <1>2, FrameFields
<1>4. be_encode(msg) = Enclosed(Mark("d"), parts)
  <2>1. be_encode(msg) = EncodeDict(msg, EncodeArgs)
    BY <1>3 DEF be_encode, EncodeNode
  <2> QED
    BY <1>3, <2>1 DEF EncodeDict
<1>5. \A key \in DOMAIN d : ReadAs(data[key], d[key])
  BY <1>1, <1>2, StrWritten, StrRead, ArgsRead DEF IsStr
<1> HIDE DEF data
<1>6. ReadAs(be_encode(msg), msg)
  BY <1>2, <1>4, <1>5, DictRead DEF IsDict
<1>7. Expecting(<< >>) /\ Return(<< >>, msg) = Got(msg)
  BY SeqNone DEF Expecting, AtKey, InDict, Return
<1> QED
  BY <1>6, <1>7 DEF ReadAs

(* Data that begins as other data is read as this one so far.              *)
LEMMA SameStates ==
    ASSUME NEW data, NEW r, NEW to, IsParse(r, Reading(<< >>), data, to), Len(data) \in Nat,
           NEW k \in 0 .. Len(data),
           NEW part, Len(part) \in Nat, k =< Len(part), \A j \in 1 .. k : part[j] = data[j],
           NEW f, IsAfter(f, part, Len(part))
    PROVE  f[k] = r[k]
<1>1. \A j \in 0 .. k : f[j] = IF j = 0 THEN Reading(<< >>) ELSE Parsed(f[j - 1], part[j])
  <2>1. \A j \in 0 .. Len(part) :
          f[j] = IF j = 0 THEN Reading(<< >>) ELSE Parsed(f[j - 1], part[j])
    BY DEF IsAfter
  <2>2. \A j \in 0 .. k : j \in 0 .. Len(part)
    OBVIOUS
  <2> QED
    BY <2>1, <2>2
<1>2. r[0] = Reading(<< >>) /\ \A j \in 1 .. Len(data) : r[j] = Parsed(r[j - 1], data[j])
  BY DEF IsParse
<1> DEFINE N == {j \in Nat : j =< k => f[j] = r[j]}
<1>3. 0 \in N
  BY <1>1, <1>2
<1>4. ASSUME NEW j \in N PROVE j + 1 \in N
  <2>1. SUFFICES ASSUME j + 1 =< k PROVE f[j + 1] = r[j + 1]
    OBVIOUS
  <2>2. j + 1 \in 1 .. k /\ j + 1 \in 1 .. Len(data) /\ j + 1 \in 0 .. k
    BY <2>1
  <2>3. f[j + 1] = Parsed(f[j], part[j + 1])
    BY <1>1, <2>2
  <2>4. r[j + 1] = Parsed(r[j], data[j + 1])
    BY <1>2, <2>2
  <2> QED
    BY <2>1, <2>2, <2>3, <2>4
<1>5. N = Nat
  <2>1. N \in SUBSET Nat
    OBVIOUS
  <2> HIDE DEF N
  <2> QED
    BY <1>3, <1>4, <2>1, SetInduction
<1> QED
  BY <1>5

(* be_decode reads the first k tokens of data.                             *)
LEMMA ReadSoFar ==
    ASSUME NEW data, NEW r, NEW to, IsParse(r, Reading(<< >>), data, to), Len(data) \in Nat,
           NEW k \in 0 .. Len(data),
           NEW part, Len(part) = k, \A j \in 1 .. k : part[j] = data[j]
    PROVE  be_decode(part) = Parsed(r[k], Mark("nul"))
<1>1. PICK f : IsAfter(f, part, Len(part)) /\ be_decode(part) = Parsed(f[Len(part)], Mark("nul"))
  BY DecodedIs
<1> QED
  BY <1>1, SameStates

(* be_decode reads data of which the kth token is incomplete.              *)
LEMMA ReadCut ==
    ASSUME NEW data, NEW r, NEW to, IsParse(r, Reading(<< >>), data, to), Len(data) \in Nat,
           NEW k \in 1 .. Len(data),
           NEW part, Len(part) = k, part[k] = Mark("cut"), \A j \in 1 .. k - 1 : part[j] = data[j]
    PROVE  be_decode(part) = Parsed(Parsed(r[k - 1], Mark("cut")), Mark("nul"))
<1>1. PICK f : IsAfter(f, part, Len(part)) /\ be_decode(part) = Parsed(f[Len(part)], Mark("nul"))
  BY DecodedIs
<1>2. Len(part) \in Nat
  OBVIOUS
<1>3. f[k - 1] = r[k - 1]
  <2> DEFINE h == k - 1
  <2>1. h \in 0 .. Len(data) /\ h =< Len(part) /\ \A j \in 1 .. h : part[j] = data[j]
    OBVIOUS
  <2> HIDE DEF h
  <2>2. f[h] = r[h]
    BY <1>1, <1>2, <2>1, SameStates
  <2> QED
    BY <2>2 DEF h
<1>4. f[k] = Parsed(f[k - 1], part[k])
  BY <1>1 DEF IsAfter
<1> QED
  BY <1>1, <1>3, <1>4

(* Behind the end the parser reads nothing any more.                       *)
LEMMA BehindTheEnd ==
    /\ \A calls : _be_decode(calls, Mark("nul")) \in {Aborted, Undefined}
    /\ \A calls : _be_decode(calls, Mark("cut")) = Undefined
<1>1. \A c \in {"nul", "cut"} : ~IsBytes(Mark(c)) /\ \A e \in {"e", "l", "d"} : Mark(c) # Mark(e)
  BY TokenKinds
<1>2. Mark("cut") # Mark("nul")
  BY TokenKinds
<1>. QED
  BY <1>1, <1>2 DEF _be_decode

(* be_decode finds the message that was written, and none in a part of it. *)
LEMMA ReadBack ==
    ASSUME NEW msg, Written(msg)
    PROVE  LET data == be_encode(msg)
           IN  /\ be_decode(data) = Got(msg)
               /\ \A part \in Parts(data) : be_decode(part) \in {Aborted, Undefined}
<1> DEFINE data == be_encode(msg)
           n    == Len(data)
<1>1. IsSeq(data) /\ \E r : IsParse(r, Reading(<< >>), data, Got(msg))
  BY MessageRead DEF Leads
<1>2. PICK r : IsParse(r, Reading(<< >>), data, Got(msg))
  BY <1>1
<1>3. n \in Nat /\ \A k \in 0 .. n : /\ Len(SubSeq(data, 1, k)) = k
                                      /\ \A j \in 1 .. k : SubSeq(data, 1, k)[j] = data[j]
  BY <1>1 DEF IsSeq
<1> HIDE DEF data
<1>4. be_decode(data) = Got(msg)
  <2>1. be_decode(data) = Parsed(r[n], Mark("nul"))
    BY <1>2, <1>3, ReadSoFar
  <2>2. r[n] = Got(msg) /\ Got(msg).st = "ok"
    BY <1>2 DEF IsParse, Got
  <2> QED
    BY <2>1, <2>2 DEF Parsed
<1>5. ASSUME NEW k \in 0 .. n - 1
      PROVE  be_decode(SubSeq(data, 1, k)) \in {Aborted, Undefined}
  <2>1. k \in 0 .. n /\ k + 1 \in 1 .. n /\ (k + 1) - 1 = k
    BY <1>3
  <2>2. be_decode(SubSeq(data, 1, k)) = Parsed(r[k], Mark("nul"))
    <3> DEFINE part == SubSeq(data, 1, k)
    <3>1. Len(part) = k /\ \A j \in 1 .. k : part[j] = data[j]
      BY <1>3, <2>1
    <3> HIDE DEF part
    <3>2. be_decode(part) = Parsed(r[k], Mark("nul"))
      BY <1>2, <1>3, <2>1, <3>1, ReadSoFar
    <3> QED
      BY <3>2 DEF part
  <2>3. r[k].st = "reading"
    BY <1>2, <2>1 DEF IsParse
  <2> QED
    BY <2>2, <2>3, BehindTheEnd DEF Parsed
<1>6. ASSUME NEW k \in 1 .. n
      PROVE  be_decode(Append(SubSeq(data, 1, k - 1), Mark("cut"))) = Undefined
  <2> DEFINE start == SubSeq(data, 1, k - 1)
             part  == Append(start, Mark("cut"))
  <2>1. k - 1 \in 0 .. n /\ (k - 1) + 1 = k
    BY <1>3
  <2>2. IsSeq(start) /\ Len(start) = k - 1 /\ \A j \in 1 .. k - 1 : start[j] = data[j]
    <3>1. PICK X : data \in Seq(X)
      BY <1>1 DEF IsSeq
    <3>2. start \in Seq(X)
      BY <1>3, <2>1, <3>1
    <3> QED
      BY <1>3, <2>1, <3>2 DEF IsSeq
  <2> HIDE DEF start
  <2>3. /\ Len(part) = k /\ part[k] = Mark("cut")
        /\ \A j \in 1 .. k - 1 : part[j] = data[j]
    BY <2>1, <2>2, SeqOne, SeqConcat, AppendIs
  <2> HIDE DEF part
  <2>4. be_decode(part) = Parsed(Parsed(r[k - 1], Mark("cut")), Mark("nul"))
    BY <1>2, <1>3, <2>1, <2>3, ReadCut
  <2>5. r[k - 1].st = "reading"
    BY <1>2 DEF IsParse
  <2>6. Parsed(r[k - 1], Mark("cut")) = Undefined
    BY <2>5, BehindTheEnd DEF Parsed
  <2> QED
    BY <2>4, <2>6 DEF Parsed, Undefined, start, part
<1>7. ASSUME NEW part \in Parts(data) PROVE be_decode(part) \in {Aborted, Undefined}
  <2>1. DOMAIN data = 1 .. n
    BY <1>1 DEF IsSeq
  <2> QED
    BY <1>5, <1>6, <2>1 DEF Parts
<1> QED
  BY <1>4, <1>7 DEF data
=============================================================================
