---------------------------- MODULE ConfigProofs ----------------------------
(***************************************************************************)
(* Proofs about vcfg.c: the parser reads a configuration file, however its *)
(* author has laid it out, as the dictionary that is meant, and a daemon   *)
(* goes by the settings in it.                                             *)
(***************************************************************************)
EXTENDS Control, ConfigText, Induction, SequenceTheorems

(* The states of the parser while it reads tokens                          *)
IsParse(r, tokens) == \A k \in 1 .. Len(tokens) : r[k] = Parsed(r[k - 1], tokens[k])

IsRunOf(r, s, tokens, n) ==
    r = [k \in 0 .. n |-> IF k = 0 THEN s ELSE Parsed(r[k - 1], tokens[k])]

(* What FlattenSeq has put together after each of n parts                  *)
IsFlat(f, parts, n) ==
    f = [i \in 1 .. n |-> IF i = 1 THEN parts[i] ELSE f[i - 1] \o parts[i]]

(* From any state of A, the tokens take the parser to a state of B.        *)
Takes(A, tokens, B) ==
    /\ IsSeq(tokens)
    /\ \A s \in A : \E r : r[0] = s /\ r[Len(tokens)] \in B /\ IsParse(r, tokens)

-----------------------------------------------------------------------------
(* Sequences of anything                                                   *)

LEMMA SeqIs ==
    ASSUME NEW s
    PROVE  /\ IsSeq(s) => Len(s) \in Nat /\ DOMAIN s = 1 .. Len(s) /\ s = [k \in 1 .. Len(s) |-> s[k]]
           /\ (\E X : s \in Seq(X)) => IsSeq(s)
<1>1. ASSUME IsSeq(s)
      PROVE  Len(s) \in Nat /\ DOMAIN s = 1 .. Len(s) /\ s = [k \in 1 .. Len(s) |-> s[k]]
  BY <1>1, LenProperties DEF IsSeq
<1>2. ASSUME NEW X, s \in Seq(X)
      PROVE  IsSeq(s)
  <2>1. DOMAIN s = 1 .. Len(s) /\ Len(s) \in Nat /\ s \in [1 .. Len(s) -> X]
    BY <1>2, LenProperties, ElementOfSeq
  <2>2. s \in [1 .. Len(s) -> {s[i] : i \in DOMAIN s}]
    BY <2>1
  <2> QED
    BY <2>1, <2>2, SeqDef DEF IsSeq, ToSet
<1> QED
  BY <1>1, <1>2

LEMMA SeqConcat ==
    ASSUME NEW s, IsSeq(s), NEW t, IsSeq(t)
    PROVE  /\ IsSeq(s \o t) /\ Len(s) \in Nat /\ Len(t) \in Nat
           /\ Len(s \o t) = Len(s) + Len(t)
           /\ \A k \in 1 .. Len(s) : (s \o t)[k] = s[k]
           /\ \A k \in 1 .. Len(t) : (s \o t)[Len(s) + k] = t[k]
<1>1. s \in Seq(ToSet(s)) /\ t \in Seq(ToSet(t))
  BY DEF IsSeq
<1> DEFINE X == ToSet(s) \cup ToSet(t)
<1>2. s \in Seq(X) /\ t \in Seq(X)
  BY <1>1
<1> HIDE DEF X
<1>3. s \o t \in Seq(X)
  BY <1>2
<1>4. IsSeq(s \o t)
  BY <1>3, SeqIs
<1> QED
  BY <1>2, <1>4

LEMMA SeqOne == \A x : IsSeq(<<x>>) /\ Len(<<x>>) = 1 /\ <<x>>[1] = x
<1>1. \A x : <<x>> \in Seq({x})
  OBVIOUS
<1> QED
  BY <1>1, SeqIs

LEMMA SeqNone == IsSeq(<< >>) /\ Len(<< >>) = 0
<1>1. << >> \in Seq({})
  OBVIOUS
<1> QED
  BY <1>1, SeqIs

(* One more call in front of the others                                    *)
LEMMA SeqPush ==
    ASSUME NEW x, NEW s, IsSeq(s)
    PROVE  /\ IsSeq(<<x>> \o s) /\ Len(<<x>> \o s) = Len(s) + 1
           /\ Head(<<x>> \o s) = x /\ Tail(<<x>> \o s) = s
<1> DEFINE X == ToSet(s) \cup {x}
<1>1. s \in Seq(ToSet(s))
  BY DEF IsSeq
<1>2. s \in Seq(X) /\ <<x>> \in Seq(X)
  BY <1>1
<1> HIDE DEF X
<1>3. <<x>> \o s \in Seq(X) /\ Len(<<x>> \o s) = Len(s) + 1
  BY <1>2
<1>4. IsSeq(<<x>> \o s)
  BY <1>3, SeqIs
<1> QED
  BY <1>2, <1>3, <1>4

(* A sequence made of another one, element by element                      *)
LEMMA SeqMap ==
    ASSUME NEW s, IsSeq(s), NEW g, g = [k \in DOMAIN s |-> g[k]]
    PROVE  IsSeq(g) /\ Len(g) = Len(s) /\ DOMAIN g = 1 .. Len(s)
<1>1. Len(s) \in Nat /\ DOMAIN s = 1 .. Len(s)
  BY SeqIs
<1> DEFINE n == Len(s)
           X == {g[k] : k \in 1 .. n}
<1> HIDE DEF n
<1>2. n \in Nat /\ g = [k \in 1 .. n |-> g[k]]
  BY <1>1 DEF n
<1>3. g \in [1 .. n -> X]
  BY <1>2
<1> HIDE DEF X
<1>4. g \in Seq(X)
  BY <1>2, <1>3, SeqDef
<1>5. Len(g) = n /\ DOMAIN g = 1 .. n
  BY <1>2, <1>3, <1>4, LenProperties
<1> QED
  BY <1>4, <1>5, SeqIs DEF n

-----------------------------------------------------------------------------
(* Reading some tokens, then others                                        *)

(* There is a run from every state.                                        *)
LEMMA RunExists ==
    ASSUME NEW s, NEW tokens
    PROVE  \A n \in Nat : \E r : IsRunOf(r, s, tokens, n)
<1> DEFINE N == {n \in Nat : \E r : IsRunOf(r, s, tokens, n)}
<1>1. 0 \in N
  <2>1. IsRunOf([k \in 0 .. 0 |-> s], s, tokens, 0)
    BY DEF IsRunOf
  <2> QED
    BY <2>1
<1>2. ASSUME NEW n \in N PROVE n + 1 \in N
  <2>1. PICK f : IsRunOf(f, s, tokens, n)
    OBVIOUS
  <2> DEFINE g == [k \in 0 .. n + 1 |-> IF k = n + 1 THEN Parsed(f[n], tokens[n + 1]) ELSE f[k]]
  <2>2. \A k \in 0 .. n : g[k] = f[k]
    OBVIOUS
  <2>3. \A k \in 0 .. n : f[k] = IF k = 0 THEN s ELSE Parsed(f[k - 1], tokens[k])
    BY <2>1 DEF IsRunOf
  <2>4. \A k \in 0 .. n + 1 : g[k] = IF k = 0 THEN s ELSE Parsed(g[k - 1], tokens[k])
    BY <2>2, <2>3
  <2> HIDE DEF g
  <2>5. g = [k \in 0 .. n + 1 |-> g[k]]
    BY DEF g
  <2>6. IsRunOf(g, s, tokens, n + 1)
    BY <2>4, <2>5 DEF IsRunOf
  <2> QED
    BY <2>6
<1>3. N \in SUBSET Nat
  OBVIOUS
<1> HIDE DEF N
<1>4. N = Nat
  BY <1>1, <1>2, <1>3, SetInduction
<1> QED
  BY <1>4 DEF N

(* Every token of some takes the parser from one of the sets to the next.  *)
LEMMA TakesEach ==
    ASSUME NEW tokens, IsSeq(tokens), NEW A,
           \A k \in 1 .. Len(tokens) : \A s \in A[k - 1] : Parsed(s, tokens[k]) \in A[k]
    PROVE  Takes(A[0], tokens, A[Len(tokens)])
<1> DEFINE n == Len(tokens)
<1>1. n \in Nat
  BY SeqIs
<1> SUFFICES ASSUME NEW s \in A[0]
             PROVE  \E r : r[0] = s /\ r[n] \in A[n] /\ IsParse(r, tokens)
  BY DEF Takes
<1>2. PICK r : IsRunOf(r, s, tokens, n)
  BY <1>1, RunExists
<1>3. r[0] = s /\ \A k \in 1 .. n : r[k] = Parsed(r[k - 1], tokens[k])
  <2>1. \A k \in 0 .. n : r[k] = IF k = 0 THEN s ELSE Parsed(r[k - 1], tokens[k])
    BY <1>2 DEF IsRunOf
  <2> QED
    BY <1>1, <2>1
<1> DEFINE N == {k \in Nat : k =< n => r[k] \in A[k]}
<1> HIDE DEF n
<1>4. 0 \in N
  BY <1>3
<1>5. ASSUME NEW k \in N PROVE k + 1 \in N
  <2>1. SUFFICES ASSUME k + 1 =< n PROVE r[k + 1] \in A[k + 1]
    OBVIOUS
  <2>2. k + 1 \in 1 .. n /\ (k + 1) - 1 = k /\ r[k] \in A[k]
    BY <1>1, <2>1
  <2> QED
    BY <1>3, <2>2 DEF n
<1>6. N \in SUBSET Nat
  OBVIOUS
<1>7. r[n] \in A[n]
  <2> HIDE DEF N
  <2>1. N = Nat
    BY <1>4, <1>5, <1>6, SetInduction
  <2> QED
    BY <1>1, <2>1 DEF N
<1> QED
  BY <1>3, <1>7 DEF IsParse, n

LEMMA TakesNone == ASSUME NEW A PROVE Takes(A, << >>, A)
<1> DEFINE B == [k \in {0} |-> A]
<1>1. Takes(B[0], << >>, B[Len(<< >>)])
  <2>1. \A k \in 1 .. Len(<< >>) : \A s \in B[k - 1] : Parsed(s, << >>[k]) \in B[k]
    BY SeqNone
  <2> HIDE DEF B
  <2> QED
    BY <2>1, SeqNone, TakesEach
<1> QED
  BY <1>1, SeqNone

LEMMA TakesOne ==
    ASSUME NEW A, NEW token, NEW B, \A s \in A : Parsed(s, token) \in B
    PROVE  Takes(A, <<token>>, B)
<1> DEFINE C == [k \in {0, 1} |-> IF k = 0 THEN A ELSE B]
<1>1. C[0] = A /\ C[1] = B
  OBVIOUS
<1> HIDE DEF C
<1>2. \A k \in 1 .. Len(<<token>>) : \A s \in C[k - 1] : Parsed(s, <<token>>[k]) \in C[k]
  BY <1>1, SeqOne
<1>3. Takes(C[0], <<token>>, C[Len(<<token>>)])
  BY <1>2, SeqOne, TakesEach
<1> QED
  BY <1>1, <1>3, SeqOne

LEMMA TakesMore ==
    ASSUME NEW A, NEW tokens, NEW B, Takes(A, tokens, B), NEW A2 \in SUBSET A, NEW B2, B \subseteq B2
    PROVE  Takes(A2, tokens, B2)
  BY DEF Takes

LEMMA TakesOn ==
    ASSUME NEW A, NEW s, NEW B, NEW t, NEW C, Takes(A, s, B), Takes(B, t, C)
    PROVE  Takes(A, s \o t, C)
<1> DEFINE m == Len(s)
           n == Len(t)
<1>0. IsSeq(s) /\ IsSeq(t)
  BY DEF Takes
<1>3. /\ IsSeq(s \o t) /\ m \in Nat /\ n \in Nat /\ Len(s \o t) = m + n
      /\ \A k \in 1 .. m : (s \o t)[k] = s[k]
      /\ \A k \in 1 .. n : (s \o t)[m + k] = t[k]
  BY <1>0, SeqConcat
<1> SUFFICES ASSUME NEW from \in A
             PROVE  \E r : r[0] = from /\ r[m + n] \in C /\ IsParse(r, s \o t)
  BY <1>3 DEF Takes
<1>1. PICK p : p[0] = from /\ p[m] \in B /\ IsParse(p, s)
  BY DEF Takes
<1>2. PICK q : q[0] = p[m] /\ q[n] \in C /\ IsParse(q, t)
  BY <1>1 DEF Takes
<1> DEFINE r == [k \in 0 .. m + n |-> IF k =< m THEN p[k] ELSE q[k - m]]
<1> HIDE DEF m, n
<1>4. r[0] = from
  BY <1>1, <1>3
<1>5. r[m + n] \in C
  <2>1. CASE n = 0
    BY <1>2, <1>3, <2>1
  <2>2. CASE n # 0
    <3>1. m + n \in 0 .. m + n /\ ~(m + n =< m) /\ (m + n) - m = n
      BY <1>3, <2>2
    <3> QED
      BY <1>2, <3>1
  <2> QED
    BY <2>1, <2>2
<1>7. ASSUME NEW k \in 1 .. m + n
      PROVE  r[k] = Parsed(r[k - 1], (s \o t)[k])
  <2>1. CASE k =< m
    <3>1. k \in 1 .. m /\ r[k - 1] = p[k - 1] /\ r[k] = p[k]
      BY <1>3, <2>1
    <3>2. p[k] = Parsed(p[k - 1], s[k])
      BY <1>1, <3>1 DEF IsParse, m
    <3> QED
      BY <1>3, <3>1, <3>2
  <2>2. CASE ~(k =< m)
    <3>1. PICK j \in 1 .. n : k = m + j
      <4>1. k - m \in 1 .. n /\ k = m + (k - m)
        BY <1>3, <2>2
      <4> QED
        BY <4>1
    <3>2. r[k] = q[j] /\ r[k - 1] = q[j - 1]
      BY <1>2, <1>3, <3>1
    <3>3. q[j] = Parsed(q[j - 1], t[j])
      BY <1>2, <3>1 DEF IsParse, n
    <3> QED
      BY <1>3, <3>1, <3>2, <3>3
  <2> QED
    BY <2>1, <2>2
<1> QED
  BY <1>3, <1>4, <1>5, <1>7 DEF IsParse

(* What FlattenSeq has put together after each part                        *)
LEMMA FlatIs ==
    ASSUME NEW parts, IsSeq(parts)
    PROVE  /\ parts = << >> => FlattenSeq(parts) = << >>
           /\ parts # << >> => \E f : /\ FlattenSeq(parts) = f[Len(parts)] /\ f[1] = parts[1]
                                      /\ \A k \in 2 .. Len(parts) : f[k] = f[k - 1] \o parts[k]
<1> DEFINE n == Len(parts)
           N == {m \in Nat : \E f : IsFlat(f, parts, m)}
<1>0. n \in Nat /\ (parts # << >> <=> n # 0)
  <2>1. parts \in Seq(ToSet(parts))
    BY DEF IsSeq
  <2> QED
    BY <2>1
<1>1. 0 \in N
  <2>1. IsFlat([i \in 1 .. 0 |-> parts[i]], parts, 0)
    BY DEF IsFlat
  <2> QED
    BY <2>1
<1>2. ASSUME NEW m \in N PROVE m + 1 \in N
  <2>1. PICK f : IsFlat(f, parts, m)
    OBVIOUS
  <2> DEFINE g == [i \in 1 .. m + 1 |->
                     IF i = m + 1 THEN IF i = 1 THEN parts[i] ELSE f[m] \o parts[i] ELSE f[i]]
  <2>2. \A i \in 1 .. m : g[i] = f[i]
    OBVIOUS
  <2>3. \A i \in 1 .. m : f[i] = IF i = 1 THEN parts[i] ELSE f[i - 1] \o parts[i]
    BY <2>1 DEF IsFlat
  <2>4. \A i \in 1 .. m + 1 : g[i] = IF i = 1 THEN parts[i] ELSE g[i - 1] \o parts[i]
    BY <2>2, <2>3
  <2> HIDE DEF g
  <2>5. g = [i \in 1 .. m + 1 |-> g[i]]
    BY DEF g
  <2>6. IsFlat(g, parts, m + 1)
    BY <2>4, <2>5 DEF IsFlat
  <2> QED
    BY <2>6
<1>3. N \in SUBSET Nat
  OBVIOUS
<1> HIDE DEF N
<1>4. N = Nat
  BY <1>1, <1>2, <1>3, SetInduction
<1> DEFINE f == CHOOSE f : IsFlat(f, parts, n)
<1>5. IsFlat(f, parts, n)
  BY <1>0, <1>4 DEF N
<1>6. parts # << >> => FlattenSeq(parts) = f[n]
  BY <1>0 DEF FlattenSeq, IsFlat
<1>7. parts # << >> => f[1] = parts[1] /\ \A k \in 2 .. n : f[k] = f[k - 1] \o parts[k]
  <2>1. \A i \in 1 .. n : f[i] = IF i = 1 THEN parts[i] ELSE f[i - 1] \o parts[i]
    BY <1>5 DEF IsFlat
  <2> HIDE DEF f, n
  <2>2. ASSUME parts # << >> PROVE f[1] = parts[1]
    <3>1. 1 \in 1 .. n
      BY <1>0, <2>2
    <3> QED
      BY <2>1, <3>1
  <2>3. ASSUME NEW k \in 2 .. n PROVE f[k] = f[k - 1] \o parts[k]
    <3>1. k \in 1 .. n /\ k # 1
      BY <1>0
    <3> QED
      BY <2>1, <3>1
  <2> QED
    BY <2>2, <2>3
<1>8. parts = << >> => FlattenSeq(parts) = << >>
  BY <1>0 DEF FlattenSeq
<1> HIDE DEF f
<1> QED
  BY <1>6, <1>7, <1>8

(* Every part takes the parser from one of the sets to the next.           *)
LEMMA TakesFlat ==
    ASSUME NEW parts, IsSeq(parts), NEW A,
           \A k \in 1 .. Len(parts) : Takes(A[k - 1], parts[k], A[k])
    PROVE  Takes(A[0], FlattenSeq(parts), A[Len(parts)])
<1> DEFINE n == Len(parts)
<1>0. n \in Nat /\ (parts # << >> <=> n # 0)
  <2>1. parts \in Seq(ToSet(parts))
    BY DEF IsSeq
  <2> QED
    BY <2>1
<1>1. CASE parts = << >>
  BY <1>0, <1>1, FlatIs, TakesNone
<1>2. CASE parts # << >>
  <2>1. PICK f : /\ FlattenSeq(parts) = f[n] /\ f[1] = parts[1]
                 /\ \A k \in 2 .. n : f[k] = f[k - 1] \o parts[k]
    BY <1>2, FlatIs
  <2> DEFINE N == {k \in Nat : k + 1 =< n => Takes(A[0], f[k + 1], A[k + 1])}
  <2> HIDE DEF n
  <2>2. 0 \in N
    <3>1. 1 \in 1 .. n
      BY <1>0, <1>2
    <3>2. Takes(A[1 - 1], parts[1], A[1])
      BY <3>1 DEF n
    <3> QED
      BY <2>1, <3>2
  <2>3. ASSUME NEW k \in N PROVE k + 1 \in N
    <3>1. SUFFICES ASSUME k + 2 =< n PROVE Takes(A[0], f[k + 2], A[k + 2])
      OBVIOUS
    <3>2. k + 2 \in 2 .. n /\ k + 2 \in 1 .. n /\ (k + 2) - 1 = k + 1 /\ k + 1 =< n
      BY <1>0, <3>1
    <3>3. f[k + 2] = f[k + 1] \o parts[k + 2]
      BY <2>1, <3>2
    <3>4. Takes(A[0], f[k + 1], A[k + 1])
      BY <3>2
    <3>5. Takes(A[k + 1], parts[k + 2], A[k + 2])
      BY <3>2 DEF n
    <3> QED
      BY <3>3, <3>4, <3>5, TakesOn
  <2>4. N \in SUBSET Nat
    OBVIOUS
  <2>5. n - 1 \in N
    <3> HIDE DEF N
    <3>1. N = Nat
      BY <2>2, <2>3, <2>4, SetInduction
    <3>2. n - 1 \in Nat
      BY <1>0, <1>2
    <3> QED
      BY <3>1, <3>2
  <2> QED
    BY <1>0, <1>2, <2>1, <2>5 DEF n
<1> QED
  BY <1>1, <1>2
-----------------------------------------------------------------------------
(* One step of the parser                                                  *)

(* The inner loops that leave nothing behind                               *)
Idle == {"loop", "blanks", "newline", "endings", "delimiter"}

(* The innermost call goes on in its loop, maybe after some spaces.        *)
IdleAt(calls) == {Reading(calls, doing, << >>) : doing \in Idle}

(* A stack of calls                                                        *)
AreCalls(calls) == /\ IsSeq(calls) /\ calls # << >>
                   /\ Head(calls).type \in {"dict", "list", "tuple"}

(* A bracket was closed.                                                   *)
Ending(calls) == Reading(calls, "endings", << >>)

LEMMA ReadingIs ==
    \A calls, doing, words :
      /\ Reading(calls, doing, words).st = "reading"
      /\ Reading(calls, doing, words).calls = calls
      /\ Reading(calls, doing, words).doing = doing
      /\ Reading(calls, doing, words).words = words
  BY DEF Reading

LEMMA BlockIs ==
    \A type, key, items :
      /\ Block(type, key, items).type = type
      /\ Block(type, key, items).key = key
      /\ Block(type, key, items).items = items
  BY DEF Block

LEMMA BracketIs == Bracket["dict"] = "}" /\ Bracket["list"] = "]" /\ Bracket["tuple"] = ")"
  BY DEF Bracket

LEMMA InIdle ==
    ASSUME NEW calls
    PROVE  \A doing \in Idle : Reading(calls, doing, << >>) \in IdleAt(calls)
  BY DEF IdleAt

LEMMA InIdleToo == \A calls : InLoop(calls) \in IdleAt(calls) /\ Ending(calls) \in IdleAt(calls)
  BY InIdle DEF Idle, InLoop, Ending

(* The token that an inner loop eats                                       *)
LEMMA EatenStep ==
    ASSUME NEW calls, NEW doing, NEW words, NEW token, Eats(doing, token)
    PROVE  Parsed(Reading(calls, doing, words), token)
             = Reading(calls, doing, Collected(doing, words, token))
  BY ReadingIs DEF Parsed

(* The token after an inner loop                                           *)
LEMMA LoopStep ==
    ASSUME NEW calls, NEW doing, NEW words, NEW token, ~Eats(doing, token),
           NEW next, Over(Reading(calls, doing, words)) = InLoop(next)
    PROVE  Parsed(Reading(calls, doing, words), token) = Loop(next, token)
  BY ReadingIs DEF Parsed, InLoop

LEMMA OverIdle ==
    ASSUME NEW calls, NEW doing \in Idle \cup {"comment"}, NEW words
    PROVE  Over(Reading(calls, doing, words)) = InLoop(calls)
  BY ReadingIs DEF Over, Idle

LEMMA IdleStep ==
    ASSUME NEW calls, NEW s \in IdleAt(calls), NEW token, token.c \notin Space
    PROVE  Parsed(s, token) = Loop(calls, token)
<1>1. PICK doing \in Idle : s = Reading(calls, doing, << >>)
  BY DEF IdleAt
<1>2. ~Eats(doing, token)
  BY DEF Eats, Idle, Space, Blanks
<1> QED
  BY <1>1, <1>2, OverIdle, LoopStep

LEMMA SpaceLoop ==
    ASSUME NEW calls, AreCalls(calls), NEW token, token.c \in Space
    PROVE  Loop(calls, token) \in IdleAt(calls)
<1>1. CASE token.c = "sp"
  <2>1. Loop(calls, token) = Reading(calls, "blanks", << >>)
    BY <1>1, BracketIs DEF Loop, BeginsWord, Alnum, AreCalls
  <2> QED
    BY <2>1, InIdle DEF Idle
<1>2. CASE token.c = "nl"
  <2>1. Loop(calls, token) = Reading(calls, "newline", << >>)
    BY <1>2, BracketIs DEF Loop, BeginsWord, Alnum, AreCalls
  <2> QED
    BY <2>1, InIdle DEF Idle
<1> QED
  BY <1>1, <1>2 DEF Space

LEMMA IdleSpace ==
    ASSUME NEW calls, AreCalls(calls), NEW s \in IdleAt(calls), NEW token, token.c \in Space
    PROVE  Parsed(s, token) \in IdleAt(calls)
<1>1. PICK doing \in Idle : s = Reading(calls, doing, << >>)
  BY DEF IdleAt
<1>2. CASE Eats(doing, token)
  <2>1. Collected(doing, << >>, token) = << >>
    BY DEF Collected, Idle
  <2> QED
    BY <1>1, <1>2, <2>1, EatenStep
<1>3. CASE ~Eats(doing, token)
  <2>1. Parsed(s, token) = Loop(calls, token)
    BY <1>1, <1>3, OverIdle, LoopStep
  <2> QED
    BY <2>1, SpaceLoop
<1> QED
  BY <1>2, <1>3

-----------------------------------------------------------------------------
(* Gaps                                                                    *)

LEMMA SpacesTaken ==
    ASSUME NEW s, AreSpaces(s), NEW calls, AreCalls(calls)
    PROVE  /\ Takes(IdleAt(calls), s, IdleAt(calls))
           /\ Takes({Ending(calls)}, s, {Ending(calls)})
<1>1. IsSeq(s) /\ Len(s) \in Nat /\ \A k \in 1 .. Len(s) : s[k].c \in Space
  BY SeqIs DEF AreSpaces
<1>2. Takes(IdleAt(calls), s, IdleAt(calls))
  <2> DEFINE A == [k \in 0 .. Len(s) |-> IdleAt(calls)]
  <2>1. \A k \in 0 .. Len(s) : A[k] = IdleAt(calls)
    OBVIOUS
  <2> HIDE DEF A
  <2>2. ASSUME NEW k \in 1 .. Len(s), NEW x \in A[k - 1]
        PROVE  Parsed(x, s[k]) \in A[k]
    <3>1. k - 1 \in 0 .. Len(s) /\ k \in 0 .. Len(s)
      BY <1>1
    <3> QED
      BY <1>1, <2>1, <3>1, IdleSpace
  <2>3. Takes(A[0], s, A[Len(s)])
    BY <1>1, <2>2, TakesEach
  <2>4. 0 \in 0 .. Len(s) /\ Len(s) \in 0 .. Len(s)
    BY <1>1
  <2> QED
    BY <2>1, <2>3, <2>4
<1>3. Takes({Ending(calls)}, s, {Ending(calls)})
  <2> DEFINE A == [k \in 0 .. Len(s) |-> {Ending(calls)}]
  <2>1. \A k \in 0 .. Len(s) : A[k] = {Ending(calls)}
    OBVIOUS
  <2> HIDE DEF A
  <2>2. ASSUME NEW k \in 1 .. Len(s), NEW x \in A[k - 1]
        PROVE  Parsed(x, s[k]) \in A[k]
    <3>1. k - 1 \in 0 .. Len(s) /\ k \in 0 .. Len(s)
      BY <1>1
    <3>2. x = Reading(calls, "endings", << >>) /\ A[k] = {Reading(calls, "endings", << >>)}
      BY <2>1, <3>1 DEF Ending
    <3>3. Eats("endings", s[k]) /\ Collected("endings", << >>, s[k]) = << >>
      BY <1>1 DEF Eats, Collected
    <3> QED
      BY <3>2, <3>3, EatenStep
  <2>3. Takes(A[0], s, A[Len(s)])
    BY <1>1, <2>2, TakesEach
  <2>4. 0 \in 0 .. Len(s) /\ Len(s) \in 0 .. Len(s)
    BY <1>1
  <2> QED
    BY <2>1, <2>3, <2>4
<1> QED
  BY <1>2, <1>3

(* Blanks behind the words of a key or a value                             *)
LEMMA BlanksTaken ==
    ASSUME NEW s, AreBlanks(s), NEW calls, NEW doing \in {"key", "val"}, NEW words
    PROVE  Takes({Reading(calls, doing, words)}, s, {Reading(calls, doing, words)})
<1>1. IsSeq(s) /\ Len(s) \in Nat /\ \A k \in 1 .. Len(s) : s[k].c \in Blanks
  BY SeqIs DEF AreBlanks
<1> DEFINE A == [k \in 0 .. Len(s) |-> {Reading(calls, doing, words)}]
<1>2. \A k \in 0 .. Len(s) : A[k] = {Reading(calls, doing, words)}
  OBVIOUS
<1> HIDE DEF A
<1>3. ASSUME NEW k \in 1 .. Len(s), NEW x \in A[k - 1]
      PROVE  Parsed(x, s[k]) \in A[k]
  <2>1. k - 1 \in 0 .. Len(s) /\ k \in 0 .. Len(s)
    BY <1>1
  <2>2. x = Reading(calls, doing, words) /\ A[k] = {Reading(calls, doing, words)}
    BY <1>2, <2>1
  <2>3. Eats(doing, s[k]) /\ Collected(doing, words, s[k]) = words
    BY <1>1 DEF Eats, Collected, Blanks
  <2> QED
    BY <2>2, <2>3, EatenStep
<1>4. Takes(A[0], s, A[Len(s)])
  BY <1>1, <1>3, TakesEach
<1>5. 0 \in 0 .. Len(s) /\ Len(s) \in 0 .. Len(s)
  BY <1>1
<1> QED
  BY <1>2, <1>4, <1>5

(* Where comments begin and end                                            *)
LEMMA CommentNext ==
    ASSUME NEW s, NEW k \in Nat \ {0}
    PROVE  InComment(s, k) <=> s[k].c # "nl" /\ (InComment(s, k - 1) \/ s[k].c = ";")
<1>1. ASSUME InComment(s, k)
      PROVE  s[k].c # "nl" /\ (InComment(s, k - 1) \/ s[k].c = ";")
  <2>1. PICK i \in 1 .. k : s[i].c = ";" /\ \A j \in i .. k : s[j].c # "nl"
    BY <1>1 DEF InComment
  <2>2. k \in i .. k
    OBVIOUS
  <2>3. CASE i = k
    BY <2>1, <2>2, <2>3
  <2>4. CASE i # k
    <3>1. i \in 1 .. k - 1 /\ \A j \in i .. k - 1 : j \in i .. k
      BY <2>4
    <3>2. \A j \in i .. k - 1 : s[j].c # "nl"
      BY <2>1, <3>1
    <3> QED
      BY <2>1, <2>2, <3>1, <3>2 DEF InComment
  <2> QED
    BY <2>3, <2>4
<1>2. ASSUME s[k].c # "nl", s[k].c = ";"
      PROVE  InComment(s, k)
  <2>1. k \in 1 .. k /\ \A j \in k .. k : j = k
    OBVIOUS
  <2> QED
    BY <1>2, <2>1 DEF InComment
<1>3. ASSUME s[k].c # "nl", InComment(s, k - 1)
      PROVE  InComment(s, k)
  <2>1. PICK i \in 1 .. k - 1 : s[i].c = ";" /\ \A j \in i .. k - 1 : s[j].c # "nl"
    BY <1>3 DEF InComment
  <2>2. \A j \in i .. k : j = k \/ j \in i .. k - 1
    OBVIOUS
  <2>3. \A j \in i .. k : s[j].c # "nl"
    BY <1>3, <2>1, <2>2
  <2>4. i \in 1 .. k
    OBVIOUS
  <2> QED
    BY <2>1, <2>3, <2>4 DEF InComment
<1> QED
  BY <1>1, <1>2, <1>3

LEMMA GapTaken ==
    ASSUME NEW s, IsGap(s), NEW calls, AreCalls(calls), Head(calls).type \in {"dict", "list"}
    PROVE  Takes(IdleAt(calls), s, IdleAt(calls))
<1>1. IsSeq(s) /\ Len(s) \in Nat /\ \A k \in 1 .. Len(s) : s[k].c \in Space \/ InComment(s, k)
  BY SeqIs DEF IsGap
<1> DEFINE C == {Reading(calls, "comment", << >>)}
           A == [k \in 0 .. Len(s) |-> IF InComment(s, k) THEN C ELSE IdleAt(calls)]
<1>2. \A k \in 0 .. Len(s) : A[k] = IF InComment(s, k) THEN C ELSE IdleAt(calls)
  OBVIOUS
<1> HIDE DEF A
<1>3. ASSUME NEW k \in 1 .. Len(s), NEW x \in A[k - 1]
      PROVE  Parsed(x, s[k]) \in A[k]
  <2>0. k \in Nat \ {0} /\ k - 1 \in 0 .. Len(s) /\ k \in 0 .. Len(s)
    BY <1>1
  <2>1. CASE InComment(s, k - 1)
    <3>1. x = Reading(calls, "comment", << >>)
      BY <1>2, <2>0, <2>1
    <3>2. CASE s[k].c # "nl"
      <4>1. Eats("comment", s[k]) /\ Collected("comment", << >>, s[k]) = << >>
        BY <3>2 DEF Eats, Collected
      <4>2. A[k] = C
        BY <1>2, <2>0, <2>1, <3>2, CommentNext
      <4> QED
        BY <3>1, <4>1, <4>2, EatenStep
    <3>3. CASE s[k].c = "nl"
      <4>1. ~Eats("comment", s[k])
        BY <3>3 DEF Eats
      <4>2. Parsed(x, s[k]) = Loop(calls, s[k])
        <5>1. Over(Reading(calls, "comment", << >>)) = InLoop(calls)
          BY OverIdle
        <5> QED
          BY <3>1, <4>1, <5>1, LoopStep
      <4>3. A[k] = IdleAt(calls)
        BY <1>2, <2>0, <3>3, CommentNext
      <4> QED
        BY <3>3, <4>2, <4>3, SpaceLoop DEF Space
    <3> QED
      BY <3>2, <3>3
  <2>2. CASE ~InComment(s, k - 1)
    <3>1. x \in IdleAt(calls)
      BY <1>2, <2>0, <2>2
    <3>2. CASE InComment(s, k)
      <4>1. s[k].c = ";"
        BY <2>0, <2>2, <3>2, CommentNext
      <4>2. s[k].c \notin Space
        BY <4>1 DEF Space
      <4>3. Parsed(x, s[k]) = Loop(calls, s[k])
        BY <3>1, <4>2, IdleStep
      <4>4. Loop(calls, s[k]) = Reading(calls, "comment", << >>)
        BY <4>1, BracketIs DEF Loop, BeginsWord, Alnum
      <4>5. A[k] = C
        BY <1>2, <2>0, <3>2
      <4> QED
        BY <4>3, <4>4, <4>5
    <3>3. CASE ~InComment(s, k)
      <4>1. s[k].c \in Space /\ A[k] = IdleAt(calls)
        BY <1>1, <1>2, <2>0, <3>3
      <4> QED
        BY <3>1, <4>1, IdleSpace
    <3> QED
      BY <3>2, <3>3
  <2> QED
    BY <2>1, <2>2
<1>4. Takes(A[0], s, A[Len(s)])
  BY <1>1, <1>3, TakesEach
<1>5. ~InComment(s, 0) /\ ~InComment(s, Len(s))
  <2>1. ~InComment(s, 0)
    BY DEF InComment
  <2> QED
    BY <2>1 DEF IsGap
<1>6. 0 \in 0 .. Len(s) /\ Len(s) \in 0 .. Len(s)
  BY <1>1
<1> QED
  BY <1>2, <1>4, <1>5, <1>6

(* A gap or spaces behind a closing bracket                                *)
LEMMA EndTaken ==
    ASSUME NEW s, NEW calls, AreCalls(calls), Head(calls).type \in {"dict", "list"}
    PROVE  /\ IsGap(s) => Takes({Ending(calls)}, s, IdleAt(calls))
           /\ AreSpaces(s) => Takes({Ending(calls)}, s, {Ending(calls)})
<1>1. {Ending(calls)} \in SUBSET IdleAt(calls)
  BY InIdleToo
<1>2. ASSUME IsGap(s) PROVE Takes({Ending(calls)}, s, IdleAt(calls))
  BY <1>1, <1>2, GapTaken, TakesMore
<1> QED
  BY <1>2, SpacesTaken

-----------------------------------------------------------------------------
(* Keys                                                                    *)

(* The first parts of a sequence                                           *)
LEMMA PrefixesOf ==
    ASSUME NEW s, IsSeq(s)
    PROVE  /\ SubSeq(s, 1, 0) = << >> /\ SubSeq(s, 1, Len(s)) = s
           /\ \A k \in 1 .. Len(s) : SubSeq(s, 1, k) = Append(SubSeq(s, 1, k - 1), s[k])
<1>1. s \in Seq(ToSet(s))
  BY DEF IsSeq
<1>2. Len(s) \in Nat
  BY SeqIs
<1>3. SubSeq(s, 1, 0) = << >>
  BY <1>1
<1>4. SubSeq(s, 1, Len(s)) = s
  BY <1>1
<1>5. ASSUME NEW k \in 1 .. Len(s)
      PROVE  SubSeq(s, 1, k) = Append(SubSeq(s, 1, k - 1), s[k])
  BY <1>1, <1>2
<1> QED
  BY <1>3, <1>4, <1>5

(* A stack with another innermost call                                     *)
LEMMA CallsAre ==
    ASSUME NEW type \in {"dict", "list", "tuple"}, NEW key, NEW items, NEW rest, IsSeq(rest)
    PROVE  LET calls == <<Block(type, key, items)>> \o rest
           IN  /\ AreCalls(calls) /\ Head(calls) = Block(type, key, items) /\ Tail(calls) = rest
               /\ Len(calls) = Len(rest) + 1
               /\ Head(calls).type = type /\ Head(calls).key = key /\ Head(calls).items = items
<1> DEFINE calls == <<Block(type, key, items)>> \o rest
<1>1. /\ IsSeq(calls) /\ Len(calls) = Len(rest) + 1
      /\ Head(calls) = Block(type, key, items) /\ Tail(calls) = rest
  BY SeqPush
<1>2. calls # << >>
  <2>1. Len(rest) \in Nat
    BY SeqIs
  <2> HIDE DEF calls
  <2> QED
    BY <1>1, <2>1, SeqNone
<1> HIDE DEF calls
<1>3. AreCalls(calls)
  BY <1>1, <1>2, BlockIs DEF AreCalls
<1> QED
  BY <1>1, <1>3, BlockIs DEF calls

LEMMA TailIs == ASSUME NEW calls, AreCalls(calls) PROVE IsSeq(Tail(calls))
<1>1. calls \in Seq(ToSet(calls)) /\ calls # << >>
  BY DEF AreCalls, IsSeq
<1>2. Tail(calls) \in Seq(ToSet(calls))
  BY <1>1
<1> QED
  BY <1>2, SeqIs

(* The innermost call waits for the key.                                   *)
AwaitsKey(calls, words) ==
    /\ AreCalls(calls)
    /\ \/ Head(calls).type = "dict" /\ Head(calls).key = NoKey
       \/ Head(calls).type = "list" /\ Head(calls).key \in {NoKey, words}

(* The innermost call has read the key.                                    *)
Keyed(calls, words) == <<Block(Head(calls).type, words, Head(calls).items)>> \o Tail(calls)

LEMMA KeyedIs ==
    ASSUME NEW calls, AreCalls(calls), NEW words
    PROVE  /\ AreCalls(Keyed(calls, words)) /\ IsSeq(Tail(calls))
           /\ Keyed(calls, words) = <<Block(Head(calls).type, words, Head(calls).items)>> \o Tail(calls)
           /\ Tail(Keyed(calls, words)) = Tail(calls)
           /\ Len(Keyed(calls, words)) = Len(Tail(calls)) + 1
           /\ Head(Keyed(calls, words)).type = Head(calls).type
           /\ Head(Keyed(calls, words)).key = words
           /\ Head(Keyed(calls, words)).items = Head(calls).items
<1>1. Head(calls).type \in {"dict", "list", "tuple"} /\ IsSeq(Tail(calls))
  BY TailIs DEF AreCalls
<1> QED
  BY <1>1, CallsAre DEF Keyed

LEMMA WordIs == ASSUME NEW token, Alnum(token) PROVE token.c \in {"word", "num", "tmo"}
  BY DEF Alnum

LEMMA KeyTaken ==
    ASSUME NEW key, IsKey(key), NEW calls, AwaitsKey(calls, key.words)
    PROVE  Takes(IdleAt(calls), KeyText(key), IdleAt(Keyed(calls, key.words)))
<1> DEFINE words == key.words
           n     == Len(words)
           parts == [k \in DOMAIN words |-> <<words[k]>> \o key.blanks[k]]
           upTo(k) == {Reading(calls, "key", SubSeq(words, 1, k))}
           A     == [k \in 0 .. n |-> IF k = 0 THEN IdleAt(calls) ELSE upTo(k)]
<1>1. /\ IsSeq(words) /\ n \in Nat /\ n \in 1 .. MaxKeyWords /\ DOMAIN words = 1 .. n
      /\ \A k \in 1 .. n : Alnum(words[k]) /\ AreBlanks(key.blanks[k])
  BY SeqIs DEF IsKey
<1>2. IsSeq(parts) /\ Len(parts) = n /\ \A k \in 1 .. n : parts[k] = <<words[k]>> \o key.blanks[k]
  <2>1. parts = [k \in DOMAIN words |-> parts[k]]
    OBVIOUS
  <2>2. \A k \in 1 .. n : parts[k] = <<words[k]>> \o key.blanks[k]
    BY <1>1
  <2> HIDE DEF parts
  <2> QED
    BY <1>1, <2>1, <2>2, SeqMap
<1>3. \A k \in 0 .. n : A[k] = IF k = 0 THEN IdleAt(calls) ELSE upTo(k)
  OBVIOUS
<1>4. KeyText(key) = FlattenSeq(parts) \o <<Ch(":")>>
  BY DEF KeyText
<1>0. AwaitsKey(calls, words)
  OBVIOUS
<1> HIDE DEF A, parts, n, words
<1>5. ASSUME NEW k \in 1 .. n
      PROVE  Takes(A[k - 1], parts[k], A[k])
  <2>0. k - 1 \in 0 .. n /\ k \in 0 .. n /\ k # 0
    BY <1>1
  <2>1. A[k] = upTo(k)
    BY <1>3, <2>0
  <2>2. SubSeq(words, 1, k) = Append(SubSeq(words, 1, k - 1), words[k])
    BY <1>1, PrefixesOf DEF n
  <2>3. ASSUME NEW s \in A[k - 1]
        PROVE  Parsed(s, words[k]) \in upTo(k)
    <3>0. words[k].c \in {"word", "num", "tmo"} /\ Alnum(words[k])
      BY <1>1 DEF Alnum
    <3>1. CASE k = 1
      <4>1. s \in IdleAt(calls)
        <5>1. k - 1 = 0
          BY <3>1
        <5> QED
          BY <1>3, <2>0, <5>1
      <4>2. words[k].c \notin Space
        BY <3>0 DEF Space
      <4>3. Parsed(s, words[k]) = Loop(calls, words[k])
        BY <4>1, <4>2, IdleStep
      <4>4. Loop(calls, words[k]) = Reading(calls, "key", <<words[k]>>)
        <5>1. CASE Head(calls).type = "dict" /\ Head(calls).key = NoKey
          BY <3>0, <5>1, BracketIs DEF Loop, BeginsWord
        <5>2. CASE Head(calls).type = "list"
          BY <3>0, <5>2, BracketIs DEF Loop, BeginsWord
        <5> QED
          BY <1>0, <5>1, <5>2 DEF AwaitsKey
      <4>5. SubSeq(words, 1, k) = <<words[k]>>
        <5>1. SubSeq(words, 1, k - 1) = << >>
          BY <1>1, <3>1, PrefixesOf
        <5>2. \A x : Append(<< >>, x) = <<x>>
          OBVIOUS
        <5> QED
          BY <2>2, <5>1, <5>2
      <4> QED
        BY <4>3, <4>4, <4>5
    <3>2. CASE k # 1
      <4> DEFINE old == SubSeq(words, 1, k - 1)
                 new == SubSeq(words, 1, k)
      <4>1. s = Reading(calls, "key", old)
        <5>1. k - 1 # 0
          BY <1>1, <3>2
        <5> QED
          BY <1>3, <2>0, <5>1
      <4>2. upTo(k) = {Reading(calls, "key", new)} /\ new = Append(old, words[k])
        BY <2>2
      <4> HIDE DEF old, new, upTo
      <4>3. Eats("key", words[k])
        BY <3>0 DEF Eats
      <4>4. Collected("key", old, words[k]) = new
        BY <4>2, <3>0 DEF Collected, Blanks
      <4>5. Parsed(Reading(calls, "key", old), words[k])
              = Reading(calls, "key", Collected("key", old, words[k]))
        BY <4>3, EatenStep
      <4>6. Parsed(s, words[k]) = Reading(calls, "key", new)
        BY <4>1, <4>4, <4>5
      <4> QED
        BY <4>2, <4>6
    <3> QED
      BY <3>1, <3>2
  <2>4. Takes(A[k - 1], <<words[k]>>, upTo(k))
    BY <2>3, TakesOne
  <2>5. Takes(upTo(k), key.blanks[k], upTo(k))
    BY <1>1, BlanksTaken
  <2>6. parts[k] = <<words[k]>> \o key.blanks[k]
    BY <1>2
  <2> HIDE DEF upTo
  <2> QED
    BY <2>1, <2>4, <2>5, <2>6, TakesOn
<1>6. Takes(IdleAt(calls), FlattenSeq(parts), upTo(n))
  <2>1. Takes(A[0], FlattenSeq(parts), A[n])
    BY <1>2, <1>5, TakesFlat
  <2>2. 0 \in 0 .. n /\ n \in 0 .. n /\ n # 0
    BY <1>1
  <2> QED
    BY <1>3, <2>1, <2>2
<1>7. Takes(upTo(n), <<Ch(":")>>, IdleAt(Keyed(calls, words)))
  <2> DEFINE keyed == Keyed(calls, words)
             s == Reading(calls, "key", words)
  <2>1. upTo(n) = {s}
    BY <1>1, PrefixesOf DEF n
  <2>2. Ch(":").c = ":"
    BY DEF Ch
  <2>3. ~Eats("key", Ch(":"))
    BY <2>2 DEF Eats
  <2>4. Over(s) = InLoop(keyed)
    <3>1. Over(s) = CreateKey(calls, words)
      BY ReadingIs DEF Over
    <3>2. ~(Len(words) > MaxKeyWords) /\ ~ \E k \in DOMAIN words : ~Alnum(words[k])
      BY <1>1, ConfigAssumption DEF n
    <3>3. ~(Head(calls).type = "list" /\ Head(calls).key \notin {NoKey, words})
      BY <1>0 DEF AwaitsKey
    <3> QED
      BY <3>1, <3>2, <3>3 DEF CreateKey, Keyed
  <2>5. Head(keyed).type \in {"dict", "list"} /\ Head(keyed).key = words /\ words # NoKey
    <3>1. Head(calls).type \in {"dict", "list"} /\ AreCalls(calls)
      BY <1>0 DEF AwaitsKey
    <3>2. words # NoKey
      BY <1>1, SeqNone DEF NoKey, n
    <3>3. Head(keyed).type = Head(calls).type /\ Head(keyed).key = words
      BY <3>1, KeyedIs
    <3> HIDE DEF keyed
    <3> QED
      BY <3>1, <3>2, <3>3
  <2>6. Loop(keyed, Ch(":")) = Reading(keyed, "delimiter", << >>)
    <3> HIDE DEF keyed
    <3> QED
      BY <2>2, <2>5, BracketIs DEF Loop, BeginsWord, Alnum
  <2>7. Parsed(s, Ch(":")) \in IdleAt(keyed)
    <3>1. Parsed(s, Ch(":")) = Loop(keyed, Ch(":"))
      BY <2>3, <2>4, LoopStep
    <3> QED
      BY <2>6, <3>1, InIdle DEF Idle
  <2> HIDE DEF s, keyed
  <2>8. \A x \in upTo(n) : Parsed(x, Ch(":")) \in IdleAt(keyed)
    BY <2>1, <2>7
  <2>9. Takes(upTo(n), <<Ch(":")>>, IdleAt(keyed))
    <3> HIDE DEF upTo
    <3> QED
      BY <2>8, TakesOne
  <2> QED
    BY <2>9 DEF keyed
<1> HIDE DEF upTo, words
<1>8. Takes(IdleAt(calls), FlattenSeq(parts) \o <<Ch(":")>>, IdleAt(Keyed(calls, words)))
  BY <1>6, <1>7, TakesOn
<1> QED
  BY <1>4, <1>8 DEF words

(* A key, its colon, what is between, and the value                        *)
LEMMA EntryTaken ==
    ASSUME NEW e, IsEntry(e), NEW calls, AwaitsKey(calls, e.key.words),
           NEW text, NEW B, Takes(IdleAt(Keyed(calls, e.key.words)), text, B)
    PROVE  Takes(IdleAt(calls), EntryText(e, text), B)
<1> DEFINE keyed == Keyed(calls, e.key.words)
<1>1. Takes(IdleAt(calls), KeyText(e.key), IdleAt(keyed))
  BY KeyTaken DEF IsEntry
<1>2. AreCalls(keyed) /\ Head(keyed).type \in {"dict", "list"}
  <2>1. Head(calls).type \in {"dict", "list"} /\ AreCalls(calls)
    BY DEF AwaitsKey
  <2> QED
    BY <2>1, KeyedIs
<1> HIDE DEF keyed
<1>3. Takes(IdleAt(keyed), e.between, IdleAt(keyed))
  BY <1>2, GapTaken DEF IsEntry
<1>4. Takes(IdleAt(calls), KeyText(e.key) \o e.between, IdleAt(keyed))
  BY <1>1, <1>3, TakesOn
<1>5. Takes(IdleAt(keyed), text, B)
  BY DEF keyed
<1>6. Takes(IdleAt(calls), KeyText(e.key) \o e.between \o text, B)
  BY <1>4, <1>5, TakesOn
<1> QED
  BY <1>6 DEF EntryText

-----------------------------------------------------------------------------
(* Values                                                                  *)

(* Two states that make the same of the first token                        *)
LEMMA TakesAs ==
    ASSUME NEW s, NEW x, NEW t, NEW B, Takes({x}, t, B), t # << >>, Parsed(s, t[1]) = Parsed(x, t[1])
    PROVE  Takes({s}, t, B)
<1> DEFINE n == Len(t)
<1>1. IsSeq(t) /\ n \in Nat /\ n # 0
  <2>1. IsSeq(t)
    BY DEF Takes
  <2>2. t \in Seq(ToSet(t))
    BY <2>1 DEF IsSeq
  <2> QED
    BY <2>1, <2>2
<1>2. PICK r : r[0] = x /\ r[n] \in B /\ IsParse(r, t)
  BY DEF Takes
<1> DEFINE q == [k \in 0 .. n |-> IF k = 0 THEN s ELSE r[k]]
<1>3. q[0] = s /\ \A k \in 1 .. n : q[k] = r[k]
  BY <1>1
<1> HIDE DEF q
<1>4. ASSUME NEW k \in 1 .. n
      PROVE  q[k] = Parsed(q[k - 1], t[k])
  <2>1. r[k] = Parsed(r[k - 1], t[k])
    BY <1>2 DEF IsParse
  <2>2. CASE k = 1
    BY <1>2, <1>3, <2>1, <2>2
  <2>3. CASE k # 1
    <3>1. k - 1 \in 1 .. n
      BY <1>1, <2>3
    <3> QED
      BY <1>3, <2>1, <3>1
  <2> QED
    BY <2>2, <2>3
<1>5. q[n] \in B
  <2>1. n \in 1 .. n
    BY <1>1
  <2> QED
    BY <1>2, <1>3, <2>1
<1> QED
  BY <1>1, <1>3, <1>4, <1>5 DEF Takes, IsParse

(* What a call has read after an item                                      *)
LEMMA ReturnedIs ==
    ASSUME NEW calls, AreCalls(calls), NEW item
    PROVE  LET next == Returned(calls, item)
               top  == Head(calls)
           IN  /\ AreCalls(next) /\ IsSeq(Tail(calls)) /\ Tail(next) = Tail(calls)
               /\ Len(next) = Len(Tail(calls)) + 1 /\ Head(next).type = top.type
               /\ top.type = "dict" =>
                    next = <<Block("dict", NoKey, Append(top.items, <<top.key, item>>))>> \o Tail(calls)
               /\ top.type # "dict" =>
                    next = <<Block(top.type, top.key, Append(top.items, item))>> \o Tail(calls)
<1> DEFINE next == Returned(calls, item)
           top  == Head(calls)
<1>1. top.type \in {"dict", "list", "tuple"} /\ IsSeq(Tail(calls))
  BY TailIs DEF AreCalls
<1>2. CASE top.type = "dict"
  <2> DEFINE items == Append(top.items, <<top.key, item>>)
  <2>1. next = <<Block("dict", NoKey, items)>> \o Tail(calls)
    BY <1>2 DEF Returned, Added
  <2> HIDE DEF items, next
  <2>2. /\ AreCalls(next) /\ Tail(next) = Tail(calls) /\ Len(next) = Len(Tail(calls)) + 1
        /\ Head(next).type = "dict"
    BY <1>1, <2>1, CallsAre
  <2> QED
    BY <1>1, <1>2, <2>1, <2>2 DEF next, items
<1>3. CASE top.type # "dict"
  <2> DEFINE items == Append(top.items, item)
             type  == top.type
             key   == top.key
  <2>1. next = <<Block(type, key, items)>> \o Tail(calls)
    BY <1>3 DEF Returned, Added
  <2>0. type \in {"dict", "list", "tuple"}
    BY <1>1
  <2> HIDE DEF items, next, type, key
  <2>2. /\ AreCalls(next) /\ Tail(next) = Tail(calls) /\ Len(next) = Len(Tail(calls)) + 1
        /\ Head(next).type = type
    BY <1>1, <2>0, <2>1, CallsAre
  <2> QED
    BY <1>1, <1>3, <2>1, <2>2 DEF next, items, type, key
<1> QED
  BY <1>2, <1>3

LEMMA CommentFirst == ASSUME NEW t, InComment(t, 1) PROVE t[1].c = ";"
<1>1. PICK i \in 1 .. 1 : t[i].c = ";"
  BY DEF InComment
<1>2. i = 1
  OBVIOUS
<1> QED
  BY <1>1, <1>2

(* The innermost call reads a value.                                       *)
ReadsStr(calls, v) ==
    /\ AreCalls(calls)
    /\ \/ Head(calls).type = "dict" /\ Head(calls).key # NoKey
       \/ Head(calls).type = "tuple" /\ v.word.c # "path" /\ AreSpaces(v.after)

LEMMA StrTaken ==
    ASSUME NEW v, IsStr(v), NEW calls, ReadsStr(calls, v)
    PROVE  Takes(IdleAt(calls), StrText(v), IdleAt(Returned(calls, Str(v.word))))
<1> DEFINE word == v.word
           next == Returned(calls, Str(word))
           s    == Reading(calls, "val", <<word>>)
           first == v.after[1]
<1>0. AreCalls(calls) /\ word.c \in {"word", "num", "tmo", "name", "path"}
  BY DEF IsStr, ValueChar, Alnum, ReadsStr
<1>1. ASSUME NEW x \in IdleAt(calls)
      PROVE  Parsed(x, word) = s
  <2>1. Parsed(x, word) = Loop(calls, word)
    <3>1. word.c \notin Space
      BY <1>0 DEF Space
    <3> HIDE DEF word
    <3> QED
      BY <3>1, IdleStep
  <2>2. BeginsWord(Head(calls), word)
    BY <1>0 DEF BeginsWord, ReadsStr, Alnum
  <2>3. Loop(calls, word) = s
    BY <1>0, <2>2, BracketIs DEF Loop, ReadsStr
  <2> QED
    BY <2>1, <2>3
<1>2. Takes(IdleAt(calls), <<word>>, {s})
  <2> HIDE DEF word, s
  <2> QED
    BY <1>1, TakesOne
<1>3. Takes({s}, v.blanks, {s})
  BY BlanksTaken DEF IsStr
<1>4. AreCalls(next) /\ Head(next).type = Head(calls).type
  <2> HIDE DEF word
  <2> QED
    BY <1>0, ReturnedIs
<1>5. Takes(IdleAt(next), v.after, IdleAt(next))
  <2> HIDE DEF next
  <2>1. CASE Head(calls).type = "dict"
    BY <1>4, <2>1, GapTaken DEF IsStr
  <2>2. CASE AreSpaces(v.after)
    BY <1>4, <2>2, SpacesTaken
  <2> QED
    BY <2>1, <2>2 DEF ReadsStr
<1>6. Takes({InLoop(next)}, v.after, IdleAt(next))
  <2> HIDE DEF next
  <2>1. InLoop(next) \in IdleAt(next)
    BY InIdleToo
  <2> QED
    BY <1>5, <2>1, TakesMore
<1>7. v.after # << >> /\ first.c \in {"nl", ";"}
  <2> DEFINE t == v.after
  <2>1. IsSeq(t) /\ t # << >> /\ t[1].c \notin Blanks /\ \A k \in DOMAIN t : t[k].c \in Space \/ InComment(t, k)
    BY DEF IsStr, IsGap
  <2> HIDE DEF t
  <2>2. t[1].c \in Space \/ InComment(t, 1)
    <3>1. t \in Seq(ToSet(t))
      BY <2>1 DEF IsSeq
    <3>2. 1 \in DOMAIN t
      BY <2>1, <3>1
    <3> QED
      BY <2>1, <3>2
  <2>3. t[1].c \in Space => t[1].c = "nl"
    BY <2>1 DEF Space, Blanks
  <2>4. InComment(t, 1) => t[1].c = ";"
    BY CommentFirst
  <2>5. t # << >> /\ t[1].c \in {"nl", ";"}
    BY <2>1, <2>2, <2>3, <2>4
  <2> QED
    BY <2>5 DEF t, first
<1> HIDE DEF first
<1>8. Parsed(s, first) = Parsed(InLoop(next), first)
  <2>1. ~Eats("val", first) /\ ~Eats("loop", first)
    BY <1>7 DEF Eats
  <2>2. Over(s) = InLoop(next)
    <3>1. Over(s) = ParseStr(calls, <<word>>)
      BY ReadingIs DEF Over
    <3>2. Len(<<word>>) = 1 /\ DOMAIN <<word>> = {1} /\ <<word>>[1] = word
      OBVIOUS
    <3>3. ValueChar(word)
      BY DEF IsStr
    <3> HIDE DEF word
    <3>4. ParseStr(calls, <<word>>) = InLoop(next)
      BY <3>2, <3>3 DEF ParseStr
    <3> QED
      BY <3>1, <3>4
  <2> HIDE DEF next
  <2>3. Over(InLoop(next)) = InLoop(next)
    BY OverIdle DEF InLoop, Idle
  <2>4. Parsed(s, first) = Loop(next, first)
    BY <2>1, <2>2, LoopStep
  <2>5. Parsed(InLoop(next), first) = Loop(next, first)
    BY <2>1, <2>3, LoopStep DEF InLoop
  <2> QED
    BY <2>4, <2>5
<1>9. Takes({s}, v.after, IdleAt(next))
  <2> HIDE DEF s, next
  <2> QED
    BY <1>6, <1>7, <1>8, TakesAs DEF first
<1> HIDE DEF s, next
<1>10. Takes(IdleAt(calls), <<word>> \o v.blanks, {s})
  BY <1>2, <1>3, TakesOn
<1>11. Takes(IdleAt(calls), <<word>> \o v.blanks \o v.after, IdleAt(next))
  BY <1>9, <1>10, TakesOn
<1> QED
  BY <1>11 DEF StrText, next

(* The innermost call is that of a dictionary or a list and waits for a    *)
(* value.                                                                  *)
ReadsValue(calls) ==
    /\ AreCalls(calls)
    /\ Head(calls).type \in {"dict", "list"} /\ Head(calls).key # NoKey

(* A bracket opens a block in such a call.                                 *)
LEMMA OpenTaken ==
    ASSUME NEW calls, ReadsValue(calls), NEW type \in {"dict", "list", "tuple"},
           NEW open \in {"{", "[", "("}, Opened(open) = Block(type, NoKey, << >>)
    PROVE  Takes(IdleAt(calls), <<Ch(open)>>, IdleAt(<<Block(type, NoKey, << >>)>> \o calls))
<1> DEFINE inner == <<Block(type, NoKey, << >>)>> \o calls
<1>1. Ch(open).c = open
  BY DEF Ch
<1>2. ASSUME NEW x \in IdleAt(calls)
      PROVE  Parsed(x, Ch(open)) \in IdleAt(inner)
  <2>1. Parsed(x, Ch(open)) = Loop(calls, Ch(open))
    <3>1. Ch(open).c \notin Space
      BY <1>1 DEF Space
    <3> QED
      BY <3>1, IdleStep
  <2>2. Loop(calls, Ch(open)) = InLoop(<<Opened(open)>> \o calls)
    BY <1>1, BracketIs DEF Loop, ReadsValue, BeginsWord, Alnum
  <2> QED
    BY <2>1, <2>2, InIdleToo
<1> HIDE DEF inner
<1>3. Takes(IdleAt(calls), <<Ch(open)>>, IdleAt(inner))
  BY <1>2, TakesOne
<1> QED
  BY <1>3 DEF inner

(* Its bracket closes it.                                                  *)
LEMMA CloseTaken ==
    ASSUME NEW calls, ReadsValue(calls), NEW type \in {"dict", "list", "tuple"}, NEW key, NEW items,
           NEW close, close = Bracket[type]
    PROVE  Takes(IdleAt(<<Block(type, key, items)>> \o calls), <<Ch(close)>>,
                 {Ending(Returned(calls, [type |-> type, items |-> items]))})
<1> DEFINE inner == <<Block(type, key, items)>> \o calls
           item  == [type |-> type, items |-> items]
           end   == Ending(Returned(calls, item))
<1>1. Ch(close).c = close /\ close \in {"}", "]", ")"}
  BY BracketIs DEF Ch
<1>2. /\ Head(inner) = Block(type, key, items) /\ Tail(inner) = calls /\ Len(inner) = Len(calls) + 1
      /\ Head(inner).type = type
  BY CallsAre DEF ReadsValue, AreCalls
<1>3. Len(calls) \in Nat /\ Len(calls) # 0
  <2>1. calls \in Seq(ToSet(calls)) /\ calls # << >>
    BY DEF ReadsValue, AreCalls, IsSeq
  <2> QED
    BY <2>1
<1>4. Item(Head(inner)) = item
  <2> HIDE DEF inner
  <2> QED
    BY <1>2, BlockIs DEF Item
<1> HIDE DEF inner, item
<1>5. Closed(inner) = end
  <2>1. Len(inner) # 1
    BY <1>2, <1>3
  <2> QED
    BY <1>2, <1>4, <2>1 DEF Closed, Ending
<1>6. Loop(inner, Ch(close)) = Closed(inner)
  BY <1>1, <1>2, BracketIs DEF Loop, BeginsWord, Alnum
<1>7. ASSUME NEW x \in IdleAt(inner)
      PROVE  Parsed(x, Ch(close)) \in {end}
  <2>1. Ch(close).c \notin Space
    BY <1>1 DEF Space
  <2>2. Parsed(x, Ch(close)) = Loop(inner, Ch(close))
    BY <2>1, IdleStep
  <2> QED
    BY <1>5, <1>6, <2>2
<1> HIDE DEF end
<1>8. Takes(IdleAt(inner), <<Ch(close)>>, {end})
  BY <1>7, TakesOne
<1> QED
  BY <1>8 DEF inner, item, end

LEMMA OpenedIs ==
    /\ Opened("{") = Block("dict", NoKey, << >>)
    /\ Opened("[") = Block("list", NoKey, << >>)
    /\ Opened("(") = Block("tuple", NoKey, << >>)
  BY DEF Opened

(* Up to its closing bracket                                               *)
TupleStart(v) ==
    <<Ch("(")>> \o v.start \o FlattenSeq([k \in DOMAIN v.strs |-> StrText(v.strs[k])]) \o <<Ch(")")>>

LEMMA TupleTaken ==
    ASSUME NEW v, IsTuple(v), NEW calls, ReadsValue(calls)
    PROVE  Takes(IdleAt(calls), TupleStart(v), {Ending(Returned(calls, TupleItem(v)))})
<1> DEFINE strs  == v.strs
           n     == Len(strs)
           items == [k \in DOMAIN strs |-> Str(strs[k].word)]
           parts == [k \in DOMAIN strs |-> StrText(strs[k])]
           inner(k) == <<Block("tuple", NoKey, SubSeq(items, 1, k))>> \o calls
           A     == [k \in 0 .. n |-> IdleAt(inner(k))]
<1>1. /\ n \in Nat /\ DOMAIN strs = 1 .. n
      /\ \A k \in 1 .. n : IsStr(strs[k]) /\ strs[k].word.c # "path" /\ AreSpaces(strs[k].after)
  BY SeqIs DEF IsTuple
<1>2. IsSeq(items) /\ Len(items) = n /\ \A k \in 1 .. n : items[k] = Str(strs[k].word)
  <2>1. items = [k \in DOMAIN strs |-> items[k]] /\ IsSeq(strs)
    BY DEF IsTuple
  <2>2. \A k \in 1 .. n : items[k] = Str(strs[k].word)
    BY <1>1
  <2> HIDE DEF items, strs
  <2> QED
    BY <2>1, <2>2, SeqMap
<1>3. IsSeq(parts) /\ Len(parts) = n /\ \A k \in 1 .. n : parts[k] = StrText(strs[k])
  <2>1. parts = [k \in DOMAIN strs |-> parts[k]] /\ IsSeq(strs)
    BY DEF IsTuple
  <2>2. \A k \in 1 .. n : parts[k] = StrText(strs[k])
    BY <1>1
  <2> HIDE DEF parts, strs
  <2> QED
    BY <2>1, <2>2, SeqMap
<1>4. \A k \in 0 .. n : A[k] = IdleAt(inner(k))
  OBVIOUS
<1>5. TupleStart(v) = <<Ch("(")>> \o v.start \o FlattenSeq(parts) \o <<Ch(")")>>
  BY DEF TupleStart
<1>6. TupleItem(v) = [type |-> "tuple", items |-> items]
  BY DEF TupleItem
<1>0. AreSpaces(v.start)
  BY DEF IsTuple
<1> HIDE DEF A, parts, n, strs, items
<1>7. ASSUME NEW k \in 1 .. n
      PROVE  Takes(A[k - 1], parts[k], A[k])
  <2> DEFINE old == SubSeq(items, 1, k - 1)
             new == SubSeq(items, 1, k)
             str == strs[k]
             was == <<Block("tuple", NoKey, old)>> \o calls
  <2>0. k - 1 \in 0 .. n /\ k \in 0 .. n
    BY <1>1
  <2>1. new = Append(old, Str(str.word))
    BY <1>2, PrefixesOf
  <2>2. A[k - 1] = IdleAt(was) /\ A[k] = IdleAt(<<Block("tuple", NoKey, new)>> \o calls)
    BY <1>4, <2>0
  <2>3. parts[k] = StrText(str)
    BY <1>3
  <2>4. IsStr(str) /\ str.word.c # "path" /\ AreSpaces(str.after)
    BY <1>1
  <2> HIDE DEF old, new, str
  <2>5. /\ AreCalls(was) /\ Tail(was) = calls
        /\ Head(was).type = "tuple" /\ Head(was).key = NoKey /\ Head(was).items = old
    BY CallsAre DEF ReadsValue, AreCalls
  <2> HIDE DEF was
  <2>6. Takes(IdleAt(was), StrText(str), IdleAt(Returned(was, Str(str.word))))
    <3>1. ReadsStr(was, str)
      BY <2>4, <2>5 DEF ReadsStr
    <3> QED
      BY <2>4, <3>1, StrTaken
  <2>7. Returned(was, Str(str.word)) = <<Block("tuple", NoKey, new)>> \o calls
    BY <2>1, <2>5, ReturnedIs
  <2> QED
    BY <2>2, <2>3, <2>6, <2>7
<1>8. Takes(IdleAt(inner(0)), FlattenSeq(parts), IdleAt(inner(n)))
  <2>1. Takes(A[0], FlattenSeq(parts), A[n])
    BY <1>3, <1>7, TakesFlat
  <2>2. 0 \in 0 .. n /\ n \in 0 .. n
    BY <1>1
  <2> HIDE DEF inner
  <2> QED
    BY <1>4, <2>1, <2>2
<1>9. /\ inner(0) = <<Block("tuple", NoKey, << >>)>> \o calls
      /\ inner(n) = <<Block("tuple", NoKey, items)>> \o calls
  BY <1>2, PrefixesOf
<1>10. AreCalls(inner(0))
  <2>1. IsSeq(calls)
    BY DEF ReadsValue, AreCalls
  <2>2. AreCalls(<<Block("tuple", NoKey, << >>)>> \o calls)
    BY <2>1, CallsAre
  <2> HIDE DEF inner
  <2> QED
    BY <1>9, <2>2
<1> HIDE DEF inner
<1>11. Takes(IdleAt(calls), <<Ch("(")>>, IdleAt(inner(0)))
  BY <1>9, OpenedIs, OpenTaken
<1>12. Takes(IdleAt(inner(0)), v.start, IdleAt(inner(0)))
  BY <1>0, <1>10, SpacesTaken
<1>13. Takes(IdleAt(inner(n)), <<Ch(")")>>, {Ending(Returned(calls, TupleItem(v)))})
  BY <1>6, <1>9, BracketIs, CloseTaken
<1>14. Takes(IdleAt(calls), <<Ch("(")>> \o v.start, IdleAt(inner(0)))
  BY <1>11, <1>12, TakesOn
<1>15. Takes(IdleAt(calls), <<Ch("(")>> \o v.start \o FlattenSeq(parts), IdleAt(inner(n)))
  BY <1>8, <1>14, TakesOn
<1>16. Takes(IdleAt(calls), <<Ch("(")>> \o v.start \o FlattenSeq(parts) \o <<Ch(")")>>,
             {Ending(Returned(calls, TupleItem(v)))})
  BY <1>13, <1>15, TakesOn
<1> QED
  BY <1>5, <1>16

(* A block and what follows its closing bracket                            *)
LEMMA AfterTaken ==
    ASSUME NEW calls, ReadsValue(calls), NEW start, NEW item,
           Takes(IdleAt(calls), start, {Ending(Returned(calls, item))}), NEW after
    PROVE  LET next == Returned(calls, item)
           IN  /\ IsGap(after) => Takes(IdleAt(calls), start \o after, IdleAt(next))
               /\ AreSpaces(after) => Takes(IdleAt(calls), start \o after, {Ending(next)})
<1> DEFINE next == Returned(calls, item)
<1>1. AreCalls(next) /\ Head(next).type \in {"dict", "list"}
  BY ReturnedIs DEF ReadsValue
<1> HIDE DEF next
<1>2. Takes(IdleAt(calls), start, {Ending(next)})
  BY DEF next
<1>3. IsGap(after) => Takes(IdleAt(calls), start \o after, IdleAt(next))
  BY <1>1, <1>2, EndTaken, TakesOn
<1>4. AreSpaces(after) => Takes(IdleAt(calls), start \o after, {Ending(next)})
  BY <1>1, <1>2, EndTaken, TakesOn
<1> QED
  BY <1>3, <1>4 DEF next

LEMMA LeafTaken ==
    ASSUME NEW v, IsLeaf(v), NEW calls, ReadsValue(calls),
           Head(calls).type = "list" => v.type = "tuple"
    PROVE  LET next == Returned(calls, LeafItem(v))
           IN  /\ Takes(IdleAt(calls), LeafText(v), IdleAt(next))
               /\ v.type = "tuple" /\ AreSpaces(v.after) =>
                    Takes(IdleAt(calls), LeafText(v), {Ending(next)})
<1>1. CASE v.type = "str"
  <2>1. IsStr(v) /\ LeafText(v) = StrText(v) /\ LeafItem(v) = Str(v.word)
    BY <1>1 DEF IsLeaf, LeafText, LeafItem
  <2>2. ReadsStr(calls, v)
    BY <1>1 DEF ReadsStr, ReadsValue
  <2>3. Takes(IdleAt(calls), StrText(v), IdleAt(Returned(calls, Str(v.word))))
    BY <2>1, <2>2, StrTaken
  <2> QED
    BY <1>1, <2>1, <2>3
<1>2. CASE v.type = "tuple"
  <2>1. IsTuple(v) /\ LeafText(v) = TupleText(v) /\ LeafItem(v) = TupleItem(v)
    BY <1>2 DEF IsLeaf, LeafText, LeafItem
  <2>2. TupleText(v) = TupleStart(v) \o v.after
    BY DEF TupleText, TupleStart
  <2>3. IsGap(v.after)
    BY <2>1 DEF IsTuple
  <2>4. Takes(IdleAt(calls), TupleStart(v), {Ending(Returned(calls, TupleItem(v)))})
    BY <2>1, TupleTaken
  <2>5. LET next == Returned(calls, TupleItem(v))
        IN  /\ Takes(IdleAt(calls), TupleStart(v) \o v.after, IdleAt(next))
            /\ AreSpaces(v.after) => Takes(IdleAt(calls), TupleStart(v) \o v.after, {Ending(next)})
    BY <2>3, <2>4, AfterTaken
  <2> QED
    BY <2>1, <2>2, <2>5
<1> QED
  BY <1>1, <1>2 DEF IsLeaf

(* The innermost call when it has read the key of an entry, and then its   *)
(* value                                                                   *)
NextInner(type, items, rest, words, item) ==
    IF type = "dict" THEN <<Block("dict", NoKey, Append(items, <<words, item>>))>> \o rest
    ELSE <<Block("list", words, Append(items, item))>> \o rest

Inner(type, key, items, rest) == <<Block(type, key, items)>> \o rest

AwaitsEntry(type, key, words) ==
    /\ type \in {"dict", "list"} /\ words # NoKey
    /\ type = "dict" => key = NoKey
    /\ type = "list" => key \in {NoKey, words}

LEMMA KeyedInner ==
    ASSUME NEW type, NEW key, NEW words, AwaitsEntry(type, key, words),
           NEW items, NEW rest, IsSeq(rest), NEW was, was = Inner(type, key, items, rest), NEW item
    PROVE  /\ AwaitsKey(was, words)
           /\ ReadsValue(Keyed(was, words)) /\ Head(Keyed(was, words)).type = type
           /\ Returned(Keyed(was, words), item) = NextInner(type, items, rest, words, item)
<1>0. /\ type \in {"dict", "list"} /\ words # NoKey
      /\ type = "dict" => key = NoKey
      /\ type = "list" => key \in {NoKey, words}
  BY DEF AwaitsEntry
<1> DEFINE keyed == Keyed(was, words)
<1>1. /\ AreCalls(was) /\ Tail(was) = rest
      /\ Head(was).type = type /\ Head(was).key = key /\ Head(was).items = items
  BY <1>0, CallsAre DEF Inner
<1>2. AwaitsKey(was, words)
  BY <1>0, <1>1 DEF AwaitsKey
<1>3. /\ AreCalls(keyed) /\ Tail(keyed) = rest
      /\ Head(keyed).type = type /\ Head(keyed).key = words /\ Head(keyed).items = items
  BY <1>1, KeyedIs
<1> HIDE DEF keyed
<1>4. ReadsValue(keyed)
  BY <1>0, <1>3 DEF ReadsValue
<1>5. Returned(keyed, item) = NextInner(type, items, rest, words, item)
  <2>1. CASE type = "dict"
    BY <1>3, <2>1, ReturnedIs DEF NextInner
  <2>2. CASE type = "list"
    BY <1>3, <2>2, ReturnedIs DEF NextInner
  <2> QED
    BY <1>0, <2>1, <2>2
<1> QED
  BY <1>2, <1>3, <1>4, <1>5 DEF keyed

LEMMA KeyWords == ASSUME NEW e, IsEntry(e) PROVE e.key.words # NoKey
  BY SeqNone DEF IsEntry, IsKey, NoKey

(* Up to its closing bracket                                               *)
BlockStart(v, open, close) ==
    <<Ch(open)>> \o v.start
    \o FlattenSeq([k \in DOMAIN v.entries |-> EntryText(v.entries[k], LeafText(v.entries[k].value))])
    \o <<Ch(close)>>

(* The key of the call and its items after each of the entries             *)
AreRead(v, type, key, items) ==
    /\ IsSeq(items) /\ Len(items) = Len(v.entries) /\ key[0] = NoKey
    /\ \A k \in 1 .. Len(v.entries) :
         LET e == v.entries[k]
         IN  \/ /\ type = "dict" /\ key[k - 1] = NoKey /\ key[k] = NoKey
                /\ items[k] = <<e.key.words, LeafItem(e.value)>>
             \/ /\ type = "list" /\ key[k - 1] \in {NoKey, e.key.words} /\ key[k] = e.key.words
                /\ items[k] = LeafItem(e.value) /\ e.value.type = "tuple"

AreBrackets(type, open, close) ==
    /\ type \in {"dict", "list"} /\ open \in {"{", "["}
    /\ Opened(open) = Block(type, NoKey, << >>) /\ close = Bracket[type]

LEMMA BlockTaken ==
    ASSUME NEW v, IsBlock(v), NEW calls, ReadsValue(calls),
           NEW type, NEW open, NEW close, AreBrackets(type, open, close),
           NEW key, NEW items, AreRead(v, type, key, items)
    PROVE  Takes(IdleAt(calls), BlockStart(v, open, close),
                 {Ending(Returned(calls, [type |-> type, items |-> items]))})
<1> DEFINE es    == v.entries
           n     == Len(es)
           parts == [k \in DOMAIN es |-> EntryText(es[k], LeafText(es[k].value))]
           inner(k) == <<Block(type, key[k], SubSeq(items, 1, k))>> \o calls
           A     == [k \in 0 .. n |-> IdleAt(inner(k))]
           end   == {Ending(Returned(calls, [type |-> type, items |-> items]))}
<1>1. /\ n \in Nat /\ DOMAIN es = 1 .. n
      /\ \A k \in 1 .. n : IsEntry(es[k]) /\ IsLeaf(es[k].value)
  BY SeqIs DEF IsBlock
<1>2. IsSeq(calls) /\ IsGap(v.start)
  BY DEF ReadsValue, AreCalls, IsBlock
<1>3. /\ IsSeq(parts) /\ Len(parts) = n
      /\ \A k \in 1 .. n : parts[k] = EntryText(es[k], LeafText(es[k].value))
  <2>1. parts = [k \in DOMAIN es |-> parts[k]] /\ IsSeq(es)
    BY DEF IsBlock
  <2>2. \A k \in 1 .. n : parts[k] = EntryText(es[k], LeafText(es[k].value))
    BY <1>1
  <2> HIDE DEF parts, es
  <2> QED
    BY <2>1, <2>2, SeqMap
<1>4. \A k \in 0 .. n : A[k] = IdleAt(inner(k))
  OBVIOUS
<1>5. BlockStart(v, open, close) = <<Ch(open)>> \o v.start \o FlattenSeq(parts) \o <<Ch(close)>>
  BY DEF BlockStart
<1>6. ASSUME NEW k \in 1 .. n
      PROVE  \/ /\ type = "dict" /\ key[k - 1] = NoKey /\ key[k] = NoKey
                /\ items[k] = <<es[k].key.words, LeafItem(es[k].value)>>
             \/ /\ type = "list" /\ key[k - 1] \in {NoKey, es[k].key.words} /\ key[k] = es[k].key.words
                /\ items[k] = LeafItem(es[k].value) /\ es[k].value.type = "tuple"
  BY DEF AreRead
<1>0. Len(items) = n /\ IsSeq(items) /\ key[0] = NoKey
  BY DEF AreRead
<1>10. type \in {"dict", "list"}
  BY DEF AreBrackets
<1> HIDE DEF A, parts, n, es, end
<1>7. ASSUME NEW k \in 1 .. n
      PROVE  Takes(A[k - 1], parts[k], A[k])
  <2> DEFINE old   == SubSeq(items, 1, k - 1)
             new   == SubSeq(items, 1, k)
             e     == es[k]
             words == e.key.words
             k0    == key[k - 1]
             k1    == key[k]
             item  == LeafItem(e.value)
             was   == <<Block(type, k0, old)>> \o calls
             is    == <<Block(type, k1, new)>> \o calls
             keyed == Keyed(was, words)
  <2>0. k - 1 \in 0 .. n /\ k \in 0 .. n
    BY <1>1
  <2>1. new = Append(old, items[k])
    BY <1>0, PrefixesOf
  <2>2. A[k - 1] = IdleAt(was) /\ A[k] = IdleAt(is)
    BY <1>4, <2>0
  <2>3. parts[k] = EntryText(e, LeafText(e.value))
    BY <1>3
  <2>4. IsEntry(e) /\ IsLeaf(e.value) /\ words # NoKey
    BY <1>1, KeyWords
  <2>5. \/ type = "dict" /\ k0 = NoKey /\ k1 = NoKey /\ new = Append(old, <<words, item>>)
        \/ type = "list" /\ k0 \in {NoKey, words} /\ k1 = words /\ new = Append(old, item)
           /\ e.value.type = "tuple"
    BY <1>6, <2>1
  <2> HIDE DEF old, new, e, k0, k1, item
  <2>6. /\ AwaitsKey(was, words) /\ ReadsValue(keyed) /\ Head(keyed).type = type
        /\ Returned(keyed, item) = NextInner(type, old, calls, words, item)
    <3>1. AwaitsEntry(type, k0, words)
      BY <1>10, <2>4, <2>5 DEF AwaitsEntry
    <3>2. was = Inner(type, k0, old, calls)
      BY DEF Inner
    <3> HIDE DEF words, was, inner
    <3> QED
      BY <1>2, <3>1, <3>2, KeyedInner
  <2>7. NextInner(type, old, calls, words, item) = is
    BY <2>5 DEF NextInner
  <2> HIDE DEF keyed, is, was
  <2>8. Takes(IdleAt(keyed), LeafText(e.value), IdleAt(is))
    <3>1. Takes(IdleAt(keyed), LeafText(e.value), IdleAt(Returned(keyed, LeafItem(e.value))))
      BY <2>4, <2>5, <2>6, LeafTaken
    <3> QED
      BY <2>6, <2>7, <3>1 DEF item
  <2>9. Takes(IdleAt(was), EntryText(e, LeafText(e.value)), IdleAt(is))
    BY <2>4, <2>6, <2>8, EntryTaken DEF keyed
  <2> QED
    BY <2>2, <2>3, <2>9
<1>8. Takes(IdleAt(inner(0)), FlattenSeq(parts), IdleAt(inner(n)))
  <2>1. Takes(A[0], FlattenSeq(parts), A[n])
    BY <1>3, <1>7, TakesFlat
  <2>2. 0 \in 0 .. n /\ n \in 0 .. n
    BY <1>1
  <2> HIDE DEF inner
  <2> QED
    BY <1>4, <2>1, <2>2
<1>9. /\ inner(0) = <<Block(type, NoKey, << >>)>> \o calls
      /\ inner(n) = <<Block(type, key[n], items)>> \o calls
  BY <1>0, PrefixesOf
<1>17. AreCalls(inner(0)) /\ Head(inner(0)).type \in {"dict", "list"}
  <2> DEFINE first == <<Block(type, NoKey, << >>)>> \o calls
  <2>1. AreCalls(first) /\ Head(first).type \in {"dict", "list"}
    BY <1>2, <1>10, CallsAre
  <2> HIDE DEF inner
  <2> QED
    BY <1>9, <2>1
<1> HIDE DEF inner
<1>11. Takes(IdleAt(calls), <<Ch(open)>>, IdleAt(inner(0)))
  BY <1>9, OpenTaken DEF AreBrackets
<1>12. Takes(IdleAt(inner(0)), v.start, IdleAt(inner(0)))
  BY <1>2, <1>17, GapTaken
<1>13. Takes(IdleAt(inner(n)), <<Ch(close)>>, end)
  BY <1>9, CloseTaken DEF end, AreBrackets
<1>14. Takes(IdleAt(calls), <<Ch(open)>> \o v.start, IdleAt(inner(0)))
  BY <1>11, <1>12, TakesOn
<1>15. Takes(IdleAt(calls), <<Ch(open)>> \o v.start \o FlattenSeq(parts), IdleAt(inner(n)))
  BY <1>8, <1>14, TakesOn
<1>16. Takes(IdleAt(calls), <<Ch(open)>> \o v.start \o FlattenSeq(parts) \o <<Ch(close)>>, end)
  BY <1>13, <1>15, TakesOn
<1> QED
  BY <1>5, <1>16 DEF end

LEMMA DictTaken ==
    ASSUME NEW v, IsBlock(v), NEW calls, ReadsValue(calls)
    PROVE  Takes(IdleAt(calls), BlockStart(v, "{", "}"), {Ending(Returned(calls, DictItem(v)))})
<1> DEFINE es    == v.entries
           n     == Len(es)
           items == [k \in DOMAIN es |-> <<es[k].key.words, LeafItem(es[k].value)>>]
           key   == [k \in 0 .. n |-> NoKey]
<1>1. n \in Nat /\ DOMAIN es = 1 .. n /\ IsSeq(es)
  BY SeqIs DEF IsBlock
<1>2. items = [k \in DOMAIN es |-> items[k]]
  OBVIOUS
<1>3. \A k \in 1 .. n : items[k] = <<es[k].key.words, LeafItem(es[k].value)>>
  BY <1>1
<1>4. \A k \in 0 .. n : key[k] = NoKey
  OBVIOUS
<1>5. DictItem(v) = [type |-> "dict", items |-> items]
  BY DEF DictItem
<1> HIDE DEF items, key
<1>6. IsSeq(items) /\ Len(items) = n
  <2> HIDE DEF es
  <2> QED
    BY <1>1, <1>2, SeqMap
<1>7. AreRead(v, "dict", key, items)
  <2>1. 0 \in 0 .. n /\ \A k \in 1 .. n : k - 1 \in 0 .. n /\ k \in 0 .. n
    BY <1>1
  <2>2. key[0] = NoKey /\ \A k \in 1 .. n : key[k - 1] = NoKey /\ key[k] = NoKey
    BY <1>4, <2>1
  <2> QED
    BY <1>3, <1>6, <2>2 DEF AreRead
<1>8. AreBrackets("dict", "{", "}")
  BY OpenedIs, BracketIs DEF AreBrackets
<1> QED
  BY <1>5, <1>7, <1>8, BlockTaken

LEMMA ListTaken ==
    ASSUME NEW v, IsList(v), NEW calls, ReadsValue(calls)
    PROVE  Takes(IdleAt(calls), BlockStart(v, "[", "]"), {Ending(Returned(calls, ListItem(v)))})
<1> DEFINE es    == v.entries
           n     == Len(es)
           items == [k \in DOMAIN es |-> LeafItem(es[k].value)]
           key   == [k \in 0 .. n |-> IF k = 0 THEN NoKey ELSE es[k].key.words]
<1>1. /\ n \in Nat /\ DOMAIN es = 1 .. n /\ IsSeq(es) /\ IsBlock(v)
      /\ \A k \in 1 .. n : es[k].value.type = "tuple" /\ es[k].key.words = es[1].key.words
  BY SeqIs DEF IsList, IsBlock
<1>2. items = [k \in DOMAIN es |-> items[k]]
  OBVIOUS
<1>3. \A k \in 1 .. n : items[k] = LeafItem(es[k].value)
  BY <1>1
<1>4. \A k \in 0 .. n : key[k] = IF k = 0 THEN NoKey ELSE es[k].key.words
  OBVIOUS
<1>5. ListItem(v) = [type |-> "list", items |-> items]
  BY DEF ListItem
<1> HIDE DEF items, key
<1>6. IsSeq(items) /\ Len(items) = n
  <2> HIDE DEF es
  <2> QED
    BY <1>1, <1>2, SeqMap
<1>7. AreRead(v, "list", key, items)
  <2>1. 0 \in 0 .. n /\ \A k \in 1 .. n : k - 1 \in 0 .. n /\ k \in 0 .. n /\ k # 0
    BY <1>1
  <2>2. key[0] = NoKey
    BY <1>4, <2>1
  <2>3. ASSUME NEW k \in 1 .. n
        PROVE  key[k - 1] \in {NoKey, es[k].key.words} /\ key[k] = es[k].key.words
    <3>1. key[k] = es[k].key.words
      BY <1>4, <2>1
    <3>2. CASE k - 1 = 0
      BY <2>2, <3>1, <3>2
    <3>3. CASE k - 1 # 0
      <4>1. k - 1 \in 1 .. n
        BY <1>1, <3>3
      <4>2. key[k - 1] = es[k - 1].key.words
        BY <1>4, <2>1, <3>3
      <4>3. es[k - 1].key.words = es[1].key.words /\ es[k].key.words = es[1].key.words
        BY <1>1, <4>1
      <4> QED
        BY <3>1, <4>2, <4>3
    <3> QED
      BY <3>2, <3>3
  <2> QED
    BY <1>1, <1>3, <1>6, <2>2, <2>3 DEF AreRead
<1>8. AreBrackets("list", "[", "]")
  BY OpenedIs, BracketIs DEF AreBrackets
<1> QED
  BY <1>1, <1>5, <1>7, <1>8, BlockTaken

(* A value of the file's dictionary                                        *)
LEMMA SectionTaken ==
    ASSUME NEW v, IsSection(v), NEW calls, ReadsValue(calls), Head(calls).type = "dict"
    PROVE  LET next == Returned(calls, SectionItem(v))
           IN  /\ Takes(IdleAt(calls), SectionText(v), IdleAt(next))
               /\ v.type # "str" /\ AreSpaces(v.after) =>
                    Takes(IdleAt(calls), SectionText(v), {Ending(next)})
<1>1. CASE v.type = "list" /\ IsList(v)
  <2>1. SectionText(v) = BlockStart(v, "[", "]") \o v.after
    BY <1>1 DEF SectionText, BlockText, BlockStart
  <2>2. SectionItem(v) = ListItem(v)
    BY <1>1 DEF SectionItem
  <2>3. IsGap(v.after)
    BY <1>1 DEF IsList, IsBlock
  <2>4. Takes(IdleAt(calls), BlockStart(v, "[", "]"), {Ending(Returned(calls, ListItem(v)))})
    BY <1>1, ListTaken
  <2> QED
    BY <2>1, <2>2, <2>3, <2>4, AfterTaken
<1>2. CASE v.type = "dict" /\ IsBlock(v)
  <2>1. SectionText(v) = BlockStart(v, "{", "}") \o v.after
    BY <1>2 DEF SectionText, BlockText, BlockStart
  <2>2. SectionItem(v) = DictItem(v)
    BY <1>2 DEF SectionItem
  <2>3. IsGap(v.after)
    BY <1>2 DEF IsBlock
  <2>4. Takes(IdleAt(calls), BlockStart(v, "{", "}"), {Ending(Returned(calls, DictItem(v)))})
    BY <1>2, DictTaken
  <2> QED
    BY <2>1, <2>2, <2>3, <2>4, AfterTaken
<1>3. CASE IsLeaf(v)
  <2>1. v.type \in {"str", "tuple"}
    BY <1>3 DEF IsLeaf
  <2>2. SectionText(v) = LeafText(v) /\ SectionItem(v) = LeafItem(v)
    BY <2>1 DEF SectionText, SectionItem
  <2> QED
    BY <1>3, <2>1, <2>2, LeafTaken
<1> QED
  BY <1>1, <1>2, <1>3 DEF IsSection

-----------------------------------------------------------------------------
(* Files                                                                   *)

(* The file's dictionary with its items, and no other call                 *)
FileCalls(items) == <<Block("dict", NoKey, items)>> \o << >>

LEMMA FileCallsAre ==
    \A items : AreCalls(FileCalls(items)) /\ Head(FileCalls(items)).type \in {"dict", "list"}
<1> SUFFICES ASSUME NEW items
             PROVE  AreCalls(FileCalls(items)) /\ Head(FileCalls(items)).type \in {"dict", "list"}
  OBVIOUS
<1> DEFINE none == << >>
<1>1. IsSeq(none)
  BY SeqNone
<1>2. FileCalls(items) = <<Block("dict", NoKey, items)>> \o none
  BY DEF FileCalls
<1> HIDE DEF none
<1>3. AreCalls(FileCalls(items)) /\ Head(FileCalls(items)).type = "dict"
  BY <1>1, <1>2, CallsAre
<1> QED
  BY <1>3

LEMMA FileTaken ==
    ASSUME NEW f, IsFile(f)
    PROVE  Takes(IdleAt(FileCalls(<< >>)), FileText(f), {Ending(FileCalls(FileItem(f).items))})
<1> DEFINE es    == f.entries
           n     == Len(es)
           items == [k \in DOMAIN es |-> <<es[k].key.words, SectionItem(es[k].value)>>]
           parts == [k \in DOMAIN es |-> EntryText(es[k], SectionText(es[k].value))]
           inner(k) == FileCalls(SubSeq(items, 1, k))
           A     == [k \in 0 .. n |-> IF k = n THEN {Ending(inner(k))} ELSE IdleAt(inner(k))]
<1>1. /\ n \in Nat /\ n # 0 /\ DOMAIN es = 1 .. n /\ IsSeq(es)
      /\ \A k \in 1 .. n : IsEntry(es[k]) /\ IsSection(es[k].value)
      /\ es[n].value.type # "str" /\ AreSpaces(es[n].value.after)
  <2>1. IsSeq(es) /\ es # << >> /\ es \in Seq(ToSet(es))
    BY DEF IsFile, IsSeq
  <2>2. n # 0
    BY <2>1
  <2> QED
    BY <2>1, <2>2, SeqIs DEF IsFile
<1>2. /\ IsSeq(items) /\ Len(items) = n
      /\ \A k \in 1 .. n : items[k] = <<es[k].key.words, SectionItem(es[k].value)>>
  <2>1. items = [k \in DOMAIN es |-> items[k]]
    OBVIOUS
  <2>2. \A k \in 1 .. n : items[k] = <<es[k].key.words, SectionItem(es[k].value)>>
    BY <1>1
  <2> HIDE DEF items, es
  <2> QED
    BY <1>1, <2>1, <2>2, SeqMap
<1>3. /\ IsSeq(parts) /\ Len(parts) = n
      /\ \A k \in 1 .. n : parts[k] = EntryText(es[k], SectionText(es[k].value))
  <2>1. parts = [k \in DOMAIN es |-> parts[k]]
    OBVIOUS
  <2>2. \A k \in 1 .. n : parts[k] = EntryText(es[k], SectionText(es[k].value))
    BY <1>1
  <2> HIDE DEF parts, es
  <2> QED
    BY <1>1, <2>1, <2>2, SeqMap
<1>4. \A k \in 0 .. n : A[k] = IF k = n THEN {Ending(inner(k))} ELSE IdleAt(inner(k))
  OBVIOUS
<1>5. FileText(f) = f.start \o FlattenSeq(parts)
  BY DEF FileText
<1>6. FileItem(f).items = items
  BY DEF FileItem
<1>0. IsGap(f.start)
  BY DEF IsFile
<1> HIDE DEF A, parts, n, es, items
<1>7. ASSUME NEW k \in 1 .. n
      PROVE  Takes(A[k - 1], parts[k], A[k])
  <2> DEFINE old   == SubSeq(items, 1, k - 1)
             new   == SubSeq(items, 1, k)
             e     == es[k]
             words == e.key.words
             item  == SectionItem(e.value)
             was   == FileCalls(old)
             is    == FileCalls(new)
             keyed == Keyed(was, words)
  <2>0. k - 1 \in 0 .. n /\ k \in 0 .. n /\ k - 1 # n
    BY <1>1
  <2>1. new = Append(old, <<words, item>>)
    BY <1>2, PrefixesOf
  <2>2. A[k - 1] = IdleAt(was) /\ A[k] = IF k = n THEN {Ending(is)} ELSE IdleAt(is)
    BY <1>4, <2>0
  <2>3. parts[k] = EntryText(e, SectionText(e.value))
    BY <1>3
  <2>4. /\ IsEntry(e) /\ IsSection(e.value) /\ words # NoKey
        /\ k = n => e.value.type # "str" /\ AreSpaces(e.value.after)
    BY <1>1, KeyWords
  <2> HIDE DEF old, new, e, item
  <2>5. /\ AwaitsKey(was, words) /\ ReadsValue(keyed) /\ Head(keyed).type = "dict"
        /\ Returned(keyed, item) = NextInner("dict", old, << >>, words, item)
    <3>1. AwaitsEntry("dict", NoKey, words)
      BY <2>4 DEF AwaitsEntry
    <3>2. was = Inner("dict", NoKey, old, << >>)
      BY DEF Inner, FileCalls
    <3> HIDE DEF words, was, inner
    <3> QED
      BY <3>1, <3>2, SeqNone, KeyedInner
  <2>6. NextInner("dict", old, << >>, words, item) = is
    BY <2>1 DEF NextInner, FileCalls
  <2> HIDE DEF keyed, is, was
  <2>7. Takes(IdleAt(keyed), SectionText(e.value), A[k])
    <3>1. /\ Takes(IdleAt(keyed), SectionText(e.value), IdleAt(is))
          /\ e.value.type # "str" /\ AreSpaces(e.value.after) =>
               Takes(IdleAt(keyed), SectionText(e.value), {Ending(is)})
      <4>1. Returned(keyed, SectionItem(e.value)) = is
        BY <2>5, <2>6 DEF item
      <4> QED
        BY <2>4, <2>5, <4>1, SectionTaken
    <3> QED
      BY <2>2, <2>4, <3>1
  <2>8. Takes(IdleAt(was), EntryText(e, SectionText(e.value)), A[k])
    BY <2>4, <2>5, <2>7, EntryTaken DEF keyed
  <2> QED
    BY <2>2, <2>3, <2>8
<1>8. Takes(IdleAt(inner(0)), FlattenSeq(parts), {Ending(inner(n))})
  <2>1. Takes(A[0], FlattenSeq(parts), A[n])
    BY <1>3, <1>7, TakesFlat
  <2>2. 0 \in 0 .. n /\ n \in 0 .. n
    BY <1>1
  <2> HIDE DEF inner
  <2> QED
    BY <1>1, <1>4, <2>1, <2>2
<1>9. inner(0) = FileCalls(<< >>) /\ inner(n) = FileCalls(items)
  BY <1>2, PrefixesOf
<1>10. AreCalls(FileCalls(<< >>)) /\ Head(FileCalls(<< >>)).type \in {"dict", "list"}
  BY FileCallsAre
<1> HIDE DEF inner
<1>11. Takes(IdleAt(FileCalls(<< >>)), f.start, IdleAt(FileCalls(<< >>)))
  BY <1>0, <1>10, GapTaken
<1>12. Takes(IdleAt(FileCalls(<< >>)), f.start \o FlattenSeq(parts), {Ending(FileCalls(items))})
  BY <1>8, <1>9, <1>11, TakesOn
<1> QED
  BY <1>5, <1>6, <1>12

LEMMA NothingBehind == \A x : <<x>> \o << >> = <<x>>
<1>1. ASSUME NEW x PROVE <<x>> \o << >> = <<x>>
  <2>1. <<x>> \in Seq({x})
    OBVIOUS
  <2> QED
    BY <2>1
<1> QED
  BY <1>1

(* _vcfg_parse begins like that and goes through all of the text.          *)
LEMMA ParseIs ==
    ASSUME NEW text, NEW x, NEW start, start = InLoop(<<Block("dict", NoKey, << >>)>>),
           Takes({start}, text, {x})
    PROVE  Parse(text) = AtEnd(x)
<1> DEFINE n == Len(text)
           after == CHOOSE after : IsRunOf(after, start, text, n)
<1>1. n \in Nat
  BY SeqIs DEF Takes
<1>2. IsRunOf(after, start, text, n)
  BY <1>1, RunExists
<1>3. Parse(text) = AtEnd(after[n])
  BY DEF Parse, IsRunOf
<1>4. \A k \in 0 .. n : after[k] = IF k = 0 THEN start ELSE Parsed(after[k - 1], text[k])
  BY <1>2 DEF IsRunOf
<1> HIDE DEF after
<1>5. PICK r : r[0] = start /\ r[n] = x /\ IsParse(r, text)
  BY DEF Takes
<1> DEFINE N == {k \in Nat : k =< n => after[k] = r[k]}
<1> HIDE DEF n
<1>6. 0 \in N
  BY <1>1, <1>4, <1>5
<1>7. ASSUME NEW k \in N PROVE k + 1 \in N
  <2>1. SUFFICES ASSUME k + 1 =< n PROVE after[k + 1] = r[k + 1]
    OBVIOUS
  <2>2. k + 1 \in 0 .. n /\ k + 1 # 0 /\ k + 1 \in 1 .. n /\ (k + 1) - 1 = k /\ after[k] = r[k]
    BY <1>1, <2>1
  <2>3. after[k + 1] = Parsed(after[k], text[k + 1])
    BY <1>4, <2>2
  <2>4. r[k + 1] = Parsed(r[k], text[k + 1])
    BY <1>5, <2>2 DEF IsParse, n
  <2> QED
    BY <2>2, <2>3, <2>4
<1>8. after[n] = x
  <2>1. N \in SUBSET Nat
    OBVIOUS
  <2> HIDE DEF N
  <2>2. N = Nat
    BY <1>6, <1>7, <2>1, SetInduction
  <2> QED
    BY <1>1, <1>5, <2>2 DEF N
<1> QED
  BY <1>3, <1>8

LEMMA FileClosed ==
    ASSUME NEW items
    PROVE  AtEnd(Ending(<<Block("dict", NoKey, items)>>)) = Ok([type |-> "dict", items |-> items])
<1> DEFINE calls == <<Block("dict", NoKey, items)>>
           s     == Ending(calls)
<1>1. s = Reading(calls, "endings", << >>)
  BY DEF Ending
<1>2. s.st = "reading" /\ s.doing = "endings" /\ Over(s) = InLoop(calls)
  <2> HIDE DEF calls
  <2> QED
    BY ReadingIs, OverIdle DEF Ending, Idle
<1>3. AtEnd(s) = Ok(AllClosed(calls))
  <2> HIDE DEF calls, s
  <2> QED
    BY <1>2, ReadingIs DEF AtEnd, InLoop
<1>4. AllClosed(calls) = Item(calls[1])
  <2> DEFINE IsItem(f) == f = [k \in 1 .. Len(calls) |->
                                 Item(IF k = 1 THEN calls[1] ELSE Added(calls[k], f[k - 1]))]
             item == CHOOSE f : IsItem(f)
  <2>1. Len(calls) = 1
    OBVIOUS
  <2> HIDE DEF calls
  <2>2. IsItem([k \in 1 .. 1 |-> Item(calls[1])])
    BY <2>1
  <2>3. IsItem(item)
    <3> HIDE DEF IsItem
    <3> QED
      BY <2>2
  <2>4. AllClosed(calls) = item[Len(calls)]
    BY DEF AllClosed
  <2>5. item[1] = Item(calls[1])
    <3> HIDE DEF item
    <3> QED
      BY <2>1, <2>3
  <2> HIDE DEF item
  <2> QED
    BY <2>1, <2>4, <2>5
<1>5. Item(calls[1]) = [type |-> "dict", items |-> items]
  BY BlockIs DEF Item
<1> QED
  BY <1>3, <1>4, <1>5

(***************************************************************************)
(* Whatever its blanks, new lines and comments, however many sections,     *)
(* entries and strings it has: _vcfg_parse reads a file as the dictionary  *)
(* that its author means.                                                  *)
(***************************************************************************)
THEOREM ConfigRead == \A f : IsFile(f) => Parse(FileText(f)) = Ok(FileItem(f))
<1> SUFFICES ASSUME NEW f, IsFile(f)
             PROVE  Parse(FileText(f)) = Ok(FileItem(f))
  OBVIOUS
<1> DEFINE start == InLoop(<<Block("dict", NoKey, << >>)>>)
           items == FileItem(f).items
           text  == FileText(f)
           end   == Ending(<<Block("dict", NoKey, items)>>)
<1>1. Takes(IdleAt(FileCalls(<< >>)), text, {Ending(FileCalls(items))})
  BY FileTaken
<1>2. start \in IdleAt(FileCalls(<< >>))
  BY NothingBehind, InIdleToo DEF FileCalls
<1>3. Ending(FileCalls(items)) = end
  BY NothingBehind DEF FileCalls
<1>4. FileItem(f) = [type |-> "dict", items |-> items]
  BY DEF FileItem
<1>5. AtEnd(end) = Ok([type |-> "dict", items |-> items])
  BY FileClosed
<1>6. start = InLoop(<<Block("dict", NoKey, << >>)>>)
  OBVIOUS
<1> HIDE DEF start, items, text, end
<1>7. Takes({start}, text, {end})
  BY <1>1, <1>2, <1>3, TakesMore
<1>8. Parse(text) = AtEnd(end)
  BY <1>6, <1>7, ParseIs
<1> QED
  BY <1>4, <1>5, <1>8 DEF text

-----------------------------------------------------------------------------
(* Settings                                                                *)

(* Each file is one that the parser refuses, or one that is laid out as in *)
(* module ConfigText and means the settings of its dictionary.             *)
AreFiles ==
    \A f \in Files : \/ Parse(f.text) = Failed
                     \/ \E l : IsFile(l) /\ f.text = FileText(l) /\ f.meant = Settings(FileItem(l))

CfgIs == cfg = NoCfg \/ cfg.settings = cfg.meant

LEMMA LoadedIs ==
    ASSUME AreFiles, NEW read \in Loaded
    PROVE  read = NoCfg \/ read.settings = read.meant
<1>1. PICK f \in Files : read = LoadedFile(f)
  BY DEF Loaded
<1>2. CASE FileSettings(f.text) = << >>
  BY <1>1, <1>2 DEF LoadedFile
<1>3. CASE FileSettings(f.text) # << >>
  <2>1. Parse(f.text) # Failed
    BY <1>3 DEF FileSettings, Failed
  <2>2. PICK l : IsFile(l) /\ f.text = FileText(l) /\ f.meant = Settings(FileItem(l))
    BY <2>1 DEF AreFiles
  <2>3. Parse(f.text) = Ok(FileItem(l))
    BY <2>2, ConfigRead
  <2>4. FileSettings(f.text) = Settings(FileItem(l))
    BY <2>3 DEF FileSettings, Ok
  <2>5. read = [meant |-> f.meant, settings |-> FileSettings(f.text)]
    BY <1>1, <1>3 DEF LoadedFile
  <2> QED
    BY <2>2, <2>4, <2>5
<1> QED
  BY <1>2, <1>3

(***************************************************************************)
(* ConfigLoaded: of any files that are laid out like vdht.conf, with       *)
(* whatever blanks, new lines, comments and number of entries, a daemon    *)
(* that starts has the settings that are meant.  No step but vappmain_init *)
(* gives it any.                                                           *)
(***************************************************************************)
THEOREM FilesUnderstood == ASSUME AreFiles PROVE Spec => []ConfigLoaded
<1>1. Init => CfgIs
  BY DEF Init, CfgIs
<1>2. CfgIs /\ [Next]_vars => CfgIs'
  <2> SUFFICES ASSUME CfgIs, [Next]_vars PROVE CfgIs'
    OBVIOUS
  <2>1. ASSUME NEW read \in Loaded, ReadConfig(read) PROVE CfgIs'
    BY <2>1, LoadedIs DEF ReadConfig, CfgIs
  <2>2. CASE OpenSocket
    BY <2>2 DEF OpenSocket, CfgIs
  <2>3. ASSUME UNCHANGED cfg PROVE CfgIs'
    BY <2>3 DEF CfgIs
  <2>4. ASSUME NEW c \in Clients, ClientStep(c) PROVE UNCHANGED cfg
    BY <2>4 DEF ClientStep, Unlink, Bind, SendTo, Recv, RecvTimeout, bootVars
  <2>5. ASSUME NEW c \in Clients, NEW r \in Calls[c], Call(c, r) PROVE UNCHANGED cfg
    BY <2>5 DEF Call, bootVars
  <2>6. CASE Run
    BY <2>3, <2>6 DEF Run, Gone
  <2>7. CASE StrayStart \/ StrayExit
    BY <2>3, <2>7 DEF StrayStart, StrayExit, bootVars
  <2>8. CASE Crash \/ Quit
    BY <2>3, <2>8 DEF Crash, Quit, Gone
  <2>9. CASE Rcv
    BY <2>3, <2>9 DEF Rcv
  <2>10. CASE Snd
    BY <2>3, <2>10 DEF Snd, bootVars
  <2>11. ASSUME NEW k, NEW s, ProbeDone(k, s) PROVE UNCHANGED cfg
    BY <2>11 DEF ProbeDone, bootVars
  <2>12. CASE UNCHANGED vars
    BY <2>3, <2>12 DEF vars, bootVars
  <2> QED
    BY <2>1, <2>2, <2>3, <2>4, <2>5, <2>6, <2>7, <2>8, <2>9, <2>10, <2>11, <2>12 DEF Next
<1>3. CfgIs => ConfigLoaded
  BY DEF CfgIs, ConfigLoaded
<1> QED
  BY <1>1, <1>2, <1>3, PTL DEF Spec
=============================================================================
