-------------------------- MODULE NodeSpaceProofs --------------------------
(***************************************************************************)
(* Proofs about the node routing space, for every number of nodes, buckets *)
(* and addresses and every setting of the timers.                          *)
(***************************************************************************)
EXTENDS NodeSpace, Induction, TLAPS

-----------------------------------------------------------------------------
(* Address lists of node infos: what vnodeInfo_add_addr does to a list,    *)
(* what the loops of vnodeInfo_copy and vnodeInfo_merge make of it, and    *)
(* that a merge which reports an update made one                           *)

(* The entries of lists of the addresses A                                 *)
Entries(A) == [addr : A, type : AddrTypes]

-----------------------------------------------------------------------------
(* An address that the list does not have is put behind the last one of    *)
(* no larger type.                                                         *)
LEMMA AddAddrNew ==
    ASSUME NEW A, NEW s \in Seq(Entries(A)), NEW e \in Entries(A),
           Len(s) < MaxAddrs, ~HasAddr(s, e.addr)
    PROVE  LET t == AddAddr(s, e) IN
           /\ t \in Seq(Entries(A))
           /\ Len(t) = Len(s) + 1
           /\ \E p \in 1 .. Len(s) + 1 :
                /\ t[p] = e
                /\ \A i \in 1 .. p - 1 : t[i] = s[i]
                /\ \A i \in p + 1 .. Len(s) + 1 : t[i] = s[i - 1]
                /\ p > 1 => s[p - 1].type =< e.type
                /\ \A i \in p .. Len(s) : s[i].type > e.type
<1> DEFINE N == {0} \cup {i \in DOMAIN s : s[i].type =< e.type}
           p == 1 + Max(N)
           t == AddAddr(s, e)
<1>1. Len(s) \in Nat /\ DOMAIN s = 1 .. Len(s) /\ \A i \in 1 .. Len(s) : s[i] \in Entries(A)
  OBVIOUS
<1>2. Max(N) \in N /\ \A n \in N : n =< Max(N)
  <2>1. N \in SUBSET Nat /\ N # {} /\ \A n \in N : n =< Len(s)
    BY <1>1
  <2>. HIDE DEF N
  <2>. QED
    BY <1>1, <2>1, GreatestNumber
<1>3. p \in 1 .. Len(s) + 1
  BY <1>1, <1>2
<1>4. \A i \in p .. Len(s) : s[i].type > e.type
  <2>1. SUFFICES ASSUME NEW i \in p .. Len(s), ~ (s[i].type > e.type) PROVE FALSE
    OBVIOUS
  <2>2. i \in 1 .. Len(s) /\ s[i] \in Entries(A)
    BY <1>1, <1>3
  <2>3. s[i].type \in Int /\ e.type \in Int
    BY <2>2 DEF Entries, AddrTypes, Local, Unknown
  <2>4. i \in N
    BY <1>1, <2>1, <2>2, <2>3
  <2>. QED
    BY <1>1, <1>2, <2>2, <2>4
<1>5. p > 1 => s[p - 1].type =< e.type
  BY <1>1, <1>2
<1>6. t = SubSeq(s, 1, p - 1) \o <<e>> \o SubSeq(s, p, Len(s))
  <2>1. ~ (Len(s) >= MaxAddrs)
    BY <1>1, MaxAddrsAssumption
  <2>2. t = InsertAt(s, p, e)
    BY <2>1, Zenon DEF AddAddr
  <2>. QED
    BY <2>2, Zenon DEF InsertAt
<1>. HIDE DEF N, t
<1>. USE <1>1, <1>3
<1>. HIDE DEF p
<1>7. /\ SubSeq(s, 1, p - 1) \in Seq(Entries(A))
      /\ Len(SubSeq(s, 1, p - 1)) = p - 1
      /\ \A i \in 1 .. p - 1 : SubSeq(s, 1, p - 1)[i] = s[i]
  OBVIOUS
<1>8. /\ SubSeq(s, p, Len(s)) \in Seq(Entries(A))
      /\ Len(SubSeq(s, p, Len(s))) = Len(s) + 1 - p
      /\ \A i \in 1 .. Len(s) + 1 - p : SubSeq(s, p, Len(s))[i] = s[p + i - 1]
  OBVIOUS
<1>9. /\ t \in Seq(Entries(A)) /\ Len(t) = Len(s) + 1 /\ t[p] = e
      /\ \A i \in 1 .. p - 1 : t[i] = s[i]
      /\ \A i \in p + 1 .. Len(s) + 1 : t[i] = s[i - 1]
  <2> DEFINE u == SubSeq(s, 1, p - 1)
             v == SubSeq(s, p, Len(s))
             w == u \o <<e>>
  <2>. HIDE DEF u, v
  <2>1. /\ w \in Seq(Entries(A)) /\ Len(w) = p /\ w[p] = e
        /\ \A i \in 1 .. p - 1 : w[i] = s[i]
    BY <1>7 DEF u
  <2>2. t = w \o v
    BY <1>6 DEF u, v
  <2>. HIDE DEF w
  <2>3. t \in Seq(Entries(A)) /\ Len(t) = Len(s) + 1 /\ \A i \in 1 .. p : t[i] = w[i]
    BY <2>1, <2>2, <1>8 DEF v
  <2>4. \A i \in p + 1 .. Len(s) + 1 : t[i] = v[i - p]
    BY <2>1, <2>2, <1>8 DEF v
  <2>5. \A i \in p + 1 .. Len(s) + 1 : v[i - p] = s[i - 1]
    BY <1>8 DEF v
  <2>. QED
    BY <2>1, <2>3, <2>4, <2>5
<1>. QED
  BY <1>4, <1>5, <1>9 DEF t

(* ... so that the list stays sorted and without repetitions.              *)
LEMMA AddAddrKeeps ==
    ASSUME NEW A, NEW s \in Seq(Entries(A)), NEW e \in Entries(A),
           Len(s) < MaxAddrs, ~HasAddr(s, e.addr)
    PROVE  LET t == AddAddr(s, e) IN
           /\ t \in Seq(Entries(A))
           /\ Len(t) = Len(s) + 1
           /\ \A a : HasAddr(t, a) => HasAddr(s, a) \/ a = e.addr
           /\ ByType(s) => ByType(t)
           /\ NoAddrTwice(s) => NoAddrTwice(t)
<1> DEFINE t == AddAddr(s, e)
           Old(p, i) == IF i < p THEN i ELSE i - 1
<1>1. t \in Seq(Entries(A)) /\ Len(t) = Len(s) + 1 /\ Len(s) \in Nat
  BY AddAddrNew
<1>2. PICK p \in 1 .. Len(s) + 1 :
        /\ t[p] = e
        /\ \A i \in 1 .. p - 1 : t[i] = s[i]
        /\ \A i \in p + 1 .. Len(s) + 1 : t[i] = s[i - 1]
        /\ p > 1 => s[p - 1].type =< e.type
        /\ \A i \in p .. Len(s) : s[i].type > e.type
  BY AddAddrNew
<1>. HIDE DEF t
<1>3. /\ \A i \in 1 .. Len(s) : s[i] \in Entries(A) /\ s[i].type \in Int
      /\ e.type \in Int
  <2>1. \A i \in 1 .. Len(s) : s[i] \in Entries(A)
    OBVIOUS
  <2>2. \A x \in Entries(A) : x.type \in Int
    BY DEF Entries, AddrTypes, Local, Unknown
  <2>. HIDE DEF Entries
  <2>. QED
    BY <2>1, <2>2
<1>4. ASSUME NEW i \in 1 .. Len(t), i # p
      PROVE  t[i] = s[Old(p, i)] /\ Old(p, i) \in 1 .. Len(s)
  <2>1. i \in 1 .. p - 1 \/ i \in p + 1 .. Len(s) + 1
    BY <1>1, <1>4
  <2>. QED
    BY <1>1, <1>2, <2>1
<1>5. \A a : HasAddr(t, a) => HasAddr(s, a) \/ a = e.addr
  <2>1. DOMAIN t = 1 .. Len(t) /\ DOMAIN s = 1 .. Len(s)
    BY <1>1
  <2>. QED
    BY <1>2, <1>4, <2>1 DEF HasAddr
<1>6. ASSUME ByType(s), NEW i \in 1 .. Len(t), NEW j \in 1 .. Len(t), i < j
      PROVE  t[i].type =< t[j].type
  <2>1. \A x, y \in 1 .. Len(s) : x < y => s[x].type =< s[y].type
    BY <1>6 DEF ByType
  <2>2. \A x \in 1 .. Len(s) : x < p => s[x].type =< e.type
    <3>1. SUFFICES ASSUME NEW x \in 1 .. Len(s), x < p PROVE s[x].type =< e.type
      OBVIOUS
    <3>2. p - 1 \in 1 .. Len(s) /\ p > 1 /\ (x = p - 1 \/ x < p - 1)
      BY <1>1, <3>1
    <3>3. s[x].type =< s[p - 1].type
      BY <1>3, <2>1, <3>2
    <3>4. s[p - 1].type \in Int /\ s[x].type \in Int
      BY <1>3, <3>2
    <3>. QED
      BY <1>2, <1>3, <3>2, <3>3, <3>4
  <2>3. CASE i = p
    <3>1. j # p /\ Old(p, j) = j - 1 /\ j - 1 \in p .. Len(s)
      BY <1>1, <1>6, <2>3
    <3>2. t[j] = s[j - 1] /\ s[j - 1].type > e.type /\ s[j - 1].type \in Int
      BY <1>2, <1>3, <1>4, <3>1
    <3>. QED
      BY <1>2, <1>3, <2>3, <3>2
  <2>4. CASE j = p
    <3>1. t[i] = s[i] /\ i \in 1 .. Len(s)
      BY <1>4, <1>6, <2>4
    <3>. QED
      BY <1>2, <1>6, <2>2, <2>4, <3>1
  <2>5. CASE i # p /\ j # p
    <3>1. Old(p, i) < Old(p, j)
      BY <1>6, <2>5
    <3>. HIDE DEF Old
    <3>. QED
      BY <1>4, <2>1, <2>5, <3>1
  <2>. QED
    BY <2>3, <2>4, <2>5
<1>7. ASSUME NoAddrTwice(s), NEW i \in 1 .. Len(t), NEW j \in 1 .. Len(t), i < j
      PROVE  t[i].addr # t[j].addr
  <2>1. \A x, y \in 1 .. Len(s) : x < y => s[x].addr # s[y].addr
    BY <1>7 DEF NoAddrTwice
  <2>2. \A x \in 1 .. Len(s) : s[x].addr # e.addr
    BY DEF HasAddr
  <2>3. CASE i = p \/ j = p
    <3>. HIDE DEF Old
    <3>. QED
      BY <1>2, <1>4, <1>7, <2>2, <2>3
  <2>4. CASE i # p /\ j # p
    <3>1. Old(p, i) < Old(p, j)
      BY <1>7, <2>4
    <3>. HIDE DEF Old
    <3>. QED
      BY <1>4, <2>1, <2>4, <3>1
  <2>. QED
    BY <2>3, <2>4
<1>8. (ByType(s) => ByType(t)) /\ (NoAddrTwice(s) => NoAddrTwice(t))
  <2>1. DOMAIN t = 1 .. Len(t)
    BY <1>1
  <2>. QED
    BY <1>6, <1>7, <2>1 DEF ByType, NoAddrTwice
<1>. QED
  BY <1>1, <1>5, <1>8 DEF t

(* vnodeInfo_add_addr makes a list of a list, full or not.                 *)
LEMMA AddAddrType ==
    ASSUME NEW A, NEW s \in Seq(Entries(A)), NEW e \in Entries(A)
    PROVE  AddAddr(s, e) \in Seq(Entries(A))
<1>1. CASE Len(s) >= MaxAddrs
  BY <1>1 DEF AddAddr
<1>2. CASE ~ (Len(s) >= MaxAddrs) /\ HasAddr(s, e.addr)
  BY <1>2 DEF AddAddr
<1>3. CASE ~ (Len(s) >= MaxAddrs) /\ ~HasAddr(s, e.addr)
  <2>1. Len(s) < MaxAddrs
    BY <1>3, MaxAddrsAssumption
  <2>. QED
    BY <1>3, <2>1, AddAddrKeeps
<1>. QED
  BY <1>1, <1>2, <1>3

(***************************************************************************)
(* The loop of AddAll, address by address: acc[k] is the list after the    *)
(* first k addresses.                                                      *)
(***************************************************************************)
LEMMA AddAllRuns ==
    ASSUME NEW A, NEW s \in Seq(Entries(A)), NEW m \in Seq(Entries(A))
    PROVE  \E acc \in [0 .. Len(m) -> Seq(Entries(A))] :
             /\ acc[0] = s
             /\ \A k \in 1 .. Len(m) : acc[k] = AddAddr(acc[k - 1], m[k])
             /\ AddAll(s, m) = acc[Len(m)]
<1> DEFINE St == Seq(Entries(A))
           D  == 1 .. Len(m)
           g  == [x \in St \X D |-> AddAddr(x[1], m[x[2]])]
           F(h) == [c \in SUBSET D |->
                      IF c = {} THEN s ELSE AddAddr(h[c \ {Max(c)}], m[Max(c)])]
<1>1. DOMAIN m = D /\ Len(m) \in Nat /\ \A k \in D : m[k] \in Entries(A)
  OBVIOUS
<1>2. g \in [St \X D -> St]
  BY <1>1, AddAddrType
<1>3. \A c \in SUBSET D : c # {} => Max(c) \in D /\ c \ {Max(c)} \in SUBSET D
  BY <1>1, LastPosition
<1>4. \A x \in St, k \in D : g[<<x, k>>] = AddAddr(x, m[k])
  OBVIOUS
<1>. HIDE DEF St
<1>0. s \in St
  BY DEF St
<1>5. PICK h : h = F(h)
  <2>. HIDE DEF g
  <2>3. PICK w : IsFold(w, St, s, Len(m), g)
    BY <1>0, <1>1, <1>2, FoldExists
  <2>1. w \in [SUBSET D -> St] /\
          \A c \in SUBSET D : w[c] = IF c = {} THEN s ELSE g[<<w[c \ {Max(c)}], Max(c)>>]
    BY <2>3 DEF IsFold
  <2>2. \A c \in SUBSET D : w[c] = F(w)[c]
    BY <1>3, <1>4, <2>1
  <2>. HIDE DEF D
  <2>. QED
    BY <2>1, <2>2
<1>6. AddAll(s, m) = (CHOOSE w : w = F(w))[D]
  BY <1>1 DEF AddAll, FoldLeft, MapThenFoldSet
<1>7. PICK it : it = F(it) /\ AddAll(s, m) = it[D]
  <2>. HIDE DEF F
  <2>. QED
    BY <1>5, <1>6
<1>8. it[{}] = s /\ \A c \in SUBSET D : c # {} => it[c] = AddAddr(it[c \ {Max(c)}], m[Max(c)])
  BY <1>7
<1>9. FoldsOn(it, St, s, Len(m), g)
  BY <1>3, <1>4, <1>8 DEF FoldsOn
<1>. HIDE DEF g, F
<1>10. PICK acc : IsRun(acc, St, s, Len(m), g, it[D])
  BY <1>0, <1>1, <1>2, <1>9, FoldPrefixes
<1>11. acc \in [0 .. Len(m) -> St] /\ acc[0] = s /\ acc[Len(m)] = it[D]
  BY <1>10 DEF IsRun
<1>12. \A k \in D : acc[k] = AddAddr(acc[k - 1], m[k])
  <2>1. \A k \in D : k - 1 \in 0 .. Len(m)
    BY <1>1
  <2>. QED
    BY <1>4, <1>10, <1>11, <2>1 DEF IsRun
<1>. QED
  BY <1>7, <1>10, <1>11, <1>12 DEF St

(* The loop of NewAddrs                                                    *)
LEMMA NewAddrsRuns ==
    ASSUME NEW A, NEW d, NEW m \in Seq(Entries(A))
    PROVE  \E acc \in [0 .. Len(m) -> Seq(Entries(A))] :
             /\ acc[0] = << >>
             /\ \A k \in 1 .. Len(m) :
                  acc[k] = IF HasAddr(d, m[k].addr) THEN acc[k - 1]
                           ELSE Append(acc[k - 1], m[k])
             /\ NewAddrs(d, m) = acc[Len(m)]
<1> DEFINE St == Seq(Entries(A))
           D  == 1 .. Len(m)
           Step(x, e) == IF HasAddr(d, e.addr) THEN x ELSE Append(x, e)
           g  == [x \in St \X D |-> Step(x[1], m[x[2]])]
           F(h) == [c \in SUBSET D |->
                      IF c = {} THEN << >> ELSE Step(h[c \ {Max(c)}], m[Max(c)])]
<1>1. DOMAIN m = D /\ Len(m) \in Nat /\ \A k \in D : m[k] \in Entries(A)
  OBVIOUS
<1>2. g \in [St \X D -> St]
  BY <1>1
<1>3. \A c \in SUBSET D : c # {} => Max(c) \in D /\ c \ {Max(c)} \in SUBSET D
  BY <1>1, LastPosition
<1>4. \A x \in St, k \in D : g[<<x, k>>] = Step(x, m[k])
  OBVIOUS
<1>6. NewAddrs(d, m) = (CHOOSE w : w = F(w))[D]
  BY <1>1 DEF NewAddrs, FoldLeft, MapThenFoldSet
<1>. HIDE DEF Step
<1>0. << >> \in St
  OBVIOUS
<1>. HIDE DEF St
<1>5. PICK h : h = F(h)
  <2>. HIDE DEF g
  <2>1. PICK w : IsFold(w, St, << >>, Len(m), g)
    BY <1>0, <1>1, <1>2, FoldExists
  <2>2. w \in [SUBSET D -> St] /\
          \A c \in SUBSET D : w[c] = IF c = {} THEN << >> ELSE g[<<w[c \ {Max(c)}], Max(c)>>]
    BY <2>1 DEF IsFold
  <2>3. \A c \in SUBSET D : w[c] = F(w)[c]
    BY <1>3, <1>4, <2>2
  <2>. HIDE DEF D
  <2>. QED
    BY <2>2, <2>3
<1>7. PICK it : it = F(it) /\ NewAddrs(d, m) = it[D]
  <2>. HIDE DEF F
  <2>. QED
    BY <1>5, <1>6
<1>8. it[{}] = << >> /\ \A c \in SUBSET D : c # {} => it[c] = Step(it[c \ {Max(c)}], m[Max(c)])
  BY <1>7
<1>9. FoldsOn(it, St, << >>, Len(m), g)
  BY <1>3, <1>4, <1>8 DEF FoldsOn
<1>. HIDE DEF g, F
<1>10. PICK acc : IsRun(acc, St, << >>, Len(m), g, it[D])
  BY <1>0, <1>1, <1>2, <1>9, FoldPrefixes
<1>11. acc \in [0 .. Len(m) -> St] /\ acc[0] = << >> /\ acc[Len(m)] = it[D]
  BY <1>10 DEF IsRun
<1>12. \A k \in D : acc[k] = Step(acc[k - 1], m[k])
  <2>1. \A k \in D : k - 1 \in 0 .. Len(m)
    BY <1>1
  <2>. QED
    BY <1>4, <1>10, <1>11, <2>1 DEF IsRun
<1>. QED
  BY <1>7, <1>11, <1>12 DEF St, Step

-----------------------------------------------------------------------------
(***************************************************************************)
(* Adding addresses that are all new, each once: as many as fit are added, *)
(* and the list stays sorted and without repetitions if it was so before.  *)
(***************************************************************************)
LEMMA AddAllNew ==
    ASSUME NEW A, NEW s \in Seq(Entries(A)), NEW m \in Seq(Entries(A)),
           Len(s) =< MaxAddrs, NoAddrTwice(m),
           \A i \in 1 .. Len(m) : ~HasAddr(s, m[i].addr)
    PROVE  LET t == AddAll(s, m) IN
           /\ t \in Seq(Entries(A))
           /\ Len(t) = IF Len(s) + Len(m) =< MaxAddrs THEN Len(s) + Len(m) ELSE MaxAddrs
           /\ ByType(s) => ByType(t)
           /\ NoAddrTwice(s) => NoAddrTwice(t)
<1> DEFINE Fits(k) == IF Len(s) + k =< MaxAddrs THEN Len(s) + k ELSE MaxAddrs
           Good(k, l) ==
             /\ Len(l) = Fits(k)
             /\ \A a : HasAddr(l, a) => HasAddr(s, a) \/ \E j \in 1 .. k : m[j].addr = a
             /\ ByType(s) => ByType(l)
             /\ NoAddrTwice(s) => NoAddrTwice(l)
<1>1. /\ Len(m) \in Nat /\ Len(s) \in Nat /\ MaxAddrs \in Nat
      /\ \A k \in 1 .. Len(m) : m[k] \in Entries(A)
  BY MaxAddrsAssumption
<1>2. PICK acc \in [0 .. Len(m) -> Seq(Entries(A))] :
        /\ acc[0] = s
        /\ \A k \in 1 .. Len(m) : acc[k] = AddAddr(acc[k - 1], m[k])
        /\ AddAll(s, m) = acc[Len(m)]
  BY AddAllRuns
<1>3. Good(0, acc[0])
  BY <1>1, <1>2
<1>4. ASSUME NEW k \in 1 .. Len(m), Good(k - 1, acc[k - 1]) PROVE Good(k, acc[k])
  <2> DEFINE l == acc[k - 1]
             e == m[k]
             t == acc[k]
  <2>1. k - 1 \in 0 .. Len(m) /\ k \in Nat /\ k - 1 \in Nat
    BY <1>1
  <2>2. l \in Seq(Entries(A)) /\ e \in Entries(A) /\ t = AddAddr(l, e) /\ Len(l) \in Nat
    BY <1>1, <1>2, <2>1
  <2>3. ~HasAddr(l, e.addr)
    <3>1. ~HasAddr(s, e.addr)
      OBVIOUS
    <3>2. \A j \in 1 .. k - 1 : m[j].addr # e.addr
      BY <1>1, <2>1 DEF NoAddrTwice
    <3>. QED
      BY <1>4, <3>1, <3>2
  <2>4. CASE Len(l) < MaxAddrs
    <3>1. /\ Len(t) = Len(l) + 1
          /\ \A a : HasAddr(t, a) => HasAddr(l, a) \/ a = e.addr
          /\ ByType(l) => ByType(t)
          /\ NoAddrTwice(l) => NoAddrTwice(t)
      BY <2>2, <2>3, <2>4, AddAddrKeeps
    <3>2. Len(t) = Fits(k)
      BY <1>1, <1>4, <2>1, <2>2, <2>4, <3>1
    <3>3. k \in 1 .. k /\ 1 .. k - 1 \subseteq 1 .. k
      BY <2>1
    <3>. HIDE DEF l, t
    <3>. QED
      BY <1>4, <3>1, <3>2, <3>3 DEF l, t
  <2>5. CASE ~ (Len(l) < MaxAddrs)
    <3>1. t = l
      BY <1>1, <2>2, <2>5 DEF AddAddr
    <3>2. Fits(k) = Fits(k - 1)
      BY <1>1, <1>4, <2>1, <2>5
    <3>3. 1 .. k - 1 \subseteq 1 .. k
      BY <2>1
    <3>. QED
      BY <1>4, <3>1, <3>2, <3>3
  <2>. QED
    BY <2>4, <2>5
<1>. HIDE DEF Good
<1>5. \A k \in Nat : k =< Len(m) => Good(k, acc[k])
  <2> DEFINE N == {k \in Nat : k =< Len(m) => Good(k, acc[k])}
  <2>1. 0 \in N
    BY <1>3
  <2>2. ASSUME NEW k \in N PROVE k + 1 \in N
    <3>1. CASE k + 1 =< Len(m)
      <4>1. k + 1 \in 1 .. Len(m) /\ (k + 1) - 1 = k
        BY <1>1, <3>1
      <4>2. Good((k + 1) - 1, acc[(k + 1) - 1])
        BY <1>1, <3>1, <4>1
      <4>. QED
        BY <1>4, <4>1, <4>2
    <3>. QED
      BY <3>1
  <2>3. N \in SUBSET Nat
    OBVIOUS
  <2>. HIDE DEF N
  <2>4. N = Nat
    BY <2>1, <2>2, <2>3, SetInduction
  <2>. QED
    BY <2>4 DEF N
<1>6. Good(Len(m), AddAll(s, m))
  BY <1>1, <1>2, <1>5
<1>7. AddAll(s, m) \in Seq(Entries(A))
  BY <1>1, <1>2
<1>. QED
  BY <1>6, <1>7 DEF Good

(***************************************************************************)
(* The addresses of src that dest does not have: a list of their own, each *)
(* once if src has each once.                                              *)
(***************************************************************************)
LEMMA NewAddrsNew ==
    ASSUME NEW A, NEW d, NEW m \in Seq(Entries(A)), NoAddrTwice(m)
    PROVE  LET t == NewAddrs(d, m) IN
           /\ t \in Seq(Entries(A))
           /\ NoAddrTwice(t)
           /\ \A i \in 1 .. Len(t) : ~HasAddr(d, t[i].addr)
<1> DEFINE Good(k, l) ==
             /\ NoAddrTwice(l)
             /\ \A i \in DOMAIN l : ~HasAddr(d, l[i].addr)
             /\ \A i \in DOMAIN l : \E j \in 1 .. k : l[i].addr = m[j].addr
<1>1. Len(m) \in Nat /\ DOMAIN m = 1 .. Len(m) /\ \A k \in 1 .. Len(m) : m[k] \in Entries(A)
  OBVIOUS
<1>2. PICK acc \in [0 .. Len(m) -> Seq(Entries(A))] :
        /\ acc[0] = << >>
        /\ \A k \in 1 .. Len(m) :
             acc[k] = IF HasAddr(d, m[k].addr) THEN acc[k - 1] ELSE Append(acc[k - 1], m[k])
        /\ NewAddrs(d, m) = acc[Len(m)]
  BY NewAddrsRuns
<1>3. Good(0, acc[0])
  BY <1>2 DEF NoAddrTwice
<1>4. ASSUME NEW k \in 1 .. Len(m), Good(k - 1, acc[k - 1]) PROVE Good(k, acc[k])
  <2> DEFINE l == acc[k - 1]
             e == m[k]
             t == Append(l, e)
  <2>1. k - 1 \in 0 .. Len(m) /\ k \in Nat /\ 1 .. k - 1 \subseteq 1 .. k /\ k \in 1 .. k
    BY <1>1
  <2>2. l \in Seq(Entries(A)) /\ e \in Entries(A) /\ Len(l) \in Nat /\ DOMAIN l = 1 .. Len(l)
    BY <1>1, <1>2, <2>1
  <2>3. CASE HasAddr(d, e.addr)
    BY <1>2, <1>4, <2>1, <2>3
  <2>4. CASE ~HasAddr(d, e.addr)
    <3>1. acc[k] = t
      BY <1>2, <2>4
    <3>2. /\ Len(t) = Len(l) + 1 /\ DOMAIN t = 1 .. Len(l) + 1
          /\ t[Len(l) + 1] = e /\ \A i \in 1 .. Len(l) : t[i] = l[i]
      BY <2>2
    <3>3. \A i \in DOMAIN l : l[i].addr # e.addr
      <4>1. \A j \in 1 .. k - 1 : m[j].addr # e.addr
        BY <1>1, <2>1 DEF NoAddrTwice
      <4>. QED
        BY <1>4, <4>1
    <3>. HIDE DEF t, l, e
    <3>5. \A i \in DOMAIN t : i \in DOMAIN l \/ i = Len(l) + 1
      BY <2>2, <3>2
    <3>6. NoAddrTwice(t)
      <4>1. \A i, j \in DOMAIN l : i < j => l[i].addr # l[j].addr
        BY <1>4 DEF NoAddrTwice, l
      <4>2. \A i \in DOMAIN l : i < Len(l) + 1
        BY <2>2
      <4>. QED
        BY <2>2, <3>2, <3>3, <3>5, <4>1, <4>2 DEF NoAddrTwice
    <3>7. \A i \in DOMAIN t : ~HasAddr(d, t[i].addr)
      BY <1>4, <2>2, <2>4, <3>2, <3>5 DEF l
    <3>8. \A i \in DOMAIN t : \E j \in 1 .. k : t[i].addr = m[j].addr
      BY <1>4, <2>1, <2>2, <3>2, <3>5 DEF l, e
    <3>. QED
      BY <3>1, <3>6, <3>7, <3>8
  <2>. QED
    BY <2>3, <2>4
<1>. HIDE DEF Good
<1>5. \A k \in Nat : k =< Len(m) => Good(k, acc[k])
  <2> DEFINE N == {k \in Nat : k =< Len(m) => Good(k, acc[k])}
  <2>1. 0 \in N
    BY <1>3
  <2>2. ASSUME NEW k \in N PROVE k + 1 \in N
    <3>1. CASE k + 1 =< Len(m)
      <4>1. k + 1 \in 1 .. Len(m) /\ (k + 1) - 1 = k
        BY <1>1, <3>1
      <4>2. Good((k + 1) - 1, acc[(k + 1) - 1])
        BY <1>1, <3>1, <4>1
      <4>. QED
        BY <1>4, <4>1, <4>2
    <3>. QED
      BY <3>1
  <2>3. N \in SUBSET Nat
    OBVIOUS
  <2>. HIDE DEF N
  <2>4. N = Nat
    BY <2>1, <2>2, <2>3, SetInduction
  <2>. QED
    BY <2>4 DEF N
<1>6. Good(Len(m), NewAddrs(d, m)) /\ NewAddrs(d, m) \in Seq(Entries(A))
  BY <1>1, <1>2, <1>5
<1>. QED
  BY <1>6 DEF Good

-----------------------------------------------------------------------------
(* A list that somebody may send, and one that the table may hold.         *)
Sendable(s) == Len(s) =< MaxAddrs /\ NoAddrTwice(s)
Kept(s)     == Sendable(s) /\ ByType(s)

(* vnodeInfo_copy: a sorted list of as many addresses.                     *)
LEMMA CopyKept ==
    ASSUME NEW A, NEW m \in Seq(Entries(A)), Sendable(m)
    PROVE  /\ CopyAddrs(m) \in Seq(Entries(A))
           /\ Kept(CopyAddrs(m))
           /\ Len(CopyAddrs(m)) = Len(m)
<1> DEFINE s == << >>
<1>1. /\ s \in Seq(Entries(A)) /\ Len(s) = 0 /\ DOMAIN s = {}
      /\ MaxAddrs \in Nat /\ Len(m) \in Nat
  BY MaxAddrsAssumption
<1>2. NoAddrTwice(s) /\ ByType(s) /\ \A i \in 1 .. Len(m) : ~HasAddr(s, m[i].addr)
  BY <1>1 DEF NoAddrTwice, ByType, HasAddr
<1>3. Len(s) =< MaxAddrs /\ NoAddrTwice(m)
  BY <1>1 DEF Sendable
<1>. HIDE DEF s
<1>4. LET t == AddAll(s, m) IN
      /\ t \in Seq(Entries(A))
      /\ Len(t) = IF Len(s) + Len(m) =< MaxAddrs THEN Len(s) + Len(m) ELSE MaxAddrs
      /\ ByType(s) => ByType(t)
      /\ NoAddrTwice(s) => NoAddrTwice(t)
  BY <1>1, <1>2, <1>3, AddAllNew
<1>. QED
  BY <1>1, <1>2, <1>4 DEF CopyAddrs, Kept, Sendable, s

(***************************************************************************)
(* vnodeInfo_merge leaves a sorted list without repetitions, whichever of  *)
(* its three ways it takes.                                                *)
(***************************************************************************)
LEMMA MergeKept ==
    ASSUME NEW A, NEW d \in Seq(Entries(A)), Kept(d),
           NEW m \in Seq(Entries(A)), Sendable(m), NEW fake \in BOOLEAN
    PROVE  Kept(MergeAddrs(d, m, fake))
<1>0. MaxAddrs \in Nat /\ Len(d) \in Nat /\ Len(m) \in Nat
  BY MaxAddrsAssumption
<1>1. CASE fake
  <2> DEFINE n == NewAddrs(d, m)
  <2>1. n \in Seq(Entries(A)) /\ NoAddrTwice(n) /\ \A i \in 1 .. Len(n) : ~HasAddr(d, n[i].addr)
    BY NewAddrsNew DEF Sendable
  <2>. HIDE DEF n
  <2>2. LET t == AddAll(d, n) IN
        /\ Len(t) = IF Len(d) + Len(n) =< MaxAddrs THEN Len(d) + Len(n) ELSE MaxAddrs
        /\ ByType(t) /\ NoAddrTwice(t)
    BY <2>1, AddAllNew DEF Kept, Sendable
  <2>. QED
    BY <1>0, <1>1, <2>1, <2>2 DEF Kept, Sendable, MergeAddrs, n
<1>2. CASE ~fake /\ Len(d) # Len(m)
  BY <1>2, CopyKept DEF MergeAddrs
<1>3. CASE ~fake /\ Len(d) = Len(m)
  <2> DEFINE t == [i \in DOMAIN m |-> [addr |-> m[i].addr, type |-> d[i].type]]
  <2>1. /\ DOMAIN m = 1 .. Len(m) /\ DOMAIN d = DOMAIN m
        /\ DOMAIN t = DOMAIN m /\ Len(t) = Len(m)
    BY <1>0, <1>3
  <2>2. \A i \in DOMAIN m : t[i].addr = m[i].addr /\ t[i].type = d[i].type
    OBVIOUS
  <2>3. MergeAddrs(d, m, fake) = t
    BY <1>3 DEF MergeAddrs
  <2>. HIDE DEF t
  <2>. QED
    BY <1>3, <2>1, <2>2, <2>3 DEF Kept, Sendable, NoAddrTwice, ByType
<1>. QED
  BY <1>1, <1>2, <1>3

(* When vnodeInfo_merge reports an update the address list did change.     *)
LEMMA UpdateChanges ==
    ASSUME NEW A, NEW d \in Seq(Entries(A)), Kept(d),
           NEW m \in Seq(Entries(A)), Sendable(m), NEW fake \in BOOLEAN,
           IF fake
           THEN NewAddrs(d, m) # << >> /\ Len(d) + Len(NewAddrs(d, m)) =< MaxAddrs
           ELSE Len(d) # Len(m) \/ \E i \in DOMAIN m : d[i].addr # m[i].addr
    PROVE  MergeAddrs(d, m, fake) # d
<1>0. MaxAddrs \in Nat /\ Len(d) \in Nat /\ Len(m) \in Nat
  BY MaxAddrsAssumption
<1>1. CASE fake
  <2> DEFINE n == NewAddrs(d, m)
  <2>1. n \in Seq(Entries(A)) /\ NoAddrTwice(n) /\ \A i \in 1 .. Len(n) : ~HasAddr(d, n[i].addr)
    BY NewAddrsNew DEF Sendable
  <2>2. n # << >> /\ Len(d) + Len(n) =< MaxAddrs
    BY <1>1
  <2>. HIDE DEF n
  <2>3. Len(AddAll(d, n)) = Len(d) + Len(n)
    BY <2>1, <2>2, AddAllNew DEF Kept, Sendable
  <2>4. Len(n) \in Nat \ {0}
    BY <2>1, <2>2
  <2>. QED
    BY <1>0, <1>1, <2>3, <2>4 DEF MergeAddrs, n
<1>2. CASE ~fake /\ Len(d) # Len(m)
  BY <1>2, CopyKept DEF MergeAddrs
<1>3. CASE ~fake /\ Len(d) = Len(m)
  BY <1>3 DEF MergeAddrs
<1>. QED
  BY <1>1, <1>2, <1>3

-----------------------------------------------------------------------------
(* The routing space                                                       *)

Flags == {"ping_rsp", "other"}

(* One peer: its fields have their types and it is not called unreachable  *)
(* without having been silent.                                             *)
PeerOK(p) == /\ p \in Peer
             /\ p.next_tmo > MaxNextTmo => p.ntry_pings > MaxPingTms

(* One bucket                                                              *)
BucketOK(b, ps) ==
    /\ ps \in Seq(Peer)
    /\ Len(ps) =< BucketSz
    /\ \A i \in 1 .. Len(ps) : /\ PeerOK(ps[i])
                               /\ ps[i].nodei.id # MyId
                               /\ BucketOf[ps[i].nodei.id] = b
    /\ \A i, j \in 1 .. Len(ps) : ps[i].nodei.id = ps[j].nodei.id => i = j

(* A whole table: the one in the variable, or one a handler works on       *)
TabOK(tab) == /\ tab \in [Buckets -> Seq(Peer)]
              /\ \A b \in Buckets : BucketOK(b, tab[b])

TableOK == TabOK(peers)

(* The inductive invariant: the table's soundness bucket by bucket, peer   *)
(* by peer, the types of the rest, and the rows of the database.           *)
IInv == TypeOK /\ TableOK /\ DbSound

-----------------------------------------------------------------------------
(* The last element of a sequence that is not empty                        *)
LEMMA LastElement ==
    ASSUME NEW S, NEW s \in Seq(S), s # << >>
    PROVE  Len(s) \in Nat \ {0} /\ s[Len(s)] \in S
  OBVIOUS

(* Address lists that occur have a last address, and it is an address.     *)
LEMMA WorstAddrType ==
    ASSUME NEW s \in AddrLists
    PROVE  /\ WorstAddr(s) \in Addrs
           /\ s \in Seq([addr : Addrs, type : AddrTypes])
           /\ Len(s) \in Nat \ {0}
<1>1. s # << >> /\ s \in Seq([addr : Addrs, type : AddrTypes])
  BY AddrAssumption
<1>2. Len(s) \in Nat \ {0} /\ s[Len(s)] \in [addr : Addrs, type : AddrTypes]
  BY <1>1, LastElement
<1>3. QED
  BY <1>1, <1>2 DEF WorstAddr

(* A raw connection to a known address is a connection.                    *)
LEMMA RawConnType ==
    ASSUME NEW r \in Addrs
    PROVE  RawConn(ZAddr, r) \in Conns
  BY DEF RawConn, Conns, Priorities, Unknown, Addrs

(* Copying an info keeps it an info of the same node.                      *)
LEMMA CopyType ==
    ASSUME NEW n \in Infos
    PROVE  Copy(n) \in Infos /\ Copy(n).id = n.id
  BY AddrAssumption DEF Copy, Infos

(* Merging another info keeps an info, and whose it is.                    *)
LEMMA MergeType ==
    ASSUME NEW d \in Infos, NEW n \in Infos
    PROVE  Merge(d, n) \in Infos /\ Merge(d, n).id = d.id
  BY AddrAssumption DEF Merge, Infos, IsFake

(* The limits of the timers                                                *)
LEMMA TmoFacts ==
    /\ MaxNextTmo \in Nat /\ InitNextTmo \in Nat /\ NextTmoStep \in Nat
    /\ InitNextTmo =< MaxNextTmo
    /\ MaxNextTmoUnreachable \in Nat
    /\ MaxNextTmo =< MaxNextTmoUnreachable
    /\ MaxPingTms \in Nat /\ MaxTries \in Nat /\ MaxPingTms < MaxTries
    /\ MaxProbeTms \in Nat /\ BucketSz \in Nat
  BY TmoAssumption, LimitAssumption DEF MaxNextTmoUnreachable

(* vpeer_init makes a sound peer of the node it is given.                  *)
LEMMA InitPeer ==
    ASSUME NEW n \in Infos
    PROVE  PeerOK(vpeer_init(n)) /\ vpeer_init(n).nodei.id = n.id
<1>1. Copy(n) \in Infos /\ Copy(n).id = n.id
  BY CopyType
<1>2. RawConn(ZAddr, WorstAddr(Copy(n).addrs)) \in Conns
  BY <1>1, WorstAddrType, RawConnType DEF Infos
<1>3. QED
  BY <1>1, <1>2, TmoFacts DEF vpeer_init, PeerOK, Peer

(* An answered ping resets the count and with it the interval.             *)
LEMMA AnsweredPeer ==
    ASSUME NEW p, PeerOK(p)
    PROVE  PeerOK(PingAnswered(p)) /\ PingAnswered(p).nodei = p.nodei
<1> DEFINE t == IF p.ntry_pings > BadPings THEN InitNextTmo
                ELSE vminimum(p.next_tmo + NextTmoStep, MaxNextTmo)
<1>1. p \in Peer
  BY DEF PeerOK
<1>2. t \in InitNextTmo .. MaxNextTmoUnreachable /\ t =< MaxNextTmo
  BY <1>1, TmoFacts DEF Peer, vminimum
<1>3. PingAnswered(p) =
        [nodei |-> p.nodei, conn |-> p.conn, age |-> 0,
         next_tmo |-> t, ntry_pings |-> 0, ntry_probes |-> p.ntry_probes]
  <2>1. PingAnswered(p) = [p EXCEPT !.next_tmo = t, !.ntry_pings = 0, !.age = 0]
    BY DEF PingAnswered
  <2> HIDE DEF t
  <2>2. QED
    BY <1>1, <2>1 DEF Peer
<1> HIDE DEF t
<1>4. QED
  BY <1>1, <1>2, <1>3, TmoFacts DEF PeerOK, Peer

(* vpeer_update keeps a peer sound and does not change whose it is.        *)
LEMMA UpdatePeer ==
    ASSUME NEW p, PeerOK(p), NEW n \in Infos, NEW flag \in Flags
    PROVE  /\ PeerOK(vpeer_update(p, n, flag))
           /\ vpeer_update(p, n, flag).nodei.id = p.nodei.id
<1> DEFINE q == IF flag = "ping_rsp" THEN PingAnswered(p) ELSE p
           m == Merge(p.nodei, n)
           c == RawConn(ZAddr, WorstAddr(m.addrs))
<1>1. PeerOK(q) /\ q.nodei = p.nodei
  BY AnsweredPeer
<1>2. m \in Infos /\ m.id = p.nodei.id
  BY MergeType DEF PeerOK, Peer
<1>3. c \in Conns
  BY <1>2, WorstAddrType, RawConnType DEF Infos
<1>4. \/ vpeer_update(p, n, flag) =
        [nodei |-> m, conn |-> c, age |-> q.age,
         next_tmo |-> q.next_tmo, ntry_pings |-> q.ntry_pings, ntry_probes |-> 0]
      \/ vpeer_update(p, n, flag) =
        [nodei |-> m, conn |-> q.conn, age |-> q.age,
         next_tmo |-> q.next_tmo, ntry_pings |-> q.ntry_pings, ntry_probes |-> q.ntry_probes]
  <2> HIDE DEF m, c, q
  <2>1. \/ vpeer_update(p, n, flag) =
             [q EXCEPT !.nodei = m, !.conn = c, !.ntry_probes = 0]
        \/ vpeer_update(p, n, flag) = [q EXCEPT !.nodei = m]
    BY DEF vpeer_update, m, c, q
  <2>2. QED
    BY <1>1, <2>1 DEF PeerOK, Peer
<1> HIDE DEF q, m, c
<1>5. QED
  BY <1>1, <1>2, <1>3, <1>4, TmoFacts DEF PeerOK, Peer

(* A ping that goes out keeps a peer sound: the interval grows only beyond *)
(* max_ping_tms unanswered pings.                                          *)
LEMMA PingedPeer ==
    ASSUME NEW p, PeerOK(p)
    PROVE  PeerOK(PingPeer(p)) /\ PingPeer(p).nodei.id = p.nodei.id
<1> DEFINE k == vminimum(p.ntry_pings + 1, MaxTries)
           t == IF p.ntry_pings + 1 > MaxPingTms
                THEN vminimum(p.next_tmo + NextTmoStep, MaxNextTmoUnreachable)
                ELSE p.next_tmo
<1>1. p \in Peer
  BY DEF PeerOK
<1>2. k \in 0 .. MaxTries /\ (k > MaxPingTms <=> p.ntry_pings + 1 > MaxPingTms)
  BY <1>1, TmoFacts DEF Peer, vminimum
<1>3. t \in InitNextTmo .. MaxNextTmoUnreachable
  BY <1>1, TmoFacts DEF Peer, vminimum
<1>4. t > MaxNextTmo => k > MaxPingTms
  BY <1>1, <1>2, TmoFacts DEF PeerOK, Peer
<1>5. \/ PingPeer(p) = p
      \/ PingPeer(p) =
        [nodei |-> p.nodei, conn |-> p.conn, age |-> 0,
         next_tmo |-> t, ntry_pings |-> k, ntry_probes |-> p.ntry_probes]
  BY <1>1 DEF PingPeer, Peer
<1> HIDE DEF k, t
<1>6. QED
  BY <1>1, <1>2, <1>3, <1>4, <1>5, TmoFacts DEF PeerOK, Peer

(* A kick keeps a peer sound.                                              *)
LEMMA KickedPeer ==
    ASSUME NEW p, PeerOK(p)
    PROVE  PeerOK(KickPeer(p)) /\ KickPeer(p).nodei.id = p.nodei.id
<1> DEFINE t == IF p.ntry_pings > 1 THEN InitNextTmo ELSE p.next_tmo
<1>1. p \in Peer
  BY DEF PeerOK
<1>2. t \in InitNextTmo .. MaxNextTmoUnreachable
  BY <1>1, TmoFacts DEF Peer
<1>3. t > MaxNextTmo => p.ntry_pings > MaxPingTms
  BY <1>1, TmoFacts DEF PeerOK, Peer
<1>4. KickPeer(p) =
        [nodei |-> p.nodei, conn |-> p.conn, age |-> 0,
         next_tmo |-> t, ntry_pings |-> p.ntry_pings, ntry_probes |-> p.ntry_probes]
  <2>1. KickPeer(p) = [p EXCEPT !.age = 0, !.next_tmo = t]
    BY DEF KickPeer
  <2> HIDE DEF t
  <2>2. QED
    BY <1>1, <2>1 DEF Peer
<1> HIDE DEF t
<1>5. QED
  BY <1>1, <1>2, <1>3, <1>4, TmoFacts DEF PeerOK, Peer

-----------------------------------------------------------------------------
(* A bucket stays sound when its peers are replaced one by one by sound    *)
(* peers of the same nodes.                                                *)
LEMMA MapBucket ==
    ASSUME NEW b \in Buckets, NEW ps, BucketOK(b, ps),
           NEW qs, qs = [i \in DOMAIN ps |-> qs[i]],
           \A i \in DOMAIN ps : PeerOK(qs[i]) /\ qs[i].nodei.id = ps[i].nodei.id
    PROVE  BucketOK(b, qs)
<1>1. DOMAIN ps = 1 .. Len(ps) /\ Len(ps) \in Nat
  BY DEF BucketOK
<1>2. qs \in Seq(Peer) /\ Len(qs) = Len(ps)
  BY <1>1 DEF PeerOK
<1>3. QED
  BY <1>1, <1>2 DEF BucketOK

(* add_node's work on one bucket                                           *)
LEMMA AddToBucketOK ==
    ASSUME NEW n \in Infos, n.id # MyId, NEW flag \in Flags,
           NEW ps, BucketOK(BucketOf[n.id], ps)
    PROVE  BucketOK(BucketOf[n.id], AddToBucket(ps, n, flag))
<1> DEFINE b == BucketOf[n.id]
<1>0. b \in Buckets
  BY IdsAssumption DEF Infos
<1>1. \A i \in DOMAIN ps : PeerOK(ps[i])
  BY DEF BucketOK
<1>2. \A i \in DOMAIN ps : /\ PeerOK(vpeer_update(ps[i], n, flag))
                           /\ vpeer_update(ps[i], n, flag).nodei.id = ps[i].nodei.id
  BY <1>1, UpdatePeer
<1>3. CASE n.id \in IdsOf(ps)
  <2> DEFINE qs == [i \in DOMAIN ps |-> IF ps[i].nodei.id = n.id
                              THEN vpeer_update(ps[i], n, flag) ELSE ps[i]]
  <2>1. \A i \in DOMAIN ps : PeerOK(qs[i]) /\ qs[i].nodei.id = ps[i].nodei.id
    BY <1>1, <1>2
  <2>2. BucketOK(b, qs)
    <3> HIDE DEF b
    <3> QED BY <1>0, <2>1, MapBucket DEF b
  <2>3. QED
    BY <1>3, <2>2 DEF AddToBucket
<1>4. CASE n.id \notin IdsOf(ps) /\ Len(ps) < BucketSz
  <2> DEFINE v == vpeer_init(n)
             qs == Append(ps, v)
  <2>1. PeerOK(v) /\ v.nodei.id = n.id
    BY InitPeer
  <2>2. \A i \in 1 .. Len(ps) : ps[i].nodei.id # n.id
    BY <1>4 DEF IdsOf, PeersOf, BucketOK
  <2>3. v \in Peer
    BY <2>1 DEF PeerOK
  <2> HIDE DEF v
  <2>4. /\ qs \in Seq(Peer) /\ Len(qs) = Len(ps) + 1
        /\ \A i \in 1 .. Len(ps) : qs[i] = ps[i]
        /\ qs[Len(ps) + 1] = v
    BY <2>3 DEF BucketOK
  <2> HIDE DEF qs
  <2>5. Len(ps) \in Nat
    BY DEF BucketOK
  <2>6. \A i \in 1 .. Len(qs) : i \in 1 .. Len(ps) \/ i = Len(ps) + 1
    BY <2>4, <2>5
  <2>7. Len(qs) =< BucketSz
    BY <1>4, <2>4, <2>5, TmoFacts
  <2>8. BucketOK(b, qs)
    BY <2>1, <2>2, <2>4, <2>5, <2>6, <2>7 DEF BucketOK
  <2>9. AddToBucket(ps, n, flag) = qs
    BY <1>4 DEF AddToBucket, qs, v
  <2>10. QED
    BY <2>8, <2>9
<1>5. CASE n.id \notin IdsOf(ps) /\ ~(Len(ps) < BucketSz)
  <2> DEFINE qs == [i \in DOMAIN ps |-> IF i = FindWorst(ps, n)
                              THEN vpeer_update(ps[i], n, flag) ELSE ps[i]]
  <2>1. \A i \in DOMAIN ps : PeerOK(qs[i]) /\ qs[i].nodei.id = ps[i].nodei.id
    BY <1>1, <1>2
  <2>2. BucketOK(b, qs)
    <3> HIDE DEF b
    <3> QED BY <1>0, <2>1, MapBucket DEF b
  <2>3. QED
    BY <1>5, <2>2 DEF AddToBucket
<1>6. QED
  BY <1>3, <1>4, <1>5

-----------------------------------------------------------------------------
(* Weighing and reporting an info changes its weight only.                 *)
LEMMA WeighedType ==
    ASSUME NEW n \in Infos
    PROVE  /\ Weighed(n) \in Infos /\ Weighed(n).id = n.id
           /\ Reported(n) \in Infos /\ Reported(n).id = n.id
  BY DEF Weighed, Reported, Infos

(* A step that replaces one bucket                                         *)
LEMMA ReplaceBucket ==
    ASSUME NEW tab, TabOK(tab), NEW c \in Buckets, NEW qs, BucketOK(c, qs)
    PROVE  TabOK([tab EXCEPT ![c] = qs])
<1>1. qs \in Seq(Peer)
  BY DEF BucketOK
<1>2. QED
  BY <1>1 DEF TabOK

(* A step that replaces peers of one bucket by sound peers of the same     *)
(* nodes                                                                   *)
LEMMA MapOneBucket ==
    ASSUME NEW tab, TabOK(tab), NEW c \in Buckets,
           NEW qs, qs = [i \in DOMAIN tab[c] |-> qs[i]],
           \A i \in DOMAIN tab[c] :
             PeerOK(qs[i]) /\ qs[i].nodei.id = tab[c][i].nodei.id
    PROVE  TabOK([tab EXCEPT ![c] = qs])
<1>1. BucketOK(c, tab[c])
  BY DEF TabOK
<1>2. BucketOK(c, qs)
  BY <1>1, MapBucket
<1>3. QED
  BY <1>2, ReplaceBucket

(* add_node keeps a table sound, also when it follows a kick.              *)
LEMMA AddNodeOK ==
    ASSUME IInv, NEW tab, TabOK(tab), NEW n \in Infos, NEW flag \in Flags,
           add_node(tab, n, flag)
    PROVE  TableOK' /\ refresh' \in [Buckets -> 0 .. MaxNextTmo]
<1> DEFINE c == BucketOf[n.id]
           qs == AddToBucket(tab[c], Weighed(n), flag)
<1>1. c \in Buckets
  BY IdsAssumption DEF Infos
<1>2. BucketOK(c, tab[c])
  BY <1>1 DEF TabOK
<1>3. Weighed(n) \in Infos /\ Weighed(n).id = n.id /\ n.id # MyId
  BY WeighedType DEF add_node
<1>4. BucketOK(c, qs)
  BY <1>2, <1>3, AddToBucketOK
<1>5. peers' = [tab EXCEPT ![c] = qs]
  BY DEF add_node
<1>6. refresh' \in [Buckets -> 0 .. MaxNextTmo]
  BY <1>1, TmoFacts DEF add_node, IInv, TypeOK
<1> HIDE DEF qs, c
<1>7. TabOK([tab EXCEPT ![c] = qs])
  BY <1>1, <1>4, ReplaceBucket
<1>8. TabOK(peers')
  BY <1>5, <1>7
<1>9. QED
  BY <1>6, <1>8 DEF TableOK, TabOK, BucketOK

(* A step that replaces the peers of every bucket one by one               *)
LEMMA MapTable ==
    ASSUME TableOK,
           NEW new, new = [b \in Buckets |-> new[b]],
           \A b \in Buckets :
             /\ new[b] = [i \in DOMAIN peers[b] |-> new[b][i]]
             /\ \A i \in DOMAIN peers[b] :
                  PeerOK(new[b][i]) /\ new[b][i].nodei.id = peers[b][i].nodei.id
    PROVE  TabOK(new)
<1>1. ASSUME NEW b \in Buckets PROVE BucketOK(b, new[b])
  <2>1. BucketOK(b, peers[b])
    BY DEF TableOK, TabOK
  <2>2. QED
    BY <2>1, MapBucket
<1>2. \A b \in Buckets : new[b] \in Seq(Peer)
  BY <1>1 DEF BucketOK
<1>3. QED
  BY <1>1, <1>2 DEF TabOK

(* All peers of a sound table are sound.                                   *)
LEMMA PeersOK ==
    ASSUME TableOK
    PROVE  /\ \A b \in Buckets : \A i \in DOMAIN peers[b] : PeerOK(peers[b][i])
           /\ \A p \in AllPeers : PeerOK(p) /\ p.nodei.id # MyId
<1>1. \A b \in Buckets : \A i \in DOMAIN peers[b] :
        PeerOK(peers[b][i]) /\ peers[b][i].nodei.id # MyId
  BY DEF TableOK, TabOK, BucketOK
<1>2. QED
  BY <1>1 DEF AllPeers, PeersOf

(* A kick keeps the table sound.                                           *)
LEMMA KickedOK ==
    ASSUME TableOK, NEW id \in Ids
    PROVE  TabOK(Kicked(id))
<1> DEFINE c == BucketOf[id]
           qs == [i \in DOMAIN peers[c] |-> IF peers[c][i].nodei.id = id
                                     THEN KickPeer(peers[c][i]) ELSE peers[c][i]]
<1>1. c \in Buckets
  BY IdsAssumption
<1>2. \A i \in DOMAIN peers[c] :
        PeerOK(qs[i]) /\ qs[i].nodei.id = peers[c][i].nodei.id
  BY <1>1, PeersOK, KickedPeer
<1>3. Kicked(id) = [peers EXCEPT ![c] = qs] /\ qs = [i \in DOMAIN peers[c] |-> qs[i]]
  BY DEF Kicked
<1> HIDE DEF qs, c
<1>4. TabOK(peers)
  BY DEF TableOK
<1>5. TabOK([peers EXCEPT ![c] = qs])
  BY <1>1, <1>2, <1>3, <1>4, MapOneBucket
<1>6. QED
  BY <1>3, <1>5

(* A second passes for a peer, or it is probed: nothing that matters for   *)
(* its soundness changes.                                                  *)
LEMMA AgedPeer ==
    ASSUME NEW p, PeerOK(p)
    PROVE  LET q == [p EXCEPT !.age = vminimum(@ + 1, p.next_tmo)]
           IN  PeerOK(q) /\ q.nodei.id = p.nodei.id
<1>1. vminimum(p.age + 1, p.next_tmo) \in 0 .. MaxNextTmoUnreachable
  BY TmoFacts DEF PeerOK, Peer, vminimum
<1>2. QED
  BY <1>1 DEF PeerOK, Peer

LEMMA ProbedPeer ==
    ASSUME NEW p, PeerOK(p), ProbesPeer(p)
    PROVE  LET q == [p EXCEPT !.ntry_probes = @ + 1]
           IN  PeerOK(q) /\ q.nodei.id = p.nodei.id
  BY TmoFacts DEF PeerOK, Peer, ProbesPeer

LEMMA AdjustedPeer ==
    ASSUME NEW p, PeerOK(p), NEW c \in Conns
    PROVE  PeerOK(AdjustPeer(p, c)) /\ AdjustPeer(p, c).nodei.id = p.nodei.id
<1>1. AdjustConn(p.conn, c) \in Conns
  BY DEF AdjustConn, PeerOK, Peer
<1>2. QED
  BY <1>1 DEF AdjustPeer, PeerOK, Peer

(* The connection a probe is about is a connection.                        *)
LEMMA ConnType ==
    ASSUME NEW local \in LocalAddrs, NEW s \in AddrLists
    PROVE  Conn(local, s[1]) \in Conns
<1>1. s \in Seq([addr : Addrs, type : AddrTypes]) /\ Len(s) \in Nat \ {0}
  BY WorstAddrType
<1>2. s[1] \in [addr : Addrs, type : AddrTypes]
  <2>1. \A S : s \in Seq(S) => s[1] \in S
    BY <1>1
  <2>2. QED
    BY <1>1, <2>1
<1>3. local \in [addr : Addrs, type : AddrTypes]
  BY AddrAssumption
<1>4. QED
  BY <1>2, <1>3 DEF Conn, Conns, Priorities, AddrTypes, Local, Unknown

-----------------------------------------------------------------------------
(* The initial states satisfy the invariant.                               *)
LEMMA InitInv == Init => IInv
  BY TmoFacts DEF Init, IInv, TypeOK, TableOK, TabOK, BucketOK, DbSound

(* The steps that change the table keep it sound: one step per action.     *)
LEMMA NextTable ==
    ASSUME IInv, Next
    PROVE  TableOK' /\ refresh' \in [Buckets -> 0 .. MaxNextTmo]
<1>0. TableOK /\ refresh \in [Buckets -> 0 .. MaxNextTmo] /\ NodeInfos \subseteq Infos
  BY IdsAssumption DEF IInv, TypeOK
<1>1. ASSUME NEW n \in NodeInfos, JoinNode(n) \/ PingRsp(n)
      PROVE  TableOK' /\ refresh' \in [Buckets -> 0 .. MaxNextTmo]
  BY <1>0, <1>1, AddNodeOK DEF JoinNode, PingRsp, Flags, TableOK
<1>2. ASSUME NEW from \in Ids, NEW n \in Infos, LearnNode(from, n)
      PROVE  TableOK' /\ refresh' \in [Buckets -> 0 .. MaxNextTmo]
  <2>1. TabOK(Kicked(from))
    BY <1>0, KickedOK
  <2>2. add_node(Kicked(from), n, "other") /\ "other" \in Flags
    BY <1>2 DEF LearnNode, Flags
  <2>3. QED
    BY <2>1, <2>2, AddNodeOK
<1>3. ASSUME NEW id \in Ids, NEW n \in FindNode(id)
      PROVE  n \in Infos
  <2>1. PICK p \in PeersOf(peers[BucketOf[id]]) : n = Reported(Copy(p.nodei))
    BY <1>3 DEF FindNode
  <2>2. BucketOf[id] \in Buckets
    BY IdsAssumption
  <2>3. p \in Peer
    BY <1>0, <2>2, PeersOK DEF PeersOf, PeerOK
  <2>4. QED
    BY <2>1, <2>3, CopyType, WeighedType DEF Peer
<1>4. ASSUME NEW from \in Ids, NEW pr \in probing, ProbeRsp(from, pr)
      PROVE  TableOK' /\ refresh' = refresh
  <2> DEFINE tab == Kicked(from)
             c == BucketOf[pr.id]
             qs == [i \in DOMAIN tab[c] |->
                      IF tab[c][i].nodei.id = pr.id
                      THEN AdjustPeer(tab[c][i], pr.conn) ELSE tab[c][i]]
  <2>0. pr.id \in Ids /\ pr.conn \in Conns
    BY DEF IInv, TypeOK
  <2>1. c \in Buckets /\ TabOK(tab)
    BY <1>0, <2>0, IdsAssumption, KickedOK
  <2>2. peers' = [tab EXCEPT ![c] = qs] /\ qs = [i \in DOMAIN tab[c] |-> qs[i]]
    BY <1>4 DEF ProbeRsp
  <2> HIDE DEF tab
  <2>3. \A i \in DOMAIN tab[c] : PeerOK(tab[c][i])
    BY <2>1 DEF TabOK, BucketOK
  <2>4. \A i \in DOMAIN tab[c] :
          PeerOK(qs[i]) /\ qs[i].nodei.id = tab[c][i].nodei.id
    BY <2>0, <2>3, AdjustedPeer
  <2> HIDE DEF qs, c
  <2>5. TabOK([tab EXCEPT ![c] = qs])
    BY <2>1, <2>2, <2>4, MapOneBucket
  <2>6. TabOK(peers')
    BY <2>2, <2>5
  <2>7. QED
    BY <1>4, <2>6 DEF ProbeRsp, TableOK, TabOK, BucketOK
<1>5. ASSUME NEW id \in Ids, KickNode(id)
      PROVE  TableOK' /\ refresh' = refresh
  <2>1. TabOK(peers')
    BY <1>0, <1>5, KickedOK DEF KickNode
  <2>2. QED
    BY <1>5, <2>1 DEF KickNode, TableOK, TabOK, BucketOK
<1>6. ASSUME NEW local \in LocalAddrs, ProbeConnectivity(local)
      PROVE  TableOK' /\ refresh' = refresh
  <2>1. \A b \in Buckets : \A i \in DOMAIN peers[b] :
          /\ PeerOK(peers'[b][i])
          /\ peers'[b][i].nodei.id = peers[b][i].nodei.id
    BY <1>0, <1>6, PeersOK, ProbedPeer DEF ProbeConnectivity
  <2>2. peers' = [b \in Buckets |-> [i \in DOMAIN peers[b] |-> peers'[b][i]]]
    BY <1>6 DEF ProbeConnectivity
  <2>3. TabOK(peers')
    BY <1>0, <2>1, <2>2, MapTable
  <2>4. QED
    BY <1>6, <2>3 DEF TableOK, TabOK, BucketOK, ProbeConnectivity
<1>7. CASE Tick
  <2>1. \A b \in Buckets : \A i \in DOMAIN peers[b] :
          /\ PeerOK(peers'[b][i])
          /\ peers'[b][i].nodei.id = peers[b][i].nodei.id
    BY <1>0, <1>7, PeersOK, PingedPeer DEF Tick
  <2>2. peers' = [b \in Buckets |-> [i \in DOMAIN peers[b] |-> peers'[b][i]]]
    BY <1>7 DEF Tick
  <2>3. TabOK(peers')
    BY <1>0, <2>1, <2>2, MapTable
  <2>4. refresh' \in [Buckets -> 0 .. MaxNextTmo]
    BY <1>0, <1>7, TmoFacts DEF Tick
  <2>5. QED
    BY <2>3, <2>4 DEF TableOK, TabOK, BucketOK
<1>8. ASSUME NEW r \in rows, LoadRow(r)
      PROVE  TableOK' /\ refresh' \in [Buckets -> 0 .. MaxNextTmo]
  <2>1. LoadedInfo(r) \in Infos
    BY AddrAssumption DEF LoadedInfo, Infos, IInv, TypeOK, Rows
  <2>2. QED
    BY <1>0, <1>8, <2>1, AddNodeOK DEF LoadRow, Flags, TableOK
<1>9. CASE Restart
  BY <1>9, TmoFacts DEF Restart, TableOK, TabOK, BucketOK
<1>10. CASE Pass
  <2>1. \A b \in Buckets : \A i \in DOMAIN peers[b] :
          /\ PeerOK(peers'[b][i])
          /\ peers'[b][i].nodei.id = peers[b][i].nodei.id
    BY <1>0, <1>10, PeersOK, AgedPeer DEF Pass
  <2>2. peers' = [b \in Buckets |-> [i \in DOMAIN peers[b] |-> peers'[b][i]]]
    BY <1>10 DEF Pass
  <2>3. TabOK(peers')
    BY <1>0, <2>1, <2>2, MapTable
  <2>4. refresh' \in [Buckets -> 0 .. MaxNextTmo]
    BY <1>0, <1>10, TmoFacts DEF Pass, vminimum
  <2>5. QED
    BY <2>3, <2>4 DEF TableOK, TabOK, BucketOK
<1>11. CASE UNCHANGED <<peers, refresh>>
  BY <1>0, <1>11 DEF TableOK, TabOK, BucketOK
<1>12. CASE (\E pr \in probing : ProbeExpires(pr)) \/ Load \/ LoadDone
  BY <1>11, <1>12 DEF ProbeExpires, Load, LoadDone
<1>13. ASSUME NEW S \in SUBSET Stored, Store(S) \/ Stop(S)
       PROVE  TableOK' /\ refresh' \in [Buckets -> 0 .. MaxNextTmo]
  BY <1>11, <1>13 DEF Store, Stop
<1>14. QED
  BY <1>0, <1>1, <1>2, <1>3, <1>4, <1>5, <1>6, <1>7, <1>8,
     <1>9, <1>10, <1>12, <1>13 DEF Next

(* Whatever part of the table is written back is sound: a node is in the   *)
(* table only once.                                                        *)
LEMMA WriteBackOK ==
    ASSUME IInv, NEW S, WriteBack(S)
    PROVE  db' \subseteq Rows /\ DbSound'
<1>1. Stored \subseteq Rows /\ \A r \in Stored : r.id # MyId /\ r.ver # UnknownVer
  BY PeersOK DEF IInv, Stored, Rows, PeerOK, Peer, Infos, IsFake
<1>2. \A p, q \in AllPeers : p.nodei.id = q.nodei.id => p = q
  <2> TAKE p, q \in AllPeers
  <2> HAVE p.nodei.id = q.nodei.id
  <2>1. PICK b \in Buckets : p \in PeersOf(peers[b])
    BY DEF AllPeers
  <2>2. PICK c \in Buckets : q \in PeersOf(peers[c])
    BY DEF AllPeers
  <2>3. PICK i \in DOMAIN peers[b] : p = peers[b][i]
    BY <2>1 DEF PeersOf
  <2>4. PICK j \in DOMAIN peers[c] : q = peers[c][j]
    BY <2>2 DEF PeersOf
  <2>5. BucketOK(b, peers[b]) /\ BucketOK(c, peers[c])
    BY DEF IInv, TableOK, TabOK
  <2>6. b = c
    <3>1. BucketOf[peers[b][i].nodei.id] = b
      BY <2>5 DEF BucketOK
    <3>2. BucketOf[peers[c][j].nodei.id] = c
      BY <2>5 DEF BucketOK
    <3>3. QED
      BY <2>3, <2>4, <3>1, <3>2
  <2>7. i = j
    BY <2>3, <2>4, <2>5, <2>6 DEF BucketOK
  <2>8. QED
    BY <2>3, <2>4, <2>6, <2>7
<1>3. \A r, s \in Stored : s.id = r.id => s = r
  <2> TAKE r, s \in Stored
  <2> HAVE s.id = r.id
  <2>1. PICK p \in AllPeers :
          r = [id |-> p.nodei.id, ver |-> p.nodei.ver, addrs |-> p.nodei.addrs]
    BY DEF Stored
  <2>2. PICK q \in AllPeers :
          s = [id |-> q.nodei.id, ver |-> q.nodei.ver, addrs |-> q.nodei.addrs]
    BY DEF Stored
  <2>3. QED
    BY <1>2, <2>1, <2>2
<1>4. db \subseteq Rows /\ S \subseteq Stored
  BY DEF IInv, TypeOK, WriteBack
<1> HIDE DEF Stored
<1>5. QED
  BY <1>1, <1>3, <1>4 DEF WriteBack, IInv, DbSound

(* Every step keeps the invariant.                                         *)
LEMMA NextInv == IInv /\ [Next]_vars => IInv'
<1> SUFFICES ASSUME IInv, [Next]_vars PROVE IInv'
  OBVIOUS
<1>1. CASE UNCHANGED vars
  BY <1>1 DEF vars, IInv, TypeOK, TableOK, TabOK, BucketOK, DbSound
<1>2. CASE Next
  <2>1. TableOK' /\ refresh' \in [Buckets -> 0 .. MaxNextTmo]
    BY <1>2, NextTable
  <2>2. ASSUME NEW S \in SUBSET Stored, Store(S) \/ Stop(S) PROVE IInv'
    <3>1. db' \subseteq Rows /\ DbSound'
      BY <2>2, WriteBackOK DEF Store, Stop
    <3>2. QED
      BY <2>1, <2>2, <3>1 DEF Store, Stop, IInv, TypeOK, TableOK, TabOK
  <2>3. CASE Load \/ LoadDone \/ Restart \/ Tick \/ Pass
    BY <2>1, <2>3 DEF Load, LoadDone, Restart, Tick, Pass, IInv, TypeOK, TableOK, TabOK, BucketOK, DbSound
  <2>4. ASSUME NEW local \in LocalAddrs, ProbeConnectivity(local) PROVE IInv'
    <3>1. \A p \in AllPeers : p.nodei.id \in Ids /\ p.nodei.addrs \in AddrLists
      BY PeersOK DEF IInv, PeerOK, Peer, Infos
    <3>2. \A p \in AllPeers : Conn(local, p.nodei.addrs[1]) \in Conns
      BY <3>1, ConnType
    <3>3. probing' \subseteq [id : Ids, conn : Conns]
      BY <2>4, <3>1, <3>2 DEF ProbeConnectivity, IInv, TypeOK
    <3>4. QED
      BY <2>1, <2>4, <3>3 DEF ProbeConnectivity, IInv, TypeOK, TableOK, TabOK, BucketOK, DbSound
  <2>5. ASSUME NEW from, NEW pr \in probing, ProbeRsp(from, pr) \/ ProbeExpires(pr)
        PROVE  IInv'
    BY <2>1, <2>5 DEF ProbeRsp, ProbeExpires, IInv, TypeOK, TableOK, TabOK, BucketOK, DbSound
  <2>6. ASSUME NEW from, NEW n, JoinNode(n) \/ LearnNode(from, n) \/ PingRsp(n)
        PROVE  IInv'
    BY <2>1, <2>6 DEF JoinNode, LearnNode, PingRsp, IInv, TypeOK, TableOK, TabOK, BucketOK, DbSound
  <2>7. ASSUME NEW id \in Ids, KickNode(id) PROVE IInv'
    BY <2>1, <2>7 DEF KickNode, IInv, TypeOK, TableOK, TabOK, BucketOK, DbSound
  <2>8. ASSUME NEW r \in rows, LoadRow(r) PROVE IInv'
    BY <2>1, <2>8 DEF LoadRow, IInv, TypeOK, TableOK, TabOK, BucketOK, DbSound
  <2>9. QED
    BY <1>2, <2>2, <2>3, <2>4, <2>5, <2>6, <2>7, <2>8 DEF Next
<1>3. QED
  BY <1>1, <1>2

-----------------------------------------------------------------------------
(* Every variable keeps its type, timers and counters stay in their ranges. *)
THEOREM TypeCorrect == Spec => []TypeOK
<1>1. IInv => TypeOK
  BY DEF IInv
<1>2. QED
  BY <1>1, InitInv, NextInv, PTL DEF Spec

(* No handler, load or tick makes a bucket overflow, lists a node twice,   *)
(* puts one where the lookups do not search, or lists the local node.      *)
THEOREM TableStaysWellFormed == Spec => []TableWellFormed
<1>1. IInv => TableWellFormed
  BY DEF IInv, TableOK, TabOK, BucketOK, TableWellFormed
<1>2. QED
  BY <1>1, InitInv, NextInv, PTL DEF Spec

(* A node is unreachable only after more than max_ping_tms silent pings.   *)
THEOREM OnlySilentNodesUnreachable == Spec => []UnreachableIsSilent
<1>1. IInv => UnreachableIsSilent
  BY PeersOK DEF IInv, PeerOK, UnreachableIsSilent
<1>2. QED
  BY <1>1, InitInv, NextInv, PTL DEF Spec

(* The database never holds a fake node, ourselves, or a node twice.       *)
THEOREM DatabaseStaysSound == Spec => []DbSound
<1>1. IInv => DbSound
  BY DEF IInv
<1>2. QED
  BY <1>1, InitInv, NextInv, PTL DEF Spec

-----------------------------------------------------------------------------
(***************************************************************************)
(* What one step can do to the table, peer by peer.  The infos that a      *)
(* handler or a load may put into it:                                      *)
(***************************************************************************)
Offered == NodeInfos \cup {LoadedInfo(r) : r \in rows}
                     \cup (UNION {FindNode(id) : id \in Ids})

(* A peer keeps its info and gets no worse a connection, its probes being  *)
(* counted on, ...                                                         *)
Refreshed(p, q) == /\ q.nodei = p.nodei
                   /\ q.conn.priority =< p.conn.priority
                   /\ q.ntry_probes >= p.ntry_probes

(* ... or an info is merged into it, its connection being dropped and its  *)
(* probes counted anew only if the merge reports an update, ...            *)
Updated(p, q, n) == /\ q.nodei = Merge(p.nodei, n)
                    /\ \/ q.conn = p.conn /\ q.ntry_probes = p.ntry_probes
                       \/ MergeUpdates(p.nodei, n)

PeerStep(p, q) == Refreshed(p, q) \/ \E n \in Offered : Updated(p, q, Weighed(n))

(* ... and new peers come behind the old ones; none ever leaves.           *)
BucketStep(ps, qs) ==
    /\ \A i \in DOMAIN ps : i \in DOMAIN qs /\ PeerStep(ps[i], qs[i])
    /\ \A i \in DOMAIN qs \ DOMAIN ps : \E n \in Offered : qs[i] = vpeer_init(Weighed(n))

TableStep == \A b \in Buckets : BucketStep(peers[b], peers'[b])

(* A table whose peers differ from those of the variable in timers only    *)
SameTable(tab) ==
    \A b \in Buckets :
      /\ DOMAIN tab[b] = DOMAIN peers[b]
      /\ \A i \in DOMAIN peers[b] : /\ tab[b][i].nodei = peers[b][i].nodei
                                     /\ tab[b][i].conn = peers[b][i].conn
                                     /\ tab[b][i].ntry_probes = peers[b][i].ntry_probes

(* Everything that is offered is an info.                                  *)
LEMMA OfferedInfos ==
    ASSUME IInv
    PROVE  Offered \subseteq Infos
<1>1. ASSUME NEW id \in Ids, NEW n \in FindNode(id) PROVE n \in Infos
  <2>1. PICK p \in PeersOf(peers[BucketOf[id]]) : n = Reported(Copy(p.nodei))
    BY <1>1 DEF FindNode
  <2>2. BucketOf[id] \in Buckets
    BY IdsAssumption
  <2>3. p \in Peer
    BY <2>2, PeersOK DEF IInv, PeersOf, PeerOK
  <2>. QED
    BY <2>1, <2>3, CopyType, WeighedType DEF Peer
<1>2. ASSUME NEW r \in rows PROVE LoadedInfo(r) \in Infos
  BY AddrAssumption DEF LoadedInfo, Infos, IInv, TypeOK, Rows
<1>. QED
  BY <1>1, <1>2, IdsAssumption DEF Offered

(* vpeer_update merges.                                                    *)
LEMMA UpdateStep ==
    ASSUME NEW p, PeerOK(p), NEW n \in Infos, NEW flag \in Flags
    PROVE  Updated(p, vpeer_update(p, n, flag), n)
<1> DEFINE q == IF flag = "ping_rsp" THEN PingAnswered(p) ELSE p
           m == Merge(p.nodei, n)
           c == RawConn(ZAddr, WorstAddr(m.addrs))
<1>1. PeerOK(q) /\ q.nodei = p.nodei /\ q.conn = p.conn /\ q.ntry_probes = p.ntry_probes
  <2>1. PeerOK(q) /\ q.nodei = p.nodei
    BY AnsweredPeer
  <2>2. PingAnswered(p).conn = p.conn /\ PingAnswered(p).ntry_probes = p.ntry_probes
    BY DEF PingAnswered, PeerOK, Peer
  <2>. QED
    BY <2>1, <2>2
<1>. HIDE DEF m, c, q
<1>2. vpeer_update(p, n, flag) =
        IF MergeUpdates(p.nodei, n)
        THEN [q EXCEPT !.nodei = m, !.conn = c, !.ntry_probes = 0]
        ELSE [q EXCEPT !.nodei = m]
  BY DEF vpeer_update, m, c, q
<1>3. CASE MergeUpdates(p.nodei, n)
  <2>1. vpeer_update(p, n, flag).nodei = m
    BY <1>1, <1>2, <1>3 DEF PeerOK, Peer
  <2>. QED
    BY <1>3, <2>1 DEF Updated, m
<1>4. CASE ~MergeUpdates(p.nodei, n)
  <2>1. /\ vpeer_update(p, n, flag).nodei = m
        /\ vpeer_update(p, n, flag).conn = q.conn
        /\ vpeer_update(p, n, flag).ntry_probes = q.ntry_probes
    BY <1>1, <1>2, <1>4 DEF PeerOK, Peer
  <2>. QED
    BY <1>1, <2>1 DEF Updated, m
<1>. QED
  BY <1>3, <1>4

(* add_node's work on one bucket                                           *)
LEMMA AddToBucketStep ==
    ASSUME NEW b \in Buckets, NEW ps, BucketOK(b, ps), NEW n \in Infos, NEW flag \in Flags
    PROVE  LET qs == AddToBucket(ps, n, flag) IN
           /\ \A i \in DOMAIN ps : i \in DOMAIN qs /\ (qs[i] = ps[i] \/ Updated(ps[i], qs[i], n))
           /\ \A i \in DOMAIN qs \ DOMAIN ps : qs[i] = vpeer_init(n)
<1>1. DOMAIN ps = 1 .. Len(ps) /\ \A i \in DOMAIN ps : PeerOK(ps[i])
  BY DEF BucketOK
<1>2. \A i \in DOMAIN ps : Updated(ps[i], vpeer_update(ps[i], n, flag), n)
  BY <1>1, UpdateStep
<1>3. CASE n.id \in IdsOf(ps)
  BY <1>2, <1>3 DEF AddToBucket
<1>4. CASE n.id \notin IdsOf(ps) /\ Len(ps) < BucketSz
  <2> DEFINE v == vpeer_init(n)
  <2>. HIDE DEF v
  <2>1. AddToBucket(ps, n, flag) = Append(ps, v)
    BY <1>4 DEF AddToBucket, v
  <2>2. ps \in Seq(Peer) /\ Len(ps) \in Nat
    BY DEF BucketOK
  <2>3. v \in Peer
    BY InitPeer DEF PeerOK, v
  <2>4. /\ DOMAIN Append(ps, v) = 1 .. Len(ps) + 1
        /\ Append(ps, v)[Len(ps) + 1] = v
        /\ \A i \in 1 .. Len(ps) : Append(ps, v)[i] = ps[i]
    BY <2>2, <2>3
  <2>5. \A i \in 1 .. Len(ps) + 1 : i \notin 1 .. Len(ps) => i = Len(ps) + 1
    BY <2>2
  <2>6. 1 .. Len(ps) \subseteq 1 .. Len(ps) + 1
    BY <2>2
  <2>. QED
    BY <1>1, <2>1, <2>4, <2>5, <2>6 DEF v
<1>5. CASE n.id \notin IdsOf(ps) /\ ~(Len(ps) < BucketSz)
  BY <1>2, <1>5 DEF AddToBucket
<1>. QED
  BY <1>3, <1>4, <1>5

(* A peer that stays as it is                                              *)
LEMMA SamePeer ==
    ASSUME NEW p, PeerOK(p),
           NEW q, q.nodei = p.nodei, q.conn = p.conn, q.ntry_probes = p.ntry_probes
    PROVE  Refreshed(p, q)
<1>1. p.conn.priority \in Int /\ p.ntry_probes \in Int
  BY LimitAssumption DEF PeerOK, Peer, Conns, Priorities
<1>. QED
  BY <1>1 DEF Refreshed

(* add_node on the table or on what a kick made of it                      *)
LEMMA AddNodeStep ==
    ASSUME IInv, NEW tab, TabOK(tab), SameTable(tab), NEW n \in Offered, NEW flag \in Flags,
           add_node(tab, n, flag)
    PROVE  TableStep
<1> DEFINE c == BucketOf[n.id]
           w == Weighed(n)
           qs == AddToBucket(tab[c], w, flag)
<1>1. n \in Infos /\ w \in Infos /\ c \in Buckets
  BY OfferedInfos, WeighedType, IdsAssumption DEF Infos
<1>. HIDE DEF w, c
<1>2. LET rs == qs IN
        /\ \A i \in DOMAIN tab[c] : i \in DOMAIN rs /\ (rs[i] = tab[c][i] \/ Updated(tab[c][i], rs[i], w))
        /\ \A i \in DOMAIN rs \ DOMAIN tab[c] : rs[i] = vpeer_init(w)
  <2>1. BucketOK(c, tab[c])
    BY <1>1 DEF TabOK
  <2>. QED
    BY <1>1, <2>1, AddToBucketStep
<1>3. peers' = [tab EXCEPT ![c] = qs] /\ tab \in [Buckets -> Seq(Peer)]
  BY DEF add_node, w, c, TabOK
<1>. HIDE DEF qs
<1>4. ASSUME NEW b \in Buckets PROVE BucketStep(peers[b], peers'[b])
  <2>1. \A i \in DOMAIN peers[b] : PeerOK(peers[b][i])
    BY PeersOK DEF IInv
  <2>2. /\ DOMAIN tab[b] = DOMAIN peers[b]
        /\ \A i \in DOMAIN peers[b] : /\ tab[b][i].nodei = peers[b][i].nodei
                                       /\ tab[b][i].conn = peers[b][i].conn
                                       /\ tab[b][i].ntry_probes = peers[b][i].ntry_probes
    BY DEF SameTable
  <2>3. \A i \in DOMAIN peers[b] : Refreshed(peers[b][i], tab[b][i])
    BY <2>1, <2>2, SamePeer
  <2>4. CASE b # c
    <3>1. peers'[b] = tab[b]
      BY <1>3, <2>4
    <3>. QED
      BY <2>2, <2>3, <3>1 DEF BucketStep, PeerStep
  <2>5. CASE b = c
    <3>1. peers'[b] = qs
      BY <1>1, <1>3, <2>5
    <3>2. \A i \in DOMAIN peers[b] : i \in DOMAIN qs /\ PeerStep(peers[b][i], qs[i])
      <4>1. SUFFICES ASSUME NEW i \in DOMAIN peers[b]
                     PROVE  i \in DOMAIN qs /\ PeerStep(peers[b][i], qs[i])
        OBVIOUS
      <4>2. i \in DOMAIN qs /\ (qs[i] = tab[b][i] \/ Updated(tab[b][i], qs[i], w))
        BY <1>2, <2>2, <2>5
      <4>3. Updated(tab[b][i], qs[i], w) => Updated(peers[b][i], qs[i], w)
        BY <2>2 DEF Updated
      <4>. QED
        BY <2>3, <4>2, <4>3 DEF PeerStep, w
    <3>3. \A i \in DOMAIN qs \ DOMAIN peers[b] : qs[i] = vpeer_init(Weighed(n))
      BY <1>2, <2>2, <2>5 DEF w
    <3>. QED
      BY <3>1, <3>2, <3>3 DEF BucketStep
  <2>. QED
    BY <2>4, <2>5
<1>. QED
  BY <1>4 DEF TableStep

(* A kick changes timers only.                                             *)
LEMMA KickedSame ==
    ASSUME TableOK, NEW id \in Ids
    PROVE  SameTable(Kicked(id))
<1> DEFINE c == BucketOf[id]
           qs == [i \in DOMAIN peers[c] |-> IF peers[c][i].nodei.id = id
                                     THEN KickPeer(peers[c][i]) ELSE peers[c][i]]
<1>1. c \in Buckets /\ peers \in [Buckets -> Seq(Peer)]
  BY IdsAssumption DEF TableOK, TabOK
<1>2. \A i \in DOMAIN peers[c] : /\ qs[i].nodei = peers[c][i].nodei
                                 /\ qs[i].conn = peers[c][i].conn
                                 /\ qs[i].ntry_probes = peers[c][i].ntry_probes
  <2>1. \A p \in Peer : /\ KickPeer(p).nodei = p.nodei
                         /\ KickPeer(p).conn = p.conn
                         /\ KickPeer(p).ntry_probes = p.ntry_probes
    BY DEF KickPeer, Peer
  <2>2. \A i \in DOMAIN peers[c] : peers[c][i] \in Peer
    BY <1>1, PeersOK DEF PeerOK
  <2>. QED
    BY <2>1, <2>2
<1>3. Kicked(id) = [peers EXCEPT ![c] = qs] /\ DOMAIN qs = DOMAIN peers[c]
  BY DEF Kicked
<1>. HIDE DEF qs, c
<1>. QED
  BY <1>1, <1>2, <1>3 DEF SameTable

(* A step that keeps every peer's info, worsens no connection and takes    *)
(* back no probe                                                           *)
LEMMA TimersStep ==
    ASSUME IInv,
           \A b \in Buckets : DOMAIN peers'[b] = DOMAIN peers[b],
           \A b \in Buckets : \A i \in DOMAIN peers[b] : Refreshed(peers[b][i], peers'[b][i])
    PROVE  TableStep
  BY DEF TableStep, BucketStep, PeerStep

LEMMA SameStep ==
    ASSUME IInv, SameTable(peers')
    PROVE  TableStep
<1>1. \A b \in Buckets : \A i \in DOMAIN peers[b] : Refreshed(peers[b][i], peers'[b][i])
  BY PeersOK, SamePeer DEF IInv, SameTable
<1>. QED
  BY <1>1, TimersStep DEF SameTable

(* Every step but the end of the process is such a step.                   *)
LEMMA NextStep ==
    ASSUME IInv, Next
    PROVE  TableStep \/ Restart
<1>0. /\ TableOK /\ TabOK(peers) /\ SameTable(peers)
      /\ \A b \in Buckets : \A i \in DOMAIN peers[b] : peers[b][i] \in Peer
  BY PeersOK DEF IInv, TableOK, SameTable, PeerOK
<1>1. ASSUME NEW n \in NodeInfos, JoinNode(n) \/ PingRsp(n) PROVE TableStep
  BY <1>0, <1>1, AddNodeStep DEF JoinNode, PingRsp, Flags, Offered
<1>2. ASSUME NEW from \in Ids, NEW n \in Offered, LearnNode(from, n) PROVE TableStep
  <2>1. TabOK(Kicked(from)) /\ SameTable(Kicked(from))
    BY <1>0, KickedOK, KickedSame
  <2>2. add_node(Kicked(from), n, "other") /\ "other" \in Flags
    BY <1>2 DEF LearnNode, Flags
  <2>. QED
    BY <2>1, <2>2, AddNodeStep
<1>3. ASSUME NEW id \in Ids, NEW n \in FindNode(id) PROVE n \in Offered
  BY DEF Offered
<1>4. ASSUME NEW from \in Ids, NEW pr \in probing, ProbeRsp(from, pr) PROVE TableStep
  <2> DEFINE tab == Kicked(from)
             c == BucketOf[pr.id]
             qs == [i \in DOMAIN tab[c] |->
                      IF tab[c][i].nodei.id = pr.id
                      THEN AdjustPeer(tab[c][i], pr.conn) ELSE tab[c][i]]
  <2>1. c \in Buckets /\ TabOK(tab) /\ SameTable(tab) /\ pr.conn \in Conns
    BY <1>0, IdsAssumption, KickedOK, KickedSame DEF IInv, TypeOK
  <2>2. peers' = [tab EXCEPT ![c] = qs] /\ DOMAIN qs = DOMAIN tab[c]
    BY <1>4 DEF ProbeRsp
  <2>3. \A b \in Buckets : \A i \in DOMAIN tab[b] : tab[b][i] \in Peer
    BY <2>1 DEF TabOK, BucketOK, PeerOK
  <2>4. ASSUME NEW p \in Peer
        PROVE  Refreshed(p, p) /\ Refreshed(p, AdjustPeer(p, pr.conn))
    <3>1. p.conn \in Conns /\ p.ntry_probes \in Int /\ \A x \in Conns : x.priority \in Int
      BY LimitAssumption DEF Peer, Conns, Priorities, Unknown
    <3>2. AdjustConn(p.conn, pr.conn).priority =< p.conn.priority
      BY <2>1, <3>1 DEF AdjustConn
    <3>3. /\ AdjustPeer(p, pr.conn).nodei = p.nodei
          /\ AdjustPeer(p, pr.conn).conn = AdjustConn(p.conn, pr.conn)
          /\ AdjustPeer(p, pr.conn).ntry_probes = p.ntry_probes
      BY DEF AdjustPeer, Peer
    <3>. QED
      BY <3>1, <3>2, <3>3 DEF Refreshed
  <2>5. \A i \in DOMAIN tab[c] : Refreshed(tab[c][i], qs[i])
    BY <2>1, <2>3, <2>4
  <2>6. tab \in [Buckets -> Seq(Peer)]
    BY <2>1 DEF TabOK
  <2>. HIDE DEF tab, qs, c
  <2>7. \A b \in Buckets : /\ DOMAIN peers'[b] = DOMAIN tab[b]
                           /\ \A i \in DOMAIN tab[b] : Refreshed(tab[b][i], peers'[b][i])
    BY <2>1, <2>2, <2>3, <2>4, <2>5, <2>6
  <2>8. \A b \in Buckets : /\ DOMAIN peers'[b] = DOMAIN peers[b]
                           /\ \A i \in DOMAIN peers[b] : Refreshed(peers[b][i], peers'[b][i])
    BY <2>1, <2>7 DEF SameTable, Refreshed
  <2>. QED
    BY <2>8, TimersStep
<1>5. ASSUME NEW id \in Ids, KickNode(id) PROVE TableStep
  BY <1>0, <1>5, KickedSame, SameStep DEF KickNode
<1>6. ASSUME NEW local \in LocalAddrs, ProbeConnectivity(local) PROVE TableStep
  <2>1. \A p \in Peer : Refreshed(p, p) /\ Refreshed(p, [p EXCEPT !.ntry_probes = @ + 1])
    <3>1. \A p \in Peer : p.conn.priority \in Int /\ p.ntry_probes \in Int
      BY LimitAssumption DEF Peer, Conns, Priorities
    <3>2. \A p \in Peer : LET q == [p EXCEPT !.ntry_probes = @ + 1]
                          IN  /\ q.nodei = p.nodei /\ q.conn = p.conn
                              /\ q.ntry_probes = p.ntry_probes + 1
      BY DEF Peer
    <3>. QED
      BY <3>1, <3>2 DEF Refreshed
  <2>2. \A b \in Buckets : DOMAIN peers'[b] = DOMAIN peers[b]
    BY <1>6 DEF ProbeConnectivity
  <2>3. \A b \in Buckets : \A i \in DOMAIN peers[b] : Refreshed(peers[b][i], peers'[b][i])
    BY <1>0, <1>6, <2>1 DEF ProbeConnectivity
  <2>. QED
    BY <2>2, <2>3, TimersStep
<1>7. CASE Tick
  <2>1. \A p \in Peer : /\ PingPeer(p).nodei = p.nodei
                         /\ PingPeer(p).conn = p.conn
                         /\ PingPeer(p).ntry_probes = p.ntry_probes
    BY DEF PingPeer, Peer
  <2>2. SameTable(peers')
    BY <1>0, <1>7, <2>1 DEF Tick, SameTable
  <2>. QED
    BY <2>2, SameStep
<1>8. ASSUME NEW r \in rows, LoadRow(r) PROVE TableStep
  BY <1>0, <1>8, AddNodeStep DEF LoadRow, Flags, Offered
<1>9. CASE Pass
  <2>1. \A p \in Peer : LET q == [p EXCEPT !.age = vminimum(@ + 1, p.next_tmo)]
                        IN  /\ q.nodei = p.nodei /\ q.conn = p.conn
                            /\ q.ntry_probes = p.ntry_probes
    BY DEF Peer
  <2>2. SameTable(peers')
    BY <1>0, <1>9, <2>1 DEF Pass, SameTable
  <2>. QED
    BY <2>2, SameStep
<1>10. CASE (\E pr \in probing : ProbeExpires(pr)) \/ Load \/ LoadDone
  <2>1. SameTable(peers')
    BY <1>0, <1>10 DEF ProbeExpires, Load, LoadDone, SameTable
  <2>. QED
    BY <2>1, SameStep
<1>11. ASSUME NEW S \in SUBSET Stored, Store(S) \/ Stop(S) PROVE TableStep
  <2>1. SameTable(peers')
    BY <1>0, <1>11 DEF Store, Stop, SameTable
  <2>. QED
    BY <2>1, SameStep
<1>12. \A n \in NodeInfos : n \in Offered
  BY DEF Offered
<1>. QED
  BY <1>1, <1>2, <1>3, <1>4, <1>5, <1>6, <1>7, <1>8, <1>9, <1>10, <1>11, <1>12 DEF Next

-----------------------------------------------------------------------------
(***************************************************************************)
(* The address lists.  Those of the table are sorted and have no address   *)
(* twice; those that a load copies have no address twice and fit.          *)
(***************************************************************************)
ListsOK ==
    /\ \A b \in Buckets : \A i \in DOMAIN peers[b] : Kept(peers[b][i].nodei.addrs)
    /\ \A r \in db \cup rows : Sendable(r.addrs)

ListInv == IInv /\ ListsOK

(* Lists that occur are lists of typed addresses.                          *)
LEMMA ListTypes ==
    ASSUME NEW n \in Infos
    PROVE  n.addrs \in Seq(Entries(Addrs))
  BY AddrAssumption DEF Infos, Entries

(* What is offered may be sent.                                            *)
LEMMA OfferedLists ==
    ASSUME ListInv, NEW n \in Offered
    PROVE  n \in Infos /\ Sendable(n.addrs)
<1>0. IInv /\ n \in Infos
  BY OfferedInfos DEF ListInv
<1>1. CASE n \in NodeInfos
  BY <1>0, <1>1, InfosAssumption DEF Sendable
<1>2. ASSUME NEW id \in Ids, n \in FindNode(id) PROVE Sendable(n.addrs)
  <2> DEFINE b == BucketOf[id]
  <2>1. PICK i \in DOMAIN peers[b] : n = Reported(Copy(peers[b][i].nodei))
    BY <1>2 DEF FindNode, PeersOf
  <2> DEFINE d == peers[b][i].nodei
  <2>2. b \in Buckets
    BY IdsAssumption
  <2>3. d \in Infos /\ Sendable(d.addrs)
    BY <1>0, <2>2, PeersOK DEF IInv, PeerOK, Peer, ListInv, ListsOK, Kept
  <2>4. Sendable(CopyAddrs(d.addrs))
    BY <2>3, ListTypes, CopyKept DEF Kept
  <2>. HIDE DEF d, b
  <2>5. Copy(d) \in Infos /\ Copy(d).addrs = CopyAddrs(d.addrs)
    BY <2>3, CopyType DEF Copy, Infos
  <2>6. n.addrs = Copy(d).addrs
    BY <2>1, <2>5 DEF Reported, Infos, d
  <2>. QED
    BY <2>4, <2>5, <2>6
<1>3. ASSUME NEW r \in rows, n = LoadedInfo(r) PROVE Sendable(n.addrs)
  <2>1. r.addrs \in AddrLists /\ Sendable(r.addrs)
    BY <1>0 DEF IInv, TypeOK, Rows, ListInv, ListsOK
  <2>2. r.addrs \in Seq(Entries(Addrs))
    BY <2>1, AddrAssumption DEF Entries
  <2>. QED
    BY <1>3, <2>1, <2>2, CopyKept DEF LoadedInfo, Kept
<1>. QED
  BY <1>0, <1>1, <1>2, <1>3 DEF Offered

(* Weighing leaves the list alone.                                         *)
LEMMA WeighedList ==
    ASSUME NEW n \in Infos
    PROVE  Weighed(n).addrs = n.addrs /\ Weighed(n).ver = n.ver
  BY DEF Weighed, Infos

(* What a merge makes of the list of an info                               *)
LEMMA MergedList ==
    ASSUME NEW d \in Infos, NEW n \in Infos
    PROVE  IF d.id # n.id THEN Merge(d, n).addrs = d.addrs
           ELSE Merge(d, n).addrs = MergeAddrs(d.addrs, n.addrs, IsFake(n))
  BY DEF Merge, Infos, IsFake

(* Each step keeps the table's lists sorted and free of repetitions.       *)
LEMMA StepKeepsLists ==
    ASSUME ListInv, NEW p, PeerOK(p), Kept(p.nodei.addrs), NEW q, PeerStep(p, q)
    PROVE  Kept(q.nodei.addrs)
<1>1. CASE Refreshed(p, q)
  BY <1>1 DEF Refreshed
<1>2. ASSUME NEW n \in Offered, Updated(p, q, Weighed(n)) PROVE Kept(q.nodei.addrs)
  <2> DEFINE w == Weighed(n)
             d == p.nodei
  <2>1. w \in Infos /\ Sendable(w.addrs) /\ d \in Infos
    BY OfferedLists, WeighedType, WeighedList DEF PeerOK, Peer
  <2>2. q.nodei = Merge(d, w) /\ Kept(d.addrs)
    BY <1>2 DEF Updated
  <2>. HIDE DEF w, d
  <2>3. d.addrs \in Seq(Entries(Addrs)) /\ w.addrs \in Seq(Entries(Addrs))
    BY <2>1, ListTypes
  <2>4. Kept(MergeAddrs(d.addrs, w.addrs, IsFake(w)))
    BY <2>1, <2>2, <2>3, MergeKept DEF IsFake
  <2>. QED
    BY <2>1, <2>2, <2>4, MergedList
<1>. QED
  BY <1>1, <1>2 DEF PeerStep

(* What is saved was in the table.                                         *)
LEMMA StoredPeers ==
    ASSUME NEW s \in Stored
    PROVE  \E b \in Buckets : \E i \in DOMAIN peers[b] :
             LET n == peers[b][i].nodei IN s = [id |-> n.id, ver |-> n.ver, addrs |-> n.addrs]
<1>1. PICK p \in AllPeers : s = [id |-> p.nodei.id, ver |-> p.nodei.ver, addrs |-> p.nodei.addrs]
  BY DEF Stored
<1>2. PICK b \in Buckets : p \in PeersOf(peers[b])
  BY DEF AllPeers
<1>3. PICK i \in DOMAIN peers[b] : p = peers[b][i]
  BY <1>2 DEF PeersOf
<1>. QED
  BY <1>1, <1>2, <1>3

(* No step but a write back brings new rows.                               *)
LEMMA RowsStep ==
    ASSUME Next
    PROVE  \/ /\ db' = db
              /\ \/ rows' \subseteq rows
                 \/ Load
           \/ (\E S \in SUBSET Stored : Store(S) \/ Stop(S)) /\ rows' = rows
  BY DEF Next, JoinNode, LearnNode, PingRsp, KickNode, ProbeRsp, ProbeExpires, ProbeConnectivity,
         Tick, Store, Stop, Load, LoadRow, LoadDone, Restart, Pass

LEMMA ListsNext == ListInv /\ [Next]_vars => ListInv'
<1> SUFFICES ASSUME ListInv, [Next]_vars PROVE ListsOK'
  BY NextInv DEF ListInv
<1>0. IInv
  BY DEF ListInv
<1>1. CASE UNCHANGED vars
  BY <1>1 DEF vars, ListInv, ListsOK
<1>2. CASE Next
  <2>1. \A b \in Buckets : \A i \in DOMAIN peers'[b] : Kept(peers'[b][i].nodei.addrs)
    <3>1. CASE Restart
      BY <3>1 DEF Restart
    <3>2. ASSUME TableStep, NEW b \in Buckets, NEW i \in DOMAIN peers'[b]
          PROVE  Kept(peers'[b][i].nodei.addrs)
      <4>1. BucketStep(peers[b], peers'[b])
        BY <3>2 DEF TableStep
      <4>2. CASE i \in DOMAIN peers[b]
        <5>1. PeerOK(peers[b][i]) /\ Kept(peers[b][i].nodei.addrs)
          BY <1>0, <4>2, PeersOK DEF IInv, ListInv, ListsOK
        <5>2. PeerStep(peers[b][i], peers'[b][i])
          BY <4>1, <4>2 DEF BucketStep
        <5>. QED
          BY <5>1, <5>2, StepKeepsLists
      <4>3. CASE i \notin DOMAIN peers[b]
        <5>1. PICK n \in Offered : peers'[b][i] = vpeer_init(Weighed(n))
          BY <3>2, <4>1, <4>3 DEF BucketStep
        <5> DEFINE w == Weighed(n)
        <5>2. w \in Infos /\ Sendable(w.addrs)
          BY OfferedLists, WeighedType, WeighedList
        <5>. HIDE DEF w
        <5>3. Kept(CopyAddrs(w.addrs))
          BY <5>2, ListTypes, CopyKept
        <5>4. vpeer_init(w).nodei.addrs = CopyAddrs(w.addrs)
          BY <5>2 DEF vpeer_init, Copy, Infos
        <5>. QED
          BY <5>1, <5>3, <5>4 DEF w
      <4>. QED
        BY <4>2, <4>3
    <3>. QED
      BY <1>0, <1>2, <3>1, <3>2, NextStep
  <2>2. \A s \in Stored : Sendable(s.addrs)
    BY StoredPeers DEF ListInv, ListsOK, Kept
  <2>3. \A r \in db' \cup rows' : Sendable(r.addrs)
    BY <1>2, <2>2, RowsStep DEF ListInv, ListsOK, Load, Store, Stop, WriteBack
  <2>. QED
    BY <2>1, <2>3 DEF ListsOK
<1>. QED
  BY <1>1, <1>2

LEMMA ListsInit == Init => ListInv
  BY InitInv DEF Init, ListInv, ListsOK

(* However infos are copied and merged, no address is twice in a peer's    *)
(* list, and the list is sorted: its last address is a worst one.          *)
THEOREM ListsStayOrdered == Spec => []AddrsOrdered
<1>1. ListInv => AddrsOrdered
  BY DEF ListInv, ListsOK, Kept, Sendable, AddrsOrdered, AllPeers, PeersOf
<1>. QED
  BY <1>1, ListsInit, ListsNext, PTL DEF Spec

(* A merge that leaves the address list as it was reports no update, so    *)
(* the peer keeps its connection and the number of its probes.             *)
LEMMA ListKept ==
    ASSUME ListInv, NEW p, PeerOK(p), Kept(p.nodei.addrs), NEW q, PeerStep(p, q),
           q.nodei.addrs = p.nodei.addrs
    PROVE  q.conn.priority =< p.conn.priority /\ q.ntry_probes >= p.ntry_probes
<1>1. p.conn.priority \in Int /\ p.ntry_probes \in Int
  BY LimitAssumption DEF PeerOK, Peer, Conns, Priorities
<1>2. CASE Refreshed(p, q)
  BY <1>2 DEF Refreshed
<1>3. ASSUME NEW n \in Offered, Updated(p, q, Weighed(n))
      PROVE  q.conn = p.conn /\ q.ntry_probes = p.ntry_probes
  <2> DEFINE w == Weighed(n)
             d == p.nodei
  <2>1. w \in Infos /\ Sendable(w.addrs) /\ d \in Infos
    BY OfferedLists, WeighedType, WeighedList DEF PeerOK, Peer
  <2>2. d.addrs \in Seq(Entries(Addrs)) /\ w.addrs \in Seq(Entries(Addrs))
    BY <2>1, ListTypes
  <2>3. /\ q.nodei = Merge(d, w)
        /\ \/ q.conn = p.conn /\ q.ntry_probes = p.ntry_probes
           \/ MergeUpdates(d, w)
    BY <1>3 DEF Updated
  <2>4. q.nodei.addrs = d.addrs /\ Kept(d.addrs)
    OBVIOUS
  <2>. HIDE DEF w, d
  <2>5. ASSUME MergeUpdates(d, w) PROVE FALSE
    <3>1. d.id = w.id /\ IsFake(w) \in BOOLEAN
      BY <2>5 DEF MergeUpdates, IsFake
    <3>2. MergeAddrs(d.addrs, w.addrs, IsFake(w)) = d.addrs
      BY <2>1, <2>3, <2>4, <3>1, MergedList
    <3>3. IF IsFake(w)
          THEN NewAddrs(d.addrs, w.addrs) # << >> /\ Len(d.addrs) + Len(NewAddrs(d.addrs, w.addrs)) =< MaxAddrs
          ELSE Len(d.addrs) # Len(w.addrs) \/ \E k \in DOMAIN w.addrs : d.addrs[k].addr # w.addrs[k].addr
      BY <2>5 DEF MergeUpdates
    <3>. QED
      BY <2>1, <2>2, <2>4, <3>1, <3>2, <3>3, UpdateChanges
  <2>. QED
    BY <2>3, <2>5
<1>. QED
  BY <1>1, <1>2, <1>3 DEF PeerStep

(* What a step does to a peer that keeps its place and its address list    *)
LEMMA KeptStep ==
    ASSUME ListInv, Next,
           NEW b \in Buckets, NEW i \in DOMAIN peers[b], i \in DOMAIN peers'[b],
           peers'[b][i].nodei.addrs = peers[b][i].nodei.addrs
    PROVE  /\ peers'[b][i].conn.priority =< peers[b][i].conn.priority
           /\ peers'[b][i].ntry_probes >= peers[b][i].ntry_probes
<1>1. IInv /\ PeerOK(peers[b][i]) /\ Kept(peers[b][i].nodei.addrs)
  BY PeersOK DEF ListInv, IInv, ListsOK
<1>2. TableStep
  <2>1. CASE Restart
    BY <2>1 DEF Restart
  <2>. QED
    BY <1>1, <2>1, NextStep
<1>3. PeerStep(peers[b][i], peers'[b][i])
  BY <1>2 DEF TableStep, BucketStep
<1>. QED
  BY <1>1, <1>3, ListKept

(* A connection is only given up for a worse one when the address list     *)
(* changed: vnodeInfo_merge never reports an update that it did not make.  *)
THEOREM ConnectionsImprove == Spec => ConnOnlyImproves
<1> DEFINE Improves ==
      \A b \in Buckets : \A i \in DOMAIN peers[b] :
         /\ i \in DOMAIN peers'[b]
         /\ peers'[b][i].nodei.addrs = peers[b][i].nodei.addrs
         => peers'[b][i].conn.priority =< peers[b][i].conn.priority
<1>1. ListInv /\ [Next]_vars => [Improves]_vars
  BY KeptStep
<1>. QED
  BY <1>1, ListsInit, ListsNext, PTL DEF Spec, ConnOnlyImproves

(* Nothing but a change of a peer's address list starts the count of its   *)
(* probes anew, and no probe leaves once max_probe_tms are counted; so the *)
(* ticker probes a peer max_probe_tms times at most at one address list,   *)
(* whatever messages it gets meanwhile.                                    *)
THEOREM ProbesStayLimited == Spec => ProbesLimited
<1> DEFINE CountKept ==
      \A b \in Buckets : \A i \in DOMAIN peers[b] :
         /\ i \in DOMAIN peers'[b]
         /\ peers'[b][i].ntry_probes < peers[b][i].ntry_probes
         => peers'[b][i].nodei.addrs # peers[b][i].nodei.addrs
           ProbesCounted ==
      \A pr \in probing' \ probing :
         \E b \in Buckets : \E i \in DOMAIN peers[b] :
            /\ peers[b][i].nodei.id = pr.id
            /\ peers[b][i].ntry_probes < MaxProbeTms
            /\ peers'[b][i].ntry_probes = peers[b][i].ntry_probes + 1
<1>1. ListInv /\ [Next]_vars => [CountKept]_vars
  <2> SUFFICES ASSUME ListInv, Next,
                      NEW b \in Buckets, NEW i \in DOMAIN peers[b], i \in DOMAIN peers'[b],
                      peers'[b][i].ntry_probes < peers[b][i].ntry_probes,
                      peers'[b][i].nodei.addrs = peers[b][i].nodei.addrs
               PROVE  FALSE
    OBVIOUS
  <2>1. peers'[b][i].ntry_probes >= peers[b][i].ntry_probes
    BY KeptStep
  <2>2. peers[b][i].ntry_probes \in Int /\ peers'[b][i].ntry_probes \in Int
    <3>1. IInv /\ IInv'
      BY NextInv DEF ListInv
    <3>2. PeerOK(peers[b][i]) /\ PeerOK(peers'[b][i])
      BY <3>1, PeersOK DEF IInv, TableOK, TabOK, BucketOK, PeerOK
    <3> QED
      BY <3>2, LimitAssumption DEF PeerOK, Peer
  <2> QED
    BY <2>1, <2>2
<1>2. ListInv /\ [Next]_vars => [ProbesCounted]_vars
  <2> SUFFICES ASSUME ListInv, Next PROVE ProbesCounted
    OBVIOUS
  <2>1. ASSUME NEW local \in LocalAddrs, ProbeConnectivity(local) PROVE ProbesCounted
    <3> SUFFICES ASSUME NEW pr \in probing' \ probing
                 PROVE  \E b \in Buckets : \E i \in DOMAIN peers[b] :
                           /\ peers[b][i].nodei.id = pr.id
                           /\ peers[b][i].ntry_probes < MaxProbeTms
                           /\ peers'[b][i].ntry_probes = peers[b][i].ntry_probes + 1
      OBVIOUS
    <3>1. PICK p \in AllPeers : ProbesPeer(p) /\ pr.id = p.nodei.id
      BY <2>1 DEF ProbeConnectivity
    <3>2. PICK b \in Buckets : p \in PeersOf(peers[b])
      BY DEF AllPeers
    <3>3. PICK i \in DOMAIN peers[b] : p = peers[b][i]
      BY <3>2 DEF PeersOf
    <3>4. p \in Peer /\ p.ntry_probes < MaxProbeTms
      BY <3>1, <3>3, PeersOK DEF ListInv, IInv, PeerOK, ProbesPeer
    <3>5. peers'[b][i] = [p EXCEPT !.ntry_probes = @ + 1]
      BY <2>1, <3>1, <3>3 DEF ProbeConnectivity
    <3>6. peers'[b][i].ntry_probes = p.ntry_probes + 1
      BY <3>4, <3>5 DEF Peer
    <3>. QED
      BY <3>1, <3>3, <3>4, <3>6
  <2>2. \/ probing' \subseteq probing
        \/ \E local \in LocalAddrs : ProbeConnectivity(local)
    BY DEF Next, JoinNode, LearnNode, PingRsp, KickNode, ProbeRsp, ProbeExpires, Tick,
           Store, Stop, Load, LoadRow, LoadDone, Restart, Pass
  <2>. QED
    BY <2>1, <2>2
<1>. QED
  BY <1>1, <1>2, ListsInit, ListsNext, PTL DEF Spec, ProbesLimited

-----------------------------------------------------------------------------
(***************************************************************************)
(* The weights.  What the table would report of a peer is what a load      *)
(* gives it, or what a message offered for this node under this version.   *)
(***************************************************************************)
Told(n) == \/ n.weight = 0
           \/ \E o \in NodeInfos : o.id = n.id /\ o.ver = n.ver /\ o.weight = n.weight

WeightsOK == \A b \in Buckets : \A i \in DOMAIN peers[b] : Told(Reported(peers[b][i].nodei))

WeightInv == IInv /\ WeightsOK

(* Reporting takes off what weighing put on; it looks at the id, the       *)
(* version and the weight only.                                            *)
LEMMA ReportedWeighed ==
    ASSUME NEW n \in Infos
    PROVE  Reported(Weighed(n)) = n
<1>1. n.weight \in Int
  BY DEF Infos
<1>2. CASE n.ver = MyVer
  <2>1. Weighed(n) = [id |-> n.id, ver |-> n.ver, weight |-> n.weight + 1, addrs |-> n.addrs]
    BY <1>2 DEF Weighed, Infos
  <2>2. Reported(Weighed(n)) =
          [id |-> n.id, ver |-> n.ver, weight |-> (n.weight + 1) - 1, addrs |-> n.addrs]
    BY <1>2, <2>1 DEF Reported
  <2>3. (n.weight + 1) - 1 = n.weight
    BY <1>1
  <2>4. n = [id |-> n.id, ver |-> n.ver, weight |-> n.weight, addrs |-> n.addrs]
    BY DEF Infos
  <2>. QED
    BY <2>2, <2>3, <2>4
<1>3. CASE n.ver # MyVer
  BY <1>3 DEF Weighed, Reported
<1>. QED
  BY <1>2, <1>3

LEMMA ToldSame ==
    ASSUME NEW n \in Infos, NEW m \in Infos,
           n.id = m.id, n.ver = m.ver, n.weight = m.weight, Told(Reported(n))
    PROVE  Told(Reported(m))
<1>1. /\ Reported(n).id = Reported(m).id
      /\ Reported(n).ver = Reported(m).ver
      /\ Reported(n).weight = Reported(m).weight
  BY DEF Reported, Infos
<1>. QED
  BY <1>1 DEF Told

(* What is offered has been told.                                          *)
LEMMA OfferedTold ==
    ASSUME WeightInv, NEW n \in Offered
    PROVE  n \in Infos /\ Weighed(n) \in Infos /\ Told(Reported(Weighed(n)))
<1>0. IInv /\ n \in Infos
  BY OfferedInfos DEF WeightInv
<1>1. ASSUME NEW id \in Ids, n \in FindNode(id) PROVE Told(n)
  <2> DEFINE b == BucketOf[id]
  <2>1. PICK i \in DOMAIN peers[b] : n = Reported(Copy(peers[b][i].nodei))
    BY <1>1 DEF FindNode, PeersOf
  <2> DEFINE d == peers[b][i].nodei
  <2>2. b \in Buckets
    BY IdsAssumption
  <2>3. d \in Infos /\ Told(Reported(d))
    BY <1>0, <2>2, PeersOK DEF IInv, PeerOK, Peer, WeightInv, WeightsOK
  <2>. HIDE DEF d, b
  <2>4. Copy(d) \in Infos /\ Copy(d).id = d.id /\ Copy(d).ver = d.ver /\ Copy(d).weight = d.weight
    BY <2>3, CopyType DEF Copy, Infos
  <2>. QED
    BY <2>1, <2>3, <2>4, ToldSame DEF d
<1>2. ASSUME NEW r \in rows, n = LoadedInfo(r) PROVE Told(n)
  BY <1>2 DEF LoadedInfo, Told
<1>3. Told(n)
  BY <1>1, <1>2 DEF Offered, Told
<1>. QED
  BY <1>0, <1>3, ReportedWeighed, WeighedType

(* Each step keeps what a peer's info would be reported as.                *)
LEMMA StepKeepsTold ==
    ASSUME WeightInv, NEW p, PeerOK(p), Told(Reported(p.nodei)), NEW q, PeerStep(p, q)
    PROVE  Told(Reported(q.nodei))
<1>1. CASE Refreshed(p, q)
  BY <1>1 DEF Refreshed
<1>2. ASSUME NEW n \in Offered, Updated(p, q, Weighed(n)) PROVE Told(Reported(q.nodei))
  <2> DEFINE w == Weighed(n)
             d == p.nodei
  <2>1. w \in Infos /\ Told(Reported(w)) /\ d \in Infos /\ Told(Reported(d))
    BY OfferedTold DEF PeerOK, Peer
  <2>2. q.nodei = Merge(d, w)
    BY <1>2 DEF Updated
  <2>. HIDE DEF w, d
  <2>3. Merge(d, w) \in Infos
    BY <2>1, MergeType
  <2>4. \/ Merge(d, w).id = d.id /\ Merge(d, w).ver = d.ver /\ Merge(d, w).weight = d.weight
        \/ Merge(d, w).id = w.id /\ Merge(d, w).ver = w.ver /\ Merge(d, w).weight = w.weight
    BY <2>1 DEF Merge, Infos, IsFake
  <2>. QED
    BY <2>1, <2>2, <2>3, <2>4, ToldSame
<1>. QED
  BY <1>1, <1>2 DEF PeerStep

LEMMA WeightsNext == WeightInv /\ [Next]_vars => WeightInv'
<1> SUFFICES ASSUME WeightInv, [Next]_vars PROVE WeightsOK'
  BY NextInv DEF WeightInv
<1>0. IInv
  BY DEF WeightInv
<1>1. CASE UNCHANGED vars
  BY <1>1 DEF vars, WeightInv, WeightsOK
<1>2. CASE Next
  <2>1. CASE Restart
    BY <2>1 DEF Restart, WeightsOK
  <2>2. ASSUME TableStep, NEW b \in Buckets, NEW i \in DOMAIN peers'[b]
        PROVE  Told(Reported(peers'[b][i].nodei))
    <3>1. BucketStep(peers[b], peers'[b])
      BY <2>2 DEF TableStep
    <3>2. CASE i \in DOMAIN peers[b]
      <4>1. PeerOK(peers[b][i]) /\ Told(Reported(peers[b][i].nodei))
        BY <1>0, <3>2, PeersOK DEF IInv, WeightInv, WeightsOK
      <4>2. PeerStep(peers[b][i], peers'[b][i])
        BY <3>1, <3>2 DEF BucketStep
      <4>. QED
        BY <4>1, <4>2, StepKeepsTold
    <3>3. CASE i \notin DOMAIN peers[b]
      <4>1. PICK n \in Offered : peers'[b][i] = vpeer_init(Weighed(n))
        BY <2>2, <3>1, <3>3 DEF BucketStep
      <4> DEFINE w == Weighed(n)
      <4>2. w \in Infos /\ Told(Reported(w))
        BY OfferedTold
      <4>. HIDE DEF w
      <4>3. vpeer_init(w).nodei = Copy(w)
        BY DEF vpeer_init
      <4>4. Copy(w) \in Infos /\ Copy(w).id = w.id /\ Copy(w).ver = w.ver /\ Copy(w).weight = w.weight
        BY <4>2, CopyType DEF Copy, Infos
      <4>5. Told(Reported(Copy(w)))
        BY <4>2, <4>4, ToldSame
      <4>. QED
        BY <4>1, <4>3, <4>5 DEF w
    <3>. QED
      BY <3>2, <3>3
  <2>. QED
    BY <1>0, <1>2, <2>1, <2>2, NextStep DEF WeightsOK
<1>. QED
  BY <1>1, <1>2

LEMMA WeightsInit == Init => WeightInv
  BY InitInv DEF Init, WeightInv, WeightsOK

(* The weight that a node of our own version gets on top in the table is   *)
(* never told to others, however often infos go back and forth.            *)
THEOREM NoWeightLeaks == Spec => []AdvertisedWeight
<1>1. WeightInv => AdvertisedWeight
  <2> SUFFICES ASSUME WeightInv, NEW id \in Ids, NEW n \in FindNode(id) PROVE Told(n)
    BY DEF AdvertisedWeight, Told
  <2>1. n \in Offered
    BY DEF Offered
  <2>2. n \in Infos /\ Told(Reported(Weighed(n)))
    BY <2>1, OfferedTold
  <2>. QED
    BY <2>2, ReportedWeighed
<1>. QED
  BY <1>1, WeightsInit, WeightsNext, PTL DEF Spec

-----------------------------------------------------------------------------
(***************************************************************************)
(* The load.  While it runs, a row of the database is still to come, in    *)
(* the table, or shut out by a full bucket; afterwards nothing is to come. *)
(***************************************************************************)
Placed(r) == InTable(r.id) \/ Len(peers[BucketOf[r.id]]) = BucketSz

RestoreOK ==
    /\ mode = "load" => \A r \in db : r \in rows \/ Placed(r)
    /\ mode = "run"  => \A r \in db : Placed(r)

RestoreInv == IInv /\ RestoreOK

(* A node that has its place keeps it until the process ends.              *)
LEMMA PlacedStays ==
    ASSUME IInv, IInv', TableStep, NEW r \in Rows, Placed(r)
    PROVE  Placed(r)'
<1> DEFINE b == BucketOf[r.id]
<1>1. b \in Buckets
  BY IdsAssumption DEF Rows
<1>2. BucketOK(b, peers[b]) /\ BucketOK(b, peers'[b])
  BY <1>1 DEF IInv, TableOK, TabOK, BucketOK, PeerOK
<1>3. BucketStep(peers[b], peers'[b])
  BY <1>1 DEF TableStep
<1>4. /\ DOMAIN peers[b] = 1 .. Len(peers[b]) /\ Len(peers[b]) \in Nat
      /\ DOMAIN peers'[b] = 1 .. Len(peers'[b]) /\ Len(peers'[b]) \in Nat
      /\ Len(peers'[b]) =< BucketSz
  BY <1>2 DEF BucketOK
<1>5. CASE InTable(r.id)
  <2>1. PICK i \in DOMAIN peers[b] : peers[b][i].nodei.id = r.id
    BY <1>5 DEF InTable, IdsOf, PeersOf
  <2>2. i \in DOMAIN peers'[b] /\ PeerStep(peers[b][i], peers'[b][i])
    BY <1>3 DEF BucketStep
  <2>3. PeerOK(peers[b][i])
    BY <1>2, <1>4 DEF BucketOK
  <2>4. peers'[b][i].nodei.id = r.id
    <3>1. CASE Refreshed(peers[b][i], peers'[b][i])
      BY <2>1, <3>1 DEF Refreshed
    <3>2. ASSUME NEW n \in Offered, Updated(peers[b][i], peers'[b][i], Weighed(n))
          PROVE  peers'[b][i].nodei.id = r.id
      <4>1. Weighed(n) \in Infos /\ peers[b][i].nodei \in Infos
        BY <2>3, OfferedInfos, WeighedType DEF PeerOK, Peer
      <4>. QED
        BY <2>1, <3>2, <4>1, MergeType DEF Updated
    <3>. QED
      BY <2>2, <3>1, <3>2 DEF PeerStep
  <2>. QED
    BY <2>2, <2>4 DEF Placed, InTable, IdsOf, PeersOf
<1>6. CASE Len(peers[b]) = BucketSz
  <2>1. \A i \in 1 .. BucketSz : i \in 1 .. Len(peers'[b])
    BY <1>3, <1>4, <1>6 DEF BucketStep
  <2>2. BucketSz \in 1 .. Len(peers'[b])
    BY <2>1, LimitAssumption
  <2>3. Len(peers'[b]) = BucketSz
    BY <1>4, <2>2
  <2>. QED
    BY <2>3 DEF Placed
<1>. QED
  BY <1>5, <1>6 DEF Placed

(* add_node finds a place for the node it is given, or the bucket is full. *)
LEMMA AddPlaces ==
    ASSUME IInv, IInv', NEW n \in Infos, NEW flag \in Flags, add_node(peers, n, flag),
           NEW r, r.id = n.id
    PROVE  Placed(r)'
<1> DEFINE b == BucketOf[n.id]
           w == Weighed(n)
           ps == peers[b]
           qs == AddToBucket(ps, w, flag)
<1>1. w \in Infos /\ w.id = n.id /\ b \in Buckets
  BY WeighedType, IdsAssumption DEF Infos
<1>. HIDE DEF w
<1>2. peers'[b] = qs
  BY <1>1 DEF add_node, w, IInv, TypeOK
<1>3. BucketOK(b, ps) /\ Len(ps) \in Nat /\ DOMAIN ps = 1 .. Len(ps)
  BY <1>1 DEF IInv, TableOK, TabOK, BucketOK
<1>4. \A i \in DOMAIN ps : PeerOK(ps[i])
  BY <1>3 DEF BucketOK
<1>. HIDE DEF ps, b
<1>5. CASE w.id \in IdsOf(ps)
  <2>1. PICK i \in DOMAIN ps : ps[i].nodei.id = w.id
    BY <1>5 DEF IdsOf, PeersOf
  <2>2. i \in DOMAIN qs /\ qs[i] = vpeer_update(ps[i], w, flag)
    BY <1>5, <2>1 DEF AddToBucket
  <2>3. qs[i].nodei.id = w.id
    BY <1>1, <1>4, <2>1, <2>2, UpdatePeer
  <2>4. w.id \in IdsOf(peers'[b])
    BY <1>2, <2>2, <2>3 DEF IdsOf, PeersOf
  <2>. QED
    BY <1>1, <2>4 DEF Placed, InTable, b
<1>6. CASE w.id \notin IdsOf(ps) /\ Len(ps) < BucketSz
  <2> DEFINE v == vpeer_init(w)
  <2>1. v \in Peer /\ v.nodei.id = w.id
    BY <1>1, InitPeer DEF PeerOK
  <2>2. qs = Append(ps, v)
    BY <1>6 DEF AddToBucket
  <2>. HIDE DEF v, qs
  <2>3. Len(ps) + 1 \in DOMAIN qs /\ qs[Len(ps) + 1] = v
    BY <1>3, <2>1, <2>2 DEF BucketOK
  <2>4. w.id \in IdsOf(peers'[b])
    BY <1>2, <2>1, <2>3 DEF IdsOf, PeersOf
  <2>. QED
    BY <1>1, <2>4 DEF Placed, InTable, b
<1>7. CASE w.id \notin IdsOf(ps) /\ ~(Len(ps) < BucketSz)
  <2>1. DOMAIN qs = DOMAIN ps
    BY <1>7 DEF AddToBucket
  <2>2. BucketOK(b, peers'[b])
    BY <1>1 DEF IInv, TableOK, TabOK, BucketOK, PeerOK
  <2>3. Len(ps) = BucketSz
    BY <1>3, <1>7, LimitAssumption DEF BucketOK
  <2>4. DOMAIN peers'[b] = 1 .. Len(peers'[b]) /\ Len(peers'[b]) \in Nat
    BY <2>2 DEF BucketOK
  <2>5. Len(peers'[b]) = Len(ps)
    <3>1. 1 .. Len(peers'[b]) = 1 .. Len(ps)
      BY <1>2, <1>3, <2>1, <2>4
    <3>2. \A x, y \in Nat : 1 .. x = 1 .. y => x = y
      <4>1. SUFFICES ASSUME NEW x \in Nat, NEW y \in Nat, 1 .. x = 1 .. y, x < y PROVE FALSE
        OBVIOUS
      <4>2. y \in 1 .. y /\ y \notin 1 .. x
        BY <4>1
      <4>. QED
        BY <4>1, <4>2
    <3>. QED
      BY <1>3, <2>4, <3>1, <3>2
  <2>. QED
    BY <2>3, <2>5 DEF Placed, b
<1>. QED
  BY <1>5, <1>6, <1>7

LEMMA RestoreNext == RestoreInv /\ [Next]_vars => RestoreInv'
<1> SUFFICES ASSUME RestoreInv, [Next]_vars PROVE RestoreOK'
  BY NextInv DEF RestoreInv
<1>0. IInv /\ IInv'
  BY NextInv DEF RestoreInv
<1>1. CASE UNCHANGED vars
  BY <1>1 DEF vars, RestoreInv, RestoreOK, Placed, InTable
<1>2. CASE Next
  <2>1. CASE Restart
    BY <2>1 DEF Restart, RestoreOK
  <2>2. ASSUME TableStep PROVE RestoreOK'
    <3>1. \A r \in Rows : Placed(r) => Placed(r)'
      BY <1>0, <2>2, PlacedStays
    <3>2. db \subseteq Rows
      BY <1>0 DEF IInv, TypeOK
    <3>3. CASE db' = db /\ mode' = mode /\ rows' = rows
      BY <3>1, <3>2, <3>3 DEF RestoreInv, RestoreOK
    <3>4. CASE Load
      BY <3>4 DEF Load, RestoreOK
    <3>5. CASE LoadDone
      BY <3>1, <3>2, <3>5 DEF LoadDone, RestoreInv, RestoreOK
    <3>6. ASSUME NEW S \in SUBSET Stored, Stop(S) PROVE RestoreOK'
      BY <3>6 DEF Stop, RestoreOK
    <3>7. ASSUME NEW S \in SUBSET Stored, Store(S) PROVE RestoreOK'
      <4>1. \A s \in Stored : InTable(s.id)
        <5>1. SUFFICES ASSUME NEW s \in Stored PROVE InTable(s.id)
          OBVIOUS
        <5>2. PICK b \in Buckets : \E i \in DOMAIN peers[b] : s.id = peers[b][i].nodei.id
          BY StoredPeers
        <5>3. PICK i \in DOMAIN peers[b] : s.id = peers[b][i].nodei.id
          BY <5>2
        <5>4. BucketOf[s.id] = b
          BY <1>0, <5>3 DEF IInv, TableOK, TabOK, BucketOK
        <5>. QED
          BY <5>3, <5>4 DEF InTable, IdsOf, PeersOf
      <4>2. \A s \in Stored : Placed(s)
        BY <4>1 DEF Placed
      <4>3. \A r \in db' : r \in db \/ r \in Stored
        BY <3>7 DEF Store, WriteBack
      <4>4. \A r \in db' : Placed(r)
        BY <3>7, <4>2, <4>3 DEF Store, RestoreInv, RestoreOK
      <4>5. \A r \in db' : Placed(r)'
        BY <3>7, <4>4 DEF Store, Placed, InTable
      <4>. QED
        BY <3>7, <4>5 DEF Store, RestoreOK
    <3>8. ASSUME NEW r \in rows, LoadRow(r) PROVE RestoreOK'
      <4>1. add_node(peers, LoadedInfo(r), "other") /\ LoadedInfo(r) \in Infos
        BY <1>0, <3>8, OfferedInfos DEF LoadRow, Offered
      <4>2. Placed(r)'
        BY <1>0, <4>1, AddPlaces DEF LoadedInfo, Flags
      <4>. QED
        BY <3>1, <3>2, <3>8, <4>2 DEF LoadRow, RestoreInv, RestoreOK
    <3>9. \/ db' = db /\ mode' = mode /\ rows' = rows
          \/ Load \/ LoadDone \/ Restart
          \/ \E S \in SUBSET Stored : Store(S) \/ Stop(S)
          \/ \E r \in rows : LoadRow(r)
      BY <1>2 DEF Next, JoinNode, LearnNode, PingRsp, KickNode, ProbeRsp, ProbeExpires,
                  ProbeConnectivity, Tick, Pass
    <3>. QED
      BY <2>1, <3>3, <3>4, <3>5, <3>6, <3>7, <3>8, <3>9
  <2>. QED
    BY <1>0, <1>2, <2>1, <2>2, NextStep
<1>. QED
  BY <1>1, <1>2

LEMMA RestoreInit == Init => RestoreInv
  BY InitInv DEF Init, RestoreInv, RestoreOK

(* Whatever arrives before, between and after the rows of a load, and      *)
(* wherever the process died before, a running node has every saved node   *)
(* in its table, unless the node's bucket is full.                         *)
THEOREM LoadsEverything == Spec => []RestoreComplete
<1>1. RestoreInv => RestoreComplete
  BY DEF RestoreInv, RestoreOK, Placed, RestoreComplete
<1>. QED
  BY <1>1, RestoreInit, RestoreNext, PTL DEF Spec
=============================================================================
