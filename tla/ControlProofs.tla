--------------------------- MODULE ControlProofs ---------------------------
(***************************************************************************)
(* Proofs about the local control socket, for any clients, paths, calls    *)
(* and files: what the daemon unpacks is what the library packed, an       *)
(* answer that a call delivers is one to its question, and the requests    *)
(* that reach the daemon are carried out as the registry promises.         *)
(***************************************************************************)
EXTENDS Control, Induction, SequenceTheorems

-----------------------------------------------------------------------------
(* Datagrams                                                               *)

(* The two halves of a word come apart again.                              *)
LEMMA HalvesApart ==
    ASSUME NEW x \in Nat, NEW n \in Nat, 4 * n < 65536
    PROVE  FirstHalf(Halves(x, n)) = x /\ WordsLeft(Halves(x, n)) = n
  BY DEF FirstHalf, Halves, WordsLeft

(* The k-th of the sequences is found in its place.                        *)
LEMMA FlatPairs ==
    ASSUME NEW seqs, NEW L \in Nat, Len(seqs) = L, NEW k \in 1 .. L, NEW j \in 1 .. 2
    PROVE  Flat(seqs, 2)[2 * (k - 1) + j] = seqs[k][j]
<1> DEFINE m == 2 * (k - 1) + j
<1>1. m \in 1 .. 2 * L /\ (m - 1) \div 2 = k - 1 /\ (m - 1) % 2 = j - 1
  OBVIOUS
<1>. QED
  BY <1>1 DEF Flat

LEMMA FlatTriples ==
    ASSUME NEW seqs, NEW L \in Nat, Len(seqs) = L, NEW k \in 1 .. L, NEW j \in 1 .. 3
    PROVE  Flat(seqs, 3)[3 * (k - 1) + j] = seqs[k][j]
<1> DEFINE m == 3 * (k - 1) + j
<1>1. m \in 1 .. 3 * L /\ (m - 1) \div 3 = k - 1 /\ (m - 1) % 3 = j - 1
  OBVIOUS
<1>. QED
  BY <1>1 DEF Flat

(* The words of a message                                                  *)
LEMMA MessageWords ==
    ASSUME NEW type \in Nat, NEW cmd \in DOMAIN CmdId, NEW S, NEW content \in Seq(S)
    PROVE  LET w == Message(type, cmd, content) IN
           /\ DOMAIN w = 1 .. Len(content) + 3
           /\ At(w, 1) = Halves(type, 1 + Len(content))
           /\ At(w, 2) = Magic
           /\ At(w, 3) = Halves(CmdId[cmd], Len(content))
           /\ \A k \in 1 .. Len(content) : At(w, k + 3) = content[k]
<1> DEFINE a == Halves(type, 1 + Len(content))
           b == Halves(CmdId[cmd], Len(content))
           w == Message(type, cmd, content)
<1>. HIDE DEF a, b
<1>1. w = <<a, Magic, b>> \o content
  BY DEF Message, a, b
<1>. HIDE DEF w
<1>2. Len(<<a, Magic, b>>) = 3 /\ Len(content) \in Nat
  OBVIOUS
<1>3. /\ DOMAIN w = 1 .. Len(content) + 3
      /\ w[1] = a /\ w[2] = Magic /\ w[3] = b
      /\ \A k \in 1 .. Len(content) : w[k + 3] = content[k]
  <2>1. \A x : <<a, Magic, b>> \in Seq({a, Magic, b})
    OBVIOUS
  <2>2. <<a, Magic, b>> \in Seq({a, Magic, b} \cup S) /\ content \in Seq({a, Magic, b} \cup S)
    OBVIOUS
  <2>3. Len(w) = 3 + Len(content) /\ w \in Seq({a, Magic, b} \cup S)
    BY <1>1, <2>2
  <2>4. \A k \in 1 .. Len(content) : w[3 + k] = content[k]
    BY <1>1, <1>2, <2>2
  <2>5. w[1] = a /\ w[2] = Magic /\ w[3] = b
    BY <1>1, <1>2, <2>2
  <2>. QED
    BY <1>2, <2>3, <2>4, <2>5
<1>. QED
  BY <1>2, <1>3 DEF At, a, b, w

(* Where a function takes each value once, the value tells the argument.   *)
LEMMA ValueTells ==
    ASSUME NEW f, NEW a \in DOMAIN f, \A c, d \in DOMAIN f : f[c] = f[d] => c = d
    PROVE  (CHOOSE c \in DOMAIN f : f[c] = f[a]) = a
<1> DEFINE Same(c) == f[c] = f[a]
<1>1. Same(a) /\ \A c \in DOMAIN f : Same(c) => c = a
  OBVIOUS
<1>. HIDE DEF Same
<1>2. (CHOOSE c \in DOMAIN f : Same(c)) = a
  BY <1>1, Zenon
<1>. QED
  BY <1>2 DEF Same

(* The number of a command tells the command.                              *)
LEMMA CmdIds ==
    ASSUME NEW cmd \in DOMAIN CmdId
    PROVE  /\ CmdId[cmd] \in Nat
           /\ (CHOOSE c \in DOMAIN CmdId : CmdId[c] = CmdId[cmd]) = cmd
<1>1. \A c, d \in DOMAIN CmdId : CmdId[c] = CmdId[d] => c = d
  BY DEF CmdId
<1>2. \A c \in DOMAIN CmdId : CmdId[c] \in Nat
  BY DEF CmdId
<1>3. (CHOOSE c \in DOMAIN CmdId : CmdId[c] = CmdId[cmd]) = cmd
  BY <1>1, ValueTells
<1>. QED
  BY <1>2, <1>3

(* What is read of the header of w, and the words behind it                *)
ReadsAs(w, type, cmd, content) ==
    /\ At(w, 2) = Magic
    /\ FirstHalf(At(w, 1)) = type
    /\ FirstHalf(At(w, 3)) = CmdId[cmd]
    /\ WordsLeft(At(w, 3)) = Len(content)
    /\ \A k \in 1 .. Len(content) : At(w, k + 3) = content[k]

(* The header of a message is read as it was written.                      *)
LEMMA HeaderRead ==
    ASSUME NEW type \in Nat, NEW cmd \in DOMAIN CmdId, NEW S, NEW content \in Seq(S), Fits(content)
    PROVE  ReadsAs(Message(type, cmd, content), type, cmd, content)
<1> DEFINE w == Message(type, cmd, content)
           id == CmdId[cmd]
<1>1. /\ At(w, 1) = Halves(type, 1 + Len(content))
      /\ At(w, 2) = Magic
      /\ At(w, 3) = Halves(id, Len(content))
      /\ \A k \in 1 .. Len(content) : At(w, k + 3) = content[k]
  BY MessageWords
<1>2. id \in Nat
  BY CmdIds
<1>. HIDE DEF w, id
<1>3. Len(content) \in Nat /\ 1 + Len(content) \in Nat /\ 4 * (1 + Len(content)) < 65536
  BY DEF Fits
<1>4. 4 * Len(content) < 65536
  BY <1>3
<1>5. FirstHalf(At(w, 1)) = type
  BY <1>1, <1>3, HalvesApart
<1>6. FirstHalf(At(w, 3)) = id /\ WordsLeft(At(w, 3)) = Len(content)
  BY <1>1, <1>2, <1>3, <1>4, HalvesApart
<1>. QED
  BY <1>1, <1>5, <1>6 DEF w, id, ReadsAs

(* A function on the numbers from 1 to n is a sequence of length n.        *)
LEMMA IsSeq ==
    ASSUME NEW S, NEW n \in Nat, NEW f \in [1 .. n -> S]
    PROVE  f \in Seq(S) /\ Len(f) = n
<1>1. f \in Seq(S)
  BY SeqDef
<1>. QED
  BY <1>1, LenProperties

(* The places of a hash, of a word behind it, and of what follows          *)
LEMMA HashPlaces ==
    ASSUME NEW hash \in Hashes
    PROVE  hash \in Seq(Nat) /\ Len(hash) = 5 /\ DOMAIN hash = 1 .. 5
<1>1. hash \in [1 .. 5 -> Nat]
  BY DEF Hashes, HashWords
<1>2. 5 \in Nat
  OBVIOUS
<1>. QED
  BY <1>1, <1>2, IsSeq

JoinedOf(content, hash, proto, rest) ==
    /\ content \in Seq(Nat)
    /\ Len(content) = 6 + Len(rest)
    /\ \A k \in 1 .. 5 : content[k] = hash[k]
    /\ content[6] = proto
    /\ \A k \in 1 .. Len(rest) : content[6 + k] = rest[k]

LEMMA ContentPlaces ==
    ASSUME NEW hash \in Hashes, NEW proto \in Nat, NEW rest \in Seq(Nat)
    PROVE  JoinedOf(hash \o <<proto>> \o rest, hash, proto, rest)
<1>1. hash \in Seq(Nat) /\ Len(hash) = 5 /\ DOMAIN hash = 1 .. 5
  BY HashPlaces
<1> DEFINE front == hash \o <<proto>>
<1>2. <<proto>> \in Seq(Nat) /\ Len(<<proto>>) = 1 /\ <<proto>>[1] = proto
  OBVIOUS
<1>3. /\ front \in Seq(Nat) /\ Len(front) = Len(hash) + Len(<<proto>>)
      /\ \A k \in 1 .. Len(hash) + Len(<<proto>>) :
           front[k] = IF k =< Len(hash) THEN hash[k] ELSE <<proto>>[k - Len(hash)]
  BY <1>1, <1>2, ConcatProperties
<1>4. Len(front) = 6 /\ front[6] = proto /\ \A k \in 1 .. 5 : front[k] = hash[k]
  BY <1>1, <1>2, <1>3
<1>8. front \in Seq(Nat)
  BY <1>3
<1>. HIDE DEF front
<1> DEFINE all == front \o rest
<1>5. /\ all \in Seq(Nat) /\ Len(all) = Len(front) + Len(rest)
      /\ \A k \in 1 .. Len(front) + Len(rest) :
           all[k] = IF k =< Len(front) THEN front[k] ELSE rest[k - Len(front)]
  BY <1>8, ConcatProperties
<1>. HIDE DEF all
<1>7. Len(rest) \in Nat
  OBVIOUS
<1>6. /\ Len(all) = 6 + Len(rest)
      /\ \A k \in 1 .. 5 : all[k] = hash[k]
      /\ all[6] = proto
      /\ \A k \in 1 .. Len(rest) : all[6 + k] = rest[k]
  <2>1. \A k \in 1 .. 6 + Len(rest) : all[k] = IF k =< 6 THEN front[k] ELSE rest[k - 6]
    BY <1>4, <1>5
  <2>2. \A k \in 1 .. 6 : all[k] = front[k]
    BY <1>7, <2>1
  <2>3. ASSUME NEW k \in 1 .. Len(rest) PROVE all[6 + k] = rest[k]
    <3>1. 6 + k \in 1 .. 6 + Len(rest) /\ ~ (6 + k =< 6) /\ (6 + k) - 6 = k
      BY <1>7
    <3>. QED
      BY <2>1, <3>1
  <2>4. Len(all) = 6 + Len(rest)
    BY <1>4, <1>5
  <2>5. all[6] = proto
    BY <1>4, <2>2
  <2>6. ASSUME NEW k \in 1 .. 5 PROVE all[k] = hash[k]
    <3>1. k \in 1 .. 6
      OBVIOUS
    <3>. QED
      BY <1>4, <2>2, <3>1
  <2>. QED
    BY <2>3, <2>4, <2>5, <2>6
<1>. QED
  BY <1>5, <1>6 DEF all, front, JoinedOf

(* The addresses of a service are read as they were written.               *)
LEMMA VaddrsRead ==
    ASSUME NEW entries \in Seq(VAddrs)
    PROVE  /\ PackVaddrs(entries) \in Seq(Nat)
           /\ Len(PackVaddrs(entries)) = 3 * Len(entries)
           /\ \A k \in 1 .. Len(entries) :
                /\ PackVaddrs(entries)[3 * (k - 1) + 1] = entries[k].addr.port
                /\ PackVaddrs(entries)[3 * (k - 1) + 2] = entries[k].addr.ip
                /\ PackVaddrs(entries)[3 * (k - 1) + 3] = entries[k].type
<1> DEFINE L == Len(entries)
           seqs == [k \in DOMAIN entries |-> PackVaddr(entries[k])]
           p == PackVaddrs(entries)
<1>1. L \in Nat /\ DOMAIN entries = 1 .. L
  OBVIOUS
<1>2. \A k \in 1 .. L : entries[k].addr.port \in Nat /\ entries[k].addr.ip \in Nat /\ entries[k].type \in Nat
  <2>1. \A e \in VAddrs : e.addr.port \in Nat /\ e.addr.ip \in Nat /\ e.type \in Nat
    BY DEF VAddrs, SockAddrs
  <2>2. \A k \in 1 .. L : entries[k] \in VAddrs
    OBVIOUS
  <2>. QED
    BY <2>1, <2>2
<1>3. \A k \in 1 .. L : seqs[k] \in [1 .. 3 -> Nat]
  BY <1>1, <1>2 DEF PackVaddr
<1>4. seqs \in [1 .. L -> [1 .. 3 -> Nat]] /\ Len(seqs) = L
  BY <1>1, <1>3
<1>5. \A k \in 1 .. L : seqs[k][1] = entries[k].addr.port /\ seqs[k][2] = entries[k].addr.ip /\ seqs[k][3] = entries[k].type
  BY <1>1 DEF PackVaddr
<1>6. p = Flat(seqs, 3)
  BY DEF PackVaddrs
<1>. HIDE DEF seqs, p, L
<1>7. p \in Seq(Nat) /\ Len(p) = 3 * L
  <2>1. \A k \in 1 .. 3 * L : ((k - 1) \div 3) + 1 \in 1 .. L /\ ((k - 1) % 3) + 1 \in 1 .. 3
    BY <1>1
  <2>2. \A k \in 1 .. 3 * L : seqs[((k - 1) \div 3) + 1][((k - 1) % 3) + 1] \in Nat
    BY <1>4, <2>1
  <2>3. 3 * L \in Nat
    BY <1>1
  <2>. QED
    BY <1>1, <1>4, <1>6, <2>2, <2>3 DEF Flat
<1>8. \A k \in 1 .. L, j \in 1 .. 3 : p[3 * (k - 1) + j] = seqs[k][j]
  <2>2. ASSUME NEW k \in 1 .. L, NEW j \in 1 .. 3
        PROVE  Flat(seqs, 3)[3 * (k - 1) + j] = seqs[k][j]
    BY <1>1, <1>4, FlatTriples
  <2>. QED
    BY <1>6, <2>2
<1>. QED
  BY <1>5, <1>7, <1>8 DEF p, L

LEMMA AddrsRead ==
    ASSUME NEW addrs \in Seq(SockAddrs)
    PROVE  LET p == Flat([k \in DOMAIN addrs |-> PackAddr(addrs[k])], 2) IN
           /\ p \in Seq(Nat)
           /\ Len(p) = 2 * Len(addrs)
           /\ \A k \in 1 .. Len(addrs) :
                /\ p[2 * (k - 1) + 1] = addrs[k].port
                /\ p[2 * (k - 1) + 2] = addrs[k].ip
<1> DEFINE L == Len(addrs)
           seqs == [k \in DOMAIN addrs |-> PackAddr(addrs[k])]
           q == Flat(seqs, 2)
<1>1. L \in Nat /\ DOMAIN addrs = 1 .. L
  OBVIOUS
<1>2. \A k \in 1 .. L : addrs[k].port \in Nat /\ addrs[k].ip \in Nat
  <2>1. \A a \in SockAddrs : a.port \in Nat /\ a.ip \in Nat
    BY DEF SockAddrs
  <2>2. \A k \in 1 .. L : addrs[k] \in SockAddrs
    OBVIOUS
  <2>. QED
    BY <2>1, <2>2
<1>3. \A k \in 1 .. L : seqs[k] \in [1 .. 2 -> Nat]
  BY <1>1, <1>2 DEF PackAddr
<1>4. seqs \in [1 .. L -> [1 .. 2 -> Nat]] /\ Len(seqs) = L
  BY <1>1, <1>3
<1>5. \A k \in 1 .. L : seqs[k][1] = addrs[k].port /\ seqs[k][2] = addrs[k].ip
  BY <1>1 DEF PackAddr
<1>6. q = Flat(seqs, 2)
  OBVIOUS
<1>. HIDE DEF seqs, q, L
<1>7. q \in Seq(Nat) /\ Len(q) = 2 * L
  <2>1. \A k \in 1 .. 2 * L : ((k - 1) \div 2) + 1 \in 1 .. L /\ ((k - 1) % 2) + 1 \in 1 .. 2
    BY <1>1
  <2>2. \A k \in 1 .. 2 * L : seqs[((k - 1) \div 2) + 1][((k - 1) % 2) + 1] \in Nat
    BY <1>4, <2>1
  <2>3. 2 * L \in Nat
    BY <1>1
  <2>. QED
    BY <1>1, <1>4, <1>6, <2>2, <2>3 DEF Flat
<1>8. \A k \in 1 .. L, j \in 1 .. 2 : q[2 * (k - 1) + j] = seqs[k][j]
  <2>2. ASSUME NEW k \in 1 .. L, NEW j \in 1 .. 2
        PROVE  Flat(seqs, 2)[2 * (k - 1) + j] = seqs[k][j]
    BY <1>1, <1>4, FlatPairs
  <2>. QED
    BY <1>6, <2>2
<1>9. /\ q \in Seq(Nat) /\ Len(q) = 2 * L
      /\ \A k \in 1 .. L : q[2 * (k - 1) + 1] = addrs[k].port /\ q[2 * (k - 1) + 2] = addrs[k].ip
  BY <1>5, <1>7, <1>8
<1>. QED
  BY <1>9 DEF q, seqs, L

(* A hash at the beginning of the content is read as it was written.       *)
LEMMA HashRead ==
    ASSUME NEW hash \in Hashes, NEW w, \A k \in 1 .. 5 : At(w, k + 3) = hash[k]
    PROVE  UnpackHash(w, 4) = hash
<1>1. hash = [k \in 1 .. 5 |-> hash[k]]
  BY DEF Hashes, HashWords
<1>2. \A k \in 1 .. 5 : 4 + k - 1 = k + 3
  OBVIOUS
<1>3. \A k \in 1 .. 5 : At(w, 4 + k - 1) = hash[k]
  BY <1>2
<1>4. UnpackHash(w, 4) = [k \in 1 .. 5 |-> At(w, 4 + k - 1)]
  BY DEF UnpackHash, HashWords
<1>. QED
  BY <1>1, <1>3, <1>4

(* What stands in a post and in an answer: hash, protocol and addresses    *)
SrvcContent(hash, proto, entries) == hash \o <<proto>> \o PackVaddrs(entries)

(* A message with that content                                             *)
Carries(w, content) == \A k \in 1 .. Len(content) : At(w, k + 3) = content[k]

LEMMA ServiceRead ==
    ASSUME NEW hash \in Hashes, NEW proto \in Nat, NEW entries \in Seq(VAddrs), NEW w,
           Carries(w, SrvcContent(hash, proto, entries))
    PROVE  /\ SrvcContent(hash, proto, entries) \in Seq(Nat)
           /\ Len(SrvcContent(hash, proto, entries)) = 6 + 3 * Len(entries)
           /\ UnpackHash(w, 4) = hash
           /\ At(w, 9) = proto
           /\ UnpackVaddrs(w, 10, Len(SrvcContent(hash, proto, entries)) - 6) = entries
<1> DEFINE content == SrvcContent(hash, proto, entries)
<1>10. \A k \in 1 .. Len(content) : At(w, k + 3) = content[k]
  BY DEF Carries
<1> DEFINE L == Len(entries)
           p == PackVaddrs(entries)
<1>1. L \in Nat /\ p \in Seq(Nat) /\ Len(p) = 3 * L /\ entries = [k \in 1 .. L |-> entries[k]]
  BY VaddrsRead
<1>2. \A k \in 1 .. L : /\ p[3 * (k - 1) + 1] = entries[k].addr.port
                        /\ p[3 * (k - 1) + 2] = entries[k].addr.ip
                        /\ p[3 * (k - 1) + 3] = entries[k].type
  BY VaddrsRead
<1>0. content = hash \o <<proto>> \o p
  BY DEF SrvcContent
<1>. HIDE DEF p, L, content
<1>9. L \in Nat
  BY <1>1
<1>3. /\ content \in Seq(Nat) /\ Len(content) = 6 + 3 * L
      /\ \A k \in 1 .. 5 : content[k] = hash[k]
      /\ content[6] = proto
      /\ \A k \in 1 .. 3 * L : content[6 + k] = p[k]
  <2>1. p \in Seq(Nat)
    BY <1>1
  <2>2. /\ content \in Seq(Nat) /\ Len(content) = 6 + Len(p)
        /\ \A k \in 1 .. 5 : content[k] = hash[k]
        /\ content[6] = proto
        /\ \A k \in 1 .. Len(p) : content[6 + k] = p[k]
    <3>1. JoinedOf(hash \o <<proto>> \o p, hash, proto, p)
      BY <2>1, ContentPlaces, Zenon
    <3>2. JoinedOf(content, hash, proto, p)
      BY <1>0, <3>1, Zenon
    <3>. QED
      BY <3>2 DEF JoinedOf
  <2>3. Len(p) = 3 * L
    BY <1>1
  <2>. QED
    BY <2>2, <2>3
<1>4. \A k \in 1 .. 6 + 3 * L : At(w, k + 3) = content[k]
  BY <1>3, <1>10
<1>5. UnpackHash(w, 4) = hash
  <2>1. \A k \in 1 .. 5 : k \in 1 .. 6 + 3 * L
    BY <1>1
  <2>2. \A k \in 1 .. 5 : At(w, k + 3) = hash[k]
    BY <1>3, <1>4, <2>1
  <2>. QED
    BY <2>2, HashRead
<1>6. At(w, 9) = proto
  <2>1. 6 \in 1 .. 6 + 3 * L /\ 6 + 3 = 9
    BY <1>1
  <2>. QED
    BY <1>3, <1>4, <2>1
<1>7. ASSUME NEW k \in 1 .. L
      PROVE  UnpackVaddr(w, 10 + 3 * (k - 1)) = entries[k]
  <2>1. ASSUME NEW j \in 1 .. 3
        PROVE  At(w, 10 + 3 * (k - 1) + (j - 1)) = p[3 * (k - 1) + j]
    <3> DEFINE m == 3 * (k - 1) + j
    <3>1. m \in 1 .. 3 * L /\ 6 + m \in 1 .. 6 + 3 * L /\ 10 + 3 * (k - 1) + (j - 1) = (6 + m) + 3
      BY <1>9
    <3>. HIDE DEF m
    <3>2. At(w, (6 + m) + 3) = content[6 + m] /\ content[6 + m] = p[m]
      BY <1>3, <1>4, <3>1
    <3>. QED
      BY <3>1, <3>2 DEF m
  <2>2. /\ 10 + 3 * (k - 1) + (1 - 1) = 10 + 3 * (k - 1)
        /\ 10 + 3 * (k - 1) + (2 - 1) = 10 + 3 * (k - 1) + 1
        /\ 10 + 3 * (k - 1) + (3 - 1) = 10 + 3 * (k - 1) + 2
    BY <1>1
  <2>3. /\ At(w, 10 + 3 * (k - 1)) = entries[k].addr.port
        /\ At(w, 10 + 3 * (k - 1) + 1) = entries[k].addr.ip
        /\ At(w, 10 + 3 * (k - 1) + 2) = entries[k].type
    <3>1. 1 \in 1 .. 3 /\ 2 \in 1 .. 3 /\ 3 \in 1 .. 3
      OBVIOUS
    <3>. QED
      BY <1>2, <2>1, <2>2, <3>1
  <2>4. entries[k] \in VAddrs
    BY DEF L
  <2>. QED
    BY <2>3, <2>4 DEF UnpackVaddr, UnpackAddr, VAddrs, SockAddrs
<1>8. UnpackVaddrs(w, 10, Len(content) - 6) = entries
  <2>0. Len(content) - 6 = 3 * L
    BY <1>3, <1>9
  <2>1. (3 * L + 2) \div 3 = L
    BY <1>9
  <2>2. UnpackVaddrs(w, 10, Len(content) - 6) = [k \in 1 .. L |-> UnpackVaddr(w, 10 + 3 * (k - 1))]
    BY <2>0, <2>1 DEF UnpackVaddrs
  <2>. QED
    BY <1>1, <1>7, <2>2
<1>. QED
  BY <1>3, <1>5, <1>6, <1>8 DEF content, L

(* The kinds of requests                                                   *)
HostRequests   == [cmd : {"host_up", "host_down", "host_exit", "host_dump", "cfg_dump"}]
JoinRequests   == [cmd : {"join_node"}, addr : SockAddrs]
QueryRequests  == [cmd : {"bogus_query"}, query : Nat, addr : SockAddrs]
PostRequests   == [cmd : {"post_service"}, hash : Hashes, proto : Nat, entries : Seq(VAddrs)]
UnpostRequests == [cmd : {"unpost_service"}, hash : Hashes, addrs : Seq(SockAddrs)]
AskRequests    == [cmd : {"find_service", "probe_service"}, hash : Hashes]

LEMMA KindsOfRequests ==
    ASSUME NEW r \in Requests
    PROVE  /\ r.cmd \in DOMAIN CmdId
           /\ r \in HostRequests \/ r \in JoinRequests \/ r \in QueryRequests
              \/ r \in PostRequests \/ r \in UnpostRequests \/ r \in AskRequests
<1>1. r \in HostRequests \/ r \in JoinRequests \/ r \in QueryRequests
      \/ r \in PostRequests \/ r \in UnpostRequests \/ r \in AskRequests
  BY Zenon DEF Requests, HostRequests, JoinRequests, QueryRequests, PostRequests, UnpostRequests, AskRequests
<1>2. r.cmd \in {"host_up", "host_down", "host_exit", "host_dump", "cfg_dump", "bogus_query", "join_node",
                "post_service", "unpost_service", "find_service", "probe_service"}
  BY <1>1 DEF HostRequests, JoinRequests, QueryRequests, PostRequests, UnpostRequests, AskRequests
<1>3. DOMAIN CmdId = {"host_up", "host_down", "host_exit", "host_dump", "cfg_dump", "bogus_query", "join_node",
                      "post_service", "unpost_service", "find_service", "probe_service"}
  BY DEF CmdId
<1>. QED
  BY <1>1, <1>2, <1>3

(* The content of each kind                                                *)
LEMMA ContentOf ==
    ASSUME NEW r
    PROVE  /\ r \in HostRequests => PackContent(r) = <<>>
           /\ r \in JoinRequests => PackContent(r) = <<r.addr.port, r.addr.ip>>
           /\ r \in QueryRequests => PackContent(r) = <<r.query>> \o <<r.addr.port, r.addr.ip>>
           /\ r \in PostRequests => PackContent(r) = r.hash \o <<r.proto>> \o PackVaddrs(r.entries)
           /\ r \in UnpostRequests =>
                PackContent(r) = r.hash \o Flat([k \in DOMAIN r.addrs |-> PackAddr(r.addrs[k])], 2)
           /\ r \in AskRequests => PackContent(r) = r.hash
<1>1. r \in HostRequests => PackContent(r) = <<>>
  BY DEF HostRequests, PackContent, PackHostCmd
<1>2. r \in JoinRequests => PackContent(r) = <<r.addr.port, r.addr.ip>>
  BY DEF JoinRequests, PackContent, PackJoinNode, PackAddr
<1>3. r \in QueryRequests => PackContent(r) = <<r.query>> \o <<r.addr.port, r.addr.ip>>
  BY DEF QueryRequests, PackContent, PackBogusQuery, PackAddr
<1>4. r \in PostRequests => PackContent(r) = r.hash \o <<r.proto>> \o PackVaddrs(r.entries)
  BY DEF PostRequests, PackContent, PackPostService
<1>5. r \in UnpostRequests =>
        PackContent(r) = r.hash \o Flat([k \in DOMAIN r.addrs |-> PackAddr(r.addrs[k])], 2)
  BY DEF UnpostRequests, PackContent, PackUnpostService
<1>6. r \in AskRequests => PackContent(r) = r.hash
  BY DEF AskRequests, PackContent, PackFindService, PackProbeService
<1>. QED
  BY <1>1, <1>2, <1>3, <1>4, <1>5, <1>6

(* What the daemon reads, once the header is read                          *)
LEMMA CmdRead ==
    ASSUME NEW cmd \in DOMAIN CmdId, NEW w, NEW n, At(w, 2) = Magic,
           FirstHalf(At(w, 3)) = CmdId[cmd], WordsLeft(At(w, 3)) = n
    PROVE  UnpackCmd(w) =
             CASE cmd = "post_service" ->
                    [cmd |-> cmd, hash |-> UnpackHash(w, 4), proto |-> At(w, 9),
                     entries |-> UnpackVaddrs(w, 10, n - 6)]
               [] cmd = "unpost_service" ->
                    [cmd |-> cmd, hash |-> UnpackHash(w, 4), addrs |-> UnpackAddrs(w, 9, n - 5)]
               [] cmd \in {"find_service", "probe_service"} ->
                    [cmd |-> cmd, hash |-> UnpackHash(w, 4)]
               [] cmd = "join_node" -> [cmd |-> cmd, addr |-> UnpackAddr(w, 4)]
               [] cmd = "bogus_query" -> [cmd |-> cmd, query |-> At(w, 4), addr |-> UnpackAddr(w, 5)]
               [] OTHER -> [cmd |-> cmd]
<1> DEFINE cid == FirstHalf(At(w, 3))
<1>1. (CHOOSE c \in DOMAIN CmdId : CmdId[c] = cid) = cmd
  BY CmdIds
<1>2. ~ (At(w, 2) # Magic \/ ~ \E c \in DOMAIN CmdId : CmdId[c] = cid)
  OBVIOUS
<1>. QED
  BY <1>1, <1>2 DEF UnpackCmd

(* The content of every request is a sequence of numbers.                  *)
LEMMA ContentIsSeq ==
    ASSUME NEW r \in Requests
    PROVE  PackContent(r) \in Seq(Nat)
<1>1. CASE r \in HostRequests
  <2>1. <<>> \in Seq(Nat)
    OBVIOUS
  <2>. QED
    BY <1>1, <2>1, ContentOf
<1>2. CASE r \in JoinRequests
  <2>1. r.addr.port \in Nat /\ r.addr.ip \in Nat
    BY <1>2 DEF JoinRequests, SockAddrs
  <2>2. <<r.addr.port, r.addr.ip>> \in Seq(Nat)
    BY <2>1
  <2>. QED
    BY <1>2, <2>2, ContentOf
<1>3. CASE r \in QueryRequests
  <2>1. r.addr.port \in Nat /\ r.addr.ip \in Nat /\ r.query \in Nat
    BY <1>3 DEF QueryRequests, SockAddrs
  <2>2. <<r.query>> \in Seq(Nat) /\ <<r.addr.port, r.addr.ip>> \in Seq(Nat)
    BY <2>1
  <2>3. <<r.query>> \o <<r.addr.port, r.addr.ip>> \in Seq(Nat)
    BY <2>2, ConcatProperties
  <2>. QED
    BY <1>3, <2>3, ContentOf
<1>4. CASE r \in PostRequests
  <2>1. r.hash \in Hashes /\ r.proto \in Nat /\ r.entries \in Seq(VAddrs)
    BY <1>4 DEF PostRequests
  <2>2. r.hash \o <<r.proto>> \o PackVaddrs(r.entries) \in Seq(Nat)
    BY <2>1, VaddrsRead, ContentPlaces DEF JoinedOf
  <2>. QED
    BY <1>4, <2>2, ContentOf
<1>5. CASE r \in UnpostRequests
  <2>1. r.hash \in Hashes /\ r.addrs \in Seq(SockAddrs)
    BY <1>5 DEF UnpostRequests
  <2>2. r.hash \in Seq(Nat) /\ Flat([k \in DOMAIN r.addrs |-> PackAddr(r.addrs[k])], 2) \in Seq(Nat)
    BY <2>1, HashPlaces, AddrsRead
  <2>. QED
    BY <1>5, <2>2, ContentOf, ConcatProperties
<1>6. CASE r \in AskRequests
  <2>1. r.hash \in Hashes
    BY <1>6 DEF AskRequests
  <2>. QED
    BY <1>6, <2>1, ContentOf, HashPlaces
<1>. QED
  BY <1>1, <1>2, <1>3, <1>4, <1>5, <1>6, KindsOfRequests

(* What the daemon unpacks (vlsctl.c) is what the library packed           *)
(* (vlsctlc.c), for every request whose content fits its length.           *)
THEOREM CommandsArrive ==
    \A r \in Requests : Fits(PackContent(r)) => UnpackCmd(PackCmd(r)) = r
<1>. SUFFICES ASSUME NEW r \in Requests, Fits(PackContent(r))
              PROVE  UnpackCmd(PackCmd(r)) = r
  OBVIOUS
<1> DEFINE w == PackCmd(r)
           content == PackContent(r)
           n == Len(content)
           type == IF Asks(r) THEN Type.req ELSE Type.cmd
<1>1. content \in Seq(Nat) /\ Fits(content) /\ n \in Nat
  BY ContentIsSeq
<1>2. type \in Nat /\ w = Message(type, r.cmd, content)
  BY DEF Type, PackCmd
<1>3. r.cmd \in DOMAIN CmdId
  BY KindsOfRequests
<1>. HIDE DEF w, content, n, type
<1>4. /\ At(w, 2) = Magic
      /\ FirstHalf(At(w, 3)) = CmdId[r.cmd]
      /\ WordsLeft(At(w, 3)) = n
      /\ \A k \in 1 .. n : At(w, k + 3) = content[k]
  <2>1. ReadsAs(Message(type, r.cmd, content), type, r.cmd, content)
    BY <1>1, <1>2, <1>3, HeaderRead
  <2>2. ReadsAs(w, type, r.cmd, content)
    BY <1>2, <2>1, Zenon
  <2>. QED
    BY <2>2 DEF n, ReadsAs
<1>5. UnpackCmd(w) =
        CASE r.cmd = "post_service" ->
               [cmd |-> r.cmd, hash |-> UnpackHash(w, 4), proto |-> At(w, 9),
                entries |-> UnpackVaddrs(w, 10, n - 6)]
          [] r.cmd = "unpost_service" ->
               [cmd |-> r.cmd, hash |-> UnpackHash(w, 4), addrs |-> UnpackAddrs(w, 9, n - 5)]
          [] r.cmd \in {"find_service", "probe_service"} ->
               [cmd |-> r.cmd, hash |-> UnpackHash(w, 4)]
          [] r.cmd = "join_node" -> [cmd |-> r.cmd, addr |-> UnpackAddr(w, 4)]
          [] r.cmd = "bogus_query" -> [cmd |-> r.cmd, query |-> At(w, 4), addr |-> UnpackAddr(w, 5)]
          [] OTHER -> [cmd |-> r.cmd]
  BY <1>3, <1>4, CmdRead
<1>6. CASE r \in HostRequests
  <2>1. r = [cmd |-> r.cmd] /\ r.cmd \in {"host_up", "host_down", "host_exit", "host_dump", "cfg_dump"}
    BY <1>6 DEF HostRequests
  <2>2. UnpackCmd(w) = [cmd |-> r.cmd]
    BY <1>5, <2>1
  <2>. QED
    BY <2>1, <2>2 DEF w
<1>7. CASE r \in JoinRequests
  <2>1. content = <<r.addr.port, r.addr.ip>>
    BY <1>7, ContentOf DEF content
  <2>0. n = 2 /\ content[1] = r.addr.port /\ content[2] = r.addr.ip
    BY <2>1 DEF n
  <2>2. At(w, 4) = r.addr.port /\ At(w, 4 + 1) = r.addr.ip
    BY <1>4, <2>0
  <2>3. UnpackCmd(w) = [cmd |-> r.cmd, addr |-> UnpackAddr(w, 4)]
    BY <1>5, <1>7 DEF JoinRequests
  <2>4. r = [cmd |-> r.cmd, addr |-> r.addr] /\ r.addr = [port |-> r.addr.port, ip |-> r.addr.ip]
    BY <1>7 DEF JoinRequests, SockAddrs
  <2>5. UnpackAddr(w, 4) = r.addr
    BY <2>2, <2>4 DEF UnpackAddr
  <2>. QED
    BY <2>3, <2>4, <2>5 DEF w
<1>8. CASE r \in QueryRequests
  <2>1. content = <<r.query>> \o <<r.addr.port, r.addr.ip>>
    BY <1>8, ContentOf DEF content
  <2>2. n = 3 /\ content[1] = r.query /\ content[2] = r.addr.port /\ content[3] = r.addr.ip
    BY <2>1 DEF n
  <2>3. At(w, 4) = r.query /\ At(w, 5) = r.addr.port /\ At(w, 5 + 1) = r.addr.ip
    BY <1>4, <2>2
  <2>4. UnpackCmd(w) = [cmd |-> r.cmd, query |-> At(w, 4), addr |-> UnpackAddr(w, 5)]
    BY <1>5, <1>8 DEF QueryRequests
  <2>5. /\ r = [cmd |-> r.cmd, query |-> r.query, addr |-> r.addr]
        /\ r.addr = [port |-> r.addr.port, ip |-> r.addr.ip]
    BY <1>8 DEF QueryRequests, SockAddrs
  <2>6. UnpackAddr(w, 5) = r.addr
    BY <2>3, <2>5 DEF UnpackAddr
  <2>. QED
    BY <2>3, <2>4, <2>5, <2>6 DEF w
<1>9. CASE r \in PostRequests
  <2>1. r.hash \in Hashes /\ r.proto \in Nat /\ r.entries \in Seq(VAddrs)
    BY <1>9 DEF PostRequests
  <2>2. content = r.hash \o <<r.proto>> \o PackVaddrs(r.entries)
    BY <1>9, ContentOf DEF content
  <2>3. UnpackHash(w, 4) = r.hash /\ At(w, 9) = r.proto /\ UnpackVaddrs(w, 10, n - 6) = r.entries
    <3>0. content = SrvcContent(r.hash, r.proto, r.entries)
      BY <2>2 DEF SrvcContent
    <3>1. Carries(w, SrvcContent(r.hash, r.proto, r.entries))
      BY <1>4, <3>0, Zenon DEF n, Carries
    <3>2. /\ UnpackHash(w, 4) = r.hash /\ At(w, 9) = r.proto
          /\ UnpackVaddrs(w, 10, Len(content) - 6) = r.entries
      BY <2>1, <3>0, <3>1, ServiceRead
    <3>. QED
      BY <3>2 DEF n
  <2>4. UnpackCmd(w) = [cmd |-> r.cmd, hash |-> UnpackHash(w, 4), proto |-> At(w, 9),
                        entries |-> UnpackVaddrs(w, 10, n - 6)]
    BY <1>5, <1>9 DEF PostRequests
  <2>5. r = [cmd |-> r.cmd, hash |-> r.hash, proto |-> r.proto, entries |-> r.entries]
    BY <1>9 DEF PostRequests
  <2>. QED
    BY <2>3, <2>4, <2>5 DEF w
<1>10. CASE r \in UnpostRequests
  <2>1. r.hash \in Hashes /\ r.addrs \in Seq(SockAddrs)
    BY <1>10 DEF UnpostRequests
  <2> DEFINE p == Flat([k \in DOMAIN r.addrs |-> PackAddr(r.addrs[k])], 2)
             L == Len(r.addrs)
  <2>2. content = r.hash \o p
    BY <1>10, ContentOf DEF content
  <2>3. /\ p \in Seq(Nat) /\ Len(p) = 2 * L
        /\ \A k \in 1 .. L : p[2 * (k - 1) + 1] = r.addrs[k].port /\ p[2 * (k - 1) + 2] = r.addrs[k].ip
    BY <2>1, AddrsRead
  <2>4. L \in Nat /\ r.addrs = [k \in 1 .. L |-> r.addrs[k]] /\ \A k \in 1 .. L : r.addrs[k] \in SockAddrs
    BY <2>1
  <2>. HIDE DEF p, L
  <2>5. L \in Nat
    BY <2>4
  <2>6. r.hash \in Seq(Nat) /\ Len(r.hash) = 5
    BY <2>1, HashPlaces
  <2>7. /\ n = 5 + 2 * L
        /\ \A k \in 1 .. 5 + 2 * L : content[k] = IF k =< 5 THEN r.hash[k] ELSE p[k - 5]
    <3>1. /\ Len(r.hash \o p) = 5 + 2 * L
          /\ \A k \in 1 .. 5 + 2 * L : (r.hash \o p)[k] = IF k =< 5 THEN r.hash[k] ELSE p[k - 5]
      <4>1. /\ Len(r.hash \o p) = Len(r.hash) + Len(p)
            /\ \A k \in 1 .. Len(r.hash) + Len(p) :
                 (r.hash \o p)[k] = IF k =< Len(r.hash) THEN r.hash[k] ELSE p[k - Len(r.hash)]
        BY <2>3, <2>6, ConcatProperties
      <4>. QED
        BY <2>3, <2>6, <4>1, Zenon
    <3>. QED
      BY <2>2, <3>1, Zenon DEF n
  <2>8. UnpackHash(w, 4) = r.hash
    <3>1. \A k \in 1 .. 5 : k \in 1 .. 5 + 2 * L /\ k =< 5
      BY <2>5
    <3>2. \A k \in 1 .. 5 : At(w, k + 3) = r.hash[k]
      BY <1>4, <2>7, <3>1
    <3>. QED
      BY <2>1, <3>2, HashRead
  <2>9. ASSUME NEW k \in 1 .. L PROVE UnpackAddr(w, 9 + 2 * (k - 1)) = r.addrs[k]
    <3>1. ASSUME NEW j \in 1 .. 2
          PROVE  At(w, 9 + 2 * (k - 1) + (j - 1)) = p[2 * (k - 1) + j]
      <4> DEFINE m == 2 * (k - 1) + j
      <4>1. /\ 5 + m \in 1 .. 5 + 2 * L /\ ~ (5 + m =< 5) /\ (5 + m) - 5 = m
            /\ 9 + 2 * (k - 1) + (j - 1) = (5 + m) + 3
        BY <2>5
      <4>. HIDE DEF m
      <4>2. At(w, (5 + m) + 3) = content[5 + m] /\ content[5 + m] = p[m]
        BY <1>4, <2>7, <4>1
      <4>. QED
        BY <4>1, <4>2 DEF m
    <3>2. /\ 9 + 2 * (k - 1) + (1 - 1) = 9 + 2 * (k - 1) /\ 9 + 2 * (k - 1) + (2 - 1) = 9 + 2 * (k - 1) + 1
          /\ 1 \in 1 .. 2 /\ 2 \in 1 .. 2
      BY <2>5
    <3>3. At(w, 9 + 2 * (k - 1)) = r.addrs[k].port /\ At(w, 9 + 2 * (k - 1) + 1) = r.addrs[k].ip
      BY <2>3, <3>1, <3>2
    <3>4. r.addrs[k] = [port |-> r.addrs[k].port, ip |-> r.addrs[k].ip]
      BY <2>4 DEF SockAddrs
    <3>. QED
      BY <3>3, <3>4 DEF UnpackAddr
  <2>10. UnpackAddrs(w, 9, n - 5) = r.addrs
    <3>1. n - 5 = 2 * L
      BY <2>5, <2>7
    <3>2. (2 * L + 1) \div 2 = L
      BY <2>5
    <3>3. UnpackAddrs(w, 9, n - 5) = [k \in 1 .. L |-> UnpackAddr(w, 9 + 2 * (k - 1))]
      BY <3>1, <3>2 DEF UnpackAddrs
    <3>. QED
      BY <2>4, <2>9, <3>3
  <2>11. UnpackCmd(w) = [cmd |-> r.cmd, hash |-> UnpackHash(w, 4), addrs |-> UnpackAddrs(w, 9, n - 5)]
    BY <1>5, <1>10 DEF UnpostRequests
  <2>12. r = [cmd |-> r.cmd, hash |-> r.hash, addrs |-> r.addrs]
    BY <1>10 DEF UnpostRequests
  <2>. QED
    BY <2>8, <2>10, <2>11, <2>12 DEF w
<1>11. CASE r \in AskRequests
  <2>1. r.hash \in Hashes /\ r = [cmd |-> r.cmd, hash |-> r.hash]
    BY <1>11 DEF AskRequests
  <2>2. content = r.hash /\ n = 5
    BY <1>11, <2>1, ContentOf, HashPlaces DEF content, n
  <2>3. UnpackHash(w, 4) = r.hash
    BY <1>4, <2>1, <2>2, HashRead
  <2>4. UnpackCmd(w) = [cmd |-> r.cmd, hash |-> UnpackHash(w, 4)]
    BY <1>5, <1>11 DEF AskRequests
  <2>. QED
    BY <2>1, <2>3, <2>4 DEF w
<1>. QED
  BY <1>6, <1>7, <1>8, <1>9, <1>10, <1>11, KindsOfRequests DEF w

(* A finite set is written down as a sequence of just its elements.        *)
LEMMA SeqOfSet ==
    ASSUME NEW S, IsFiniteSet(S)
    PROVE  /\ SetToSeq(S) \in Seq(S)
           /\ Len(SetToSeq(S)) = Cardinality(S)
           /\ ToSet(SetToSeq(S)) = S
<1> DEFINE n == Cardinality(S)
           f == SetToSeq(S)
<1>1. n \in Nat /\ ExistsBijection(1 .. n, S)
  BY FS_CardinalityType
<1>2. PICK b \in [1 .. n -> S] : \A x, y \in 1 .. n : b[x] = b[y] => x = y
  BY <1>1 DEF ExistsBijection, Bijection, Injection, IsInjective
<1>3. f \in [1 .. n -> S] /\ IsInjective(f)
  <2> DEFINE F(x) == x \in [1 .. n -> S] /\ IsInjective(x)
  <2>1. \E x : F(x)
    BY <1>2 DEF IsInjective
  <2>2. f = CHOOSE x : F(x)
    BY DEF SetToSeq
  <2>. HIDE DEF F, f
  <2>3. F(f)
    BY <2>1, <2>2, Zenon
  <2>. QED
    BY <2>3 DEF F
<1>. HIDE DEF f, n
<1>4. f \in Injection(1 .. n, S)
  BY <1>3 DEF Injection, IsInjective
<1>5. Cardinality(1 .. n) = n
  BY <1>1, FS_Interval
<1>6. f \in Surjection(1 .. n, S)
  BY <1>4, <1>5, FS_Injection DEF n
<1>7. ToSet(f) = S
  <2>1. \A x \in S : \E k \in 1 .. n : f[k] = x
    BY <1>6 DEF Surjection
  <2>. QED
    BY <1>3, <2>1 DEF ToSet
<1>8. f \in Seq(S) /\ Len(f) = n
  BY <1>1, <1>3, IsSeq
<1>. QED
  BY <1>7, <1>8 DEF f, n

(* The addresses of an answer fill its content.                            *)
LEMMA AnswerContent ==
    ASSUME NEW s \in Services
    PROVE  /\ s.hash \in Hashes /\ s.proto \in Nat
           /\ SetToSeq(s.addrs) \in Seq(VAddrs)
           /\ ToSet(SetToSeq(s.addrs)) = s.addrs
           /\ Fits(SrvcContent(s.hash, s.proto, SetToSeq(s.addrs)))
           /\ SrvcContent(s.hash, s.proto, SetToSeq(s.addrs)) \in Seq(Nat)
<1> DEFINE A == s.addrs
           e == SetToSeq(A)
           c == SrvcContent(s.hash, s.proto, e)
<1>1. s.hash \in Hashes /\ s.proto \in Nat /\ A \in SrvcAddrs
  BY DEF Services
<1>2. IsFiniteSet(A) /\ Cardinality(A) =< MaxSrvcAddrs /\ A \subseteq VAddrs
  BY <1>1 DEF SrvcAddrs
<1>3. e \in Seq(A) /\ Len(e) = Cardinality(A) /\ ToSet(e) = A
  BY <1>2, SeqOfSet
<1>4. e \in Seq(VAddrs)
  BY <1>2, <1>3, SeqMonotonic
<1>. HIDE DEF e
<1>5. PackVaddrs(e) \in Seq(Nat) /\ Len(PackVaddrs(e)) = 3 * Len(e)
  BY <1>4, VaddrsRead
<1>6. c \in Seq(Nat) /\ Len(c) = 6 + Len(PackVaddrs(e))
  BY <1>1, <1>5, ContentPlaces DEF SrvcContent, JoinedOf
<1>7. Fits(c)
  <2> DEFINE n == Cardinality(A)
  <2>1. n \in Nat /\ n =< MaxSrvcAddrs /\ Len(c) = 6 + 3 * n
    BY <1>2, <1>3, <1>5, <1>6, FS_CardinalityType
  <2>2. MaxSrvcAddrs \in Nat /\ 4 * (7 + 3 * MaxSrvcAddrs) < 65536
    BY ControlAssumption, SrvcInfoAssumption DEF HashWords
  <2>. HIDE DEF n, c
  <2>. QED
    BY <2>1, <2>2 DEF Fits
<1>. QED
  BY <1>1, <1>3, <1>4, <1>6, <1>7 DEF e

(* What the library unpacks (vlsctlc.c) is the service that the daemon     *)
(* answered with (vlsctl.c), with as many addresses as a service may have. *)
THEOREM AnswersArrive ==
    \A cmd \in {"find_service", "probe_service"}, s \in Services :
      LET rsp == UnpackRsp(Answer(cmd, s))
      IN  /\ rsp.ok /\ rsp.cid = CmdId[cmd]
          /\ rsp.hash = s.hash /\ rsp.proto = s.proto /\ ToSet(rsp.entries) = s.addrs
<1>. SUFFICES ASSUME NEW cmd \in {"find_service", "probe_service"}, NEW s \in Services
              PROVE  LET rsp == UnpackRsp(Answer(cmd, s))
                     IN  /\ rsp.ok /\ rsp.cid = CmdId[cmd]
                         /\ rsp.hash = s.hash /\ rsp.proto = s.proto /\ ToSet(rsp.entries) = s.addrs
  OBVIOUS
<1> DEFINE e == SetToSeq(s.addrs)
           c == SrvcContent(s.hash, s.proto, e)
           w == Message(2, cmd, c)
<1>1. /\ s.hash \in Hashes /\ s.proto \in Nat /\ e \in Seq(VAddrs) /\ ToSet(e) = s.addrs
      /\ Fits(c) /\ c \in Seq(Nat)
  BY AnswerContent
<1>2. Answer(cmd, s) = w
  BY DEF Answer, PackRsp, SrvcContent, Type
<1>3. cmd \in DOMAIN CmdId
  BY DEF CmdId
<1>. HIDE DEF e
<1>4. /\ At(w, 2) = Magic
      /\ FirstHalf(At(w, 1)) = 2
      /\ FirstHalf(At(w, 3)) = CmdId[cmd]
      /\ WordsLeft(At(w, 3)) = Len(c)
      /\ \A k \in 1 .. Len(c) : At(w, k + 3) = c[k]
  <2>1. 2 \in Nat
    OBVIOUS
  <2>. HIDE DEF c
  <2>. QED
    BY <1>1, <1>3, <2>1, HeaderRead DEF ReadsAs
<1>. HIDE DEF w
<1>5. Carries(w, c)
  BY <1>4 DEF Carries
<1>6. UnpackHash(w, 4) = s.hash /\ At(w, 9) = s.proto /\ UnpackVaddrs(w, 10, Len(c) - 6) = e
  BY <1>1, <1>5, ServiceRead
<1>. HIDE DEF c
<1>7. UnpackRsp(w) = [ok |-> TRUE, cid |-> CmdId[cmd], hash |-> s.hash, proto |-> s.proto, entries |-> e]
  <2>1. Type.rsp_err = 3
    BY DEF Type
  <2>2. (At(w, 2) = Magic /\ FirstHalf(At(w, 1)) # Type.rsp_err) = TRUE
    BY <1>4, <2>1
  <2>. QED
    BY <1>4, <1>6, <2>2, Zenon DEF UnpackRsp
<1>. QED
  BY <1>1, <1>2, <1>7

-----------------------------------------------------------------------------
(* The inductive invariant                                                 *)

(* The requests that a client comes to send                                *)
Sent == {r \in UNION {Calls[c] : c \in Clients} : ValidArgs(r)}

(* The services that a daemon may have: all have addresses.                *)
OwnSrvc == [host : {Nobody}, hash : Hashes, nice : {5}, proto : Nat, addrs : SrvcAddrs \ {{}}]

OneEach(S) == \A s, t \in S : s.hash = t.hash => s = t

OwnSets == {S \in SUBSET OwnSrvc : OneEach(S)}

(* A datagram is an answer about a service as it was known at some time.   *)
Truthful(d, known) ==
    LET rsp == UnpackRsp(d)
    IN  [hash |-> rsp.hash, proto |-> rsp.proto, addrs |-> ToSet(rsp.entries)]
          \in known \cup Remote \cup {Unknown(rsp.hash)}

Mail == [to : {ClientPath[c] : c \in Clients},
         data : {Answer(cmd, s) : cmd \in {"find_service", "probe_service"}, s \in Services}]

ClientsInv ==
    /\ DOMAIN pc = Clients /\ DOMAIN call = Clients /\ DOMAIN buf = Clients /\ DOMAIN got = Clients
    /\ \A c \in Clients : pc[c] # "idle" => call[c] \in Sent
    /\ \A c \in Clients : pc[c] = "waiting" => Asks(call[c])
    /\ \A c \in Clients : buf[c] # <<>> => Truthful(buf[c], versions)

DaemonInv ==
    /\ inq \in Seq({[from |-> ClientPath[c], data |-> PackCmd(r), req |-> r] : c \in Clients, r \in Sent})
    /\ outq \in Seq(Mail)
    /\ \A k \in DOMAIN outq : Truthful(outq[k].data, versions)
    /\ probes \in Seq([hash : Hashes, from : {ClientPath[c] : c \in Clients}])
    /\ own \in OwnSets
    /\ {Version(s) : s \in own} \subseteq versions
    /\ versions \subseteq Services

IInv == ClientsInv /\ DaemonInv /\ Served


-----------------------------------------------------------------------------
(* The services of the daemon                                              *)

(* vsrvcInfo_add_addr keeps a service full or has the entry afterwards.    *)
LEMMA AddSrvcAddrStep ==
    ASSUME NEW A \in SrvcAddrs, NEW e \in VAddrs
    PROVE  LET B == AddSrvcAddr(A, e) IN
           /\ B \in SrvcAddrs \ {{}}
           /\ B \subseteq A \cup {e}
           /\ \A x \in A : \E y \in B : y.addr = x.addr
           /\ \/ Cardinality(A) = MaxSrvcAddrs /\ B = A
              \/ e \in B /\ \A x \in A : x.addr # e.addr => x \in B
<1>1. /\ A \subseteq VAddrs /\ IsFiniteSet(A) /\ Cardinality(A) =< MaxSrvcAddrs
      /\ \A x, y \in A : x.addr = y.addr => x = y
  BY DEF SrvcAddrs
<1>2. Cardinality(A) \in Nat /\ MaxSrvcAddrs \in Nat \ {0}
  BY <1>1, FS_CardinalityType, SrvcInfoAssumption
<1>3. CASE Cardinality(A) >= MaxSrvcAddrs
  <2>1. A # {}
    BY <1>2, <1>3, FS_EmptySet
  <2>. QED
    BY <1>1, <1>2, <1>3, <2>1 DEF AddSrvcAddr
<1>4. CASE ~ (Cardinality(A) >= MaxSrvcAddrs)
  <2> DEFINE C == {x \in A : x.addr # e.addr}
  <2>1. C \subseteq A /\ IsFiniteSet(C) /\ Cardinality(C) =< Cardinality(A) /\ Cardinality(C) \in Nat
    BY <1>1, FS_Subset, FS_CardinalityType
  <2>2. AddSrvcAddr(A, e) = C \cup {e}
    BY <1>4 DEF AddSrvcAddr
  <2>3. IsFiniteSet(C \cup {e}) /\ Cardinality(C \cup {e}) =< Cardinality(C) + 1
    BY <2>1, FS_AddElement
  <2>4. \A x, y \in C \cup {e} : x.addr = y.addr => x = y
    BY <1>1
  <2>5. C \cup {e} \subseteq VAddrs
    BY <1>1
  <2>8. Cardinality(C \cup {e}) =< MaxSrvcAddrs
    <3>1. Cardinality(C \cup {e}) \in Nat
      BY <2>3, FS_CardinalityType
    <3>. QED
      BY <1>2, <1>4, <2>1, <2>3, <3>1
  <2>6. C \cup {e} \in SrvcAddrs \ {{}}
    BY <2>3, <2>4, <2>5, <2>8 DEF SrvcAddrs
  <2>7. \A x \in A : \E y \in C \cup {e} : y.addr = x.addr
    OBVIOUS
  <2>. QED
    BY <2>2, <2>6, <2>7
<1>. QED
  BY <1>3, <1>4

(* The services of other hashes are the same in S and T.                   *)
OthersSame(S, T, h) == \A s : s.hash # h => (s \in S <=> s \in T)

(* The addresses of the service of a hash, none if there is no service     *)
AddrsOf(S, h) == UNION {s.addrs : s \in Posted(S, h)}

(* A service and its addresses                                             *)
LEMMA TheAddrs ==
    ASSUME NEW S \in OwnSets, NEW s \in S
    PROVE  /\ Posted(S, s.hash) = {s}
           /\ AddrsOf(S, s.hash) = s.addrs
           /\ s.addrs \in SrvcAddrs \ {{}}
<1>1. \A t \in S : t.hash = s.hash => t = s
  BY DEF OwnSets, OneEach
<1>2. Posted(S, s.hash) = {s}
  BY <1>1 DEF Posted
<1>3. s \in OwnSrvc
  BY DEF OwnSets
<1>. QED
  BY <1>2, <1>3 DEF AddrsOf, OwnSrvc

(* S has become T by _vnode_srvc_post with one entry.                      *)
PostedOne(S, T, h, proto, e) ==
    /\ T \in OwnSets
    /\ OthersSame(S, T, h)
    /\ \/ \E s \in S : s.hash = h /\ s.proto # proto /\ T = S
       \/ /\ \A s \in Posted(S, h) : s.proto = proto
          /\ \E t \in T : /\ t.hash = h /\ t.proto = proto
                          /\ t.addrs = AddSrvcAddr(AddrsOf(S, h), e)

LEMMA PostStep ==
    ASSUME NEW S \in OwnSets, NEW h \in Hashes, NEW proto \in Nat, NEW e \in VAddrs
    PROVE  PostedOne(S, SrvcPost(S, Nobody, h, 5, proto, e), h, proto, e)
<1> DEFINE T == SrvcPost(S, Nobody, h, 5, proto, e)
<1>1. S \subseteq OwnSrvc /\ \A s, t \in S : s.hash = t.hash => s = t
  BY DEF OwnSets, OneEach
<1>2. CASE Posted(S, h) = {}
  <2> DEFINE t == NewSrvc(Nobody, h, 5, proto, e)
  <2>1. T = S \cup {t} /\ \A s \in S : s.hash # h
    BY <1>2 DEF SrvcPost, Posted
  <2>2. t.hash = h /\ t.proto = proto /\ t.addrs = {e} /\ t = [host |-> Nobody, hash |-> h, nice |-> 5, proto |-> proto, addrs |-> {e}]
    BY DEF NewSrvc
  <2>3. AddrsOf(S, h) = {}
    BY <1>2 DEF AddrsOf
  <2>4. {} \in SrvcAddrs /\ Cardinality({}) = 0
    <3>1. IsFiniteSet({}) /\ Cardinality({}) = 0
      BY FS_EmptySet
    <3>2. Cardinality({}) =< MaxSrvcAddrs
      BY <3>1, SrvcInfoAssumption
    <3>. QED
      BY <3>1, <3>2 DEF SrvcAddrs
  <2>5. AddSrvcAddr({}, e) = {e}
    <3>1. ~ (Cardinality({}) >= MaxSrvcAddrs)
      BY <2>4, SrvcInfoAssumption
    <3>2. AddSrvcAddr({}, e) = {x \in {} : x.addr # e.addr} \cup {e}
      BY <3>1, Zenon DEF AddSrvcAddr
    <3>. QED
      BY <3>2
  <2>6. {e} \in SrvcAddrs \ {{}}
    <3>1. AddSrvcAddr({}, e) \in SrvcAddrs \ {{}}
      BY <2>4, AddSrvcAddrStep
    <3>. QED
      BY <2>5, <3>1, Zenon
  <2>7. t \in OwnSrvc
    BY <2>2, <2>6 DEF OwnSrvc
  <2>. HIDE DEF t
  <2>8. T \in OwnSets
    BY <1>1, <2>1, <2>2, <2>7 DEF OwnSets, OneEach
  <2>9. OthersSame(S, T, h)
    BY <2>1, <2>2 DEF OthersSame
  <2>. QED
    BY <1>2, <2>1, <2>2, <2>3, <2>5, <2>8, <2>9 DEF PostedOne
<1>3. CASE Posted(S, h) # {}
  <2>1. PICK s \in S : s.hash = h
    BY <1>3 DEF Posted
  <2>2. Posted(S, h) = {s} /\ AddrsOf(S, h) = s.addrs /\ s.addrs \in SrvcAddrs
    BY <2>1, TheAddrs
  <2> DEFINE Step(x) == IF x.hash = h /\ x.proto = proto THEN [x EXCEPT !.addrs = AddSrvcAddr(@, e)] ELSE x
  <2>3. T = {Step(x) : x \in S}
    BY <1>3 DEF SrvcPost
  <2>4. CASE s.proto # proto
    <3>1. \A x \in S : Step(x) = x
      BY <1>1, <2>1, <2>4
    <3>2. T = S
      BY <2>3, <3>1
    <3>. QED
      BY <2>1, <2>4, <3>2 DEF OthersSame, PostedOne
  <2>5. CASE s.proto = proto
    <3> DEFINE t == [s EXCEPT !.addrs = AddSrvcAddr(@, e)]
    <3>1. Step(s) = t /\ \A x \in S : x # s => Step(x) = x /\ x.hash # h
      BY <1>1, <2>1, <2>5
    <3>2. s \in OwnSrvc /\ s.addrs \in SrvcAddrs
      BY <1>1, <2>2
    <3>3. AddSrvcAddr(s.addrs, e) \in SrvcAddrs \ {{}}
      BY <3>2, AddSrvcAddrStep
    <3>4. t \in OwnSrvc /\ t.hash = h /\ t.proto = proto /\ t.addrs = AddSrvcAddr(s.addrs, e)
      BY <2>1, <2>5, <3>2, <3>3 DEF OwnSrvc
    <3>5. T = (S \ {s}) \cup {t}
      BY <2>3, <3>1
    <3>. HIDE DEF t
    <3>6. T \in OwnSets
      BY <1>1, <3>1, <3>4, <3>5 DEF OwnSets, OneEach
    <3>7. OthersSame(S, T, h)
      BY <2>1, <3>4, <3>5 DEF OthersSame
    <3>8. \A x \in Posted(S, h) : x.proto = proto
      BY <2>2, <2>5
    <3>9. t \in T
      BY <3>5
    <3>. HIDE DEF T
    <3>. QED
      BY <2>2, <3>4, <3>6, <3>7, <3>8, <3>9 DEF T, PostedOne
  <2>. QED
    BY <2>4, <2>5
<1>. QED
  BY <1>2, <1>3

(* The loop of _vlsctl_exec_cmd_post_service: acc[k] is what the daemon    *)
(* has after the first k entries.                                          *)
LEMMA PostRuns ==
    ASSUME NEW S \in OwnSets, NEW r, r.hash \in Hashes, r.proto \in Nat,
           r.entries \in Seq(VAddrs)
    PROVE  \E acc \in [0 .. Len(r.entries) -> OwnSets] :
             /\ acc[0] = S
             /\ \A k \in 1 .. Len(r.entries) : acc[k] = SrvcPost(acc[k - 1], Nobody, r.hash, 5, r.proto, r.entries[k])
             /\ PostAll(S, r) = acc[Len(r.entries)]
<1> DEFINE m == r.entries
           D == 1 .. Len(m)
           Step(T, e) == SrvcPost(T, Nobody, r.hash, 5, r.proto, e)
           g == [x \in OwnSets \X D |-> Step(x[1], m[x[2]])]
           F(h) == [c \in SUBSET D |-> IF c = {} THEN S ELSE Step(h[c \ {Max(c)}], m[Max(c)])]
<1>1. DOMAIN m = D /\ Len(m) \in Nat /\ \A k \in D : m[k] \in VAddrs
  OBVIOUS
<1>2. \A T \in OwnSets, e \in VAddrs : Step(T, e) \in OwnSets
  BY PostStep DEF PostedOne
<1>4. \A x \in OwnSets, k \in D : g[<<x, k>>] = Step(x, m[k])
  OBVIOUS
<1>6. PostAll(S, r) = (CHOOSE w : w = F(w))[D]
  BY <1>1 DEF PostAll, FoldLeft, MapThenFoldSet
<1>. HIDE DEF Step
<1>3. g \in [OwnSets \X D -> OwnSets]
  BY <1>1, <1>2
<1>5. \A c \in SUBSET D : c # {} => Max(c) \in D /\ c \ {Max(c)} \in SUBSET D
  BY <1>1, LastPosition
<1>7. PICK h : h = F(h)
  <2>. HIDE DEF g
  <2>1. PICK w : IsFold(w, OwnSets, S, Len(m), g)
    BY <1>1, <1>3, FoldExists
  <2>2. w \in [SUBSET D -> OwnSets] /\
          \A c \in SUBSET D : w[c] = IF c = {} THEN S ELSE g[<<w[c \ {Max(c)}], Max(c)>>]
    BY <2>1 DEF IsFold
  <2>3. \A c \in SUBSET D : w[c] = F(w)[c]
    BY <1>4, <1>5, <2>2
  <2>. HIDE DEF D
  <2>. QED
    BY <2>2, <2>3
<1>8. PICK it : it = F(it) /\ PostAll(S, r) = it[D]
  <2>. HIDE DEF F
  <2>. QED
    BY <1>6, <1>7
<1>9. it[{}] = S /\ \A c \in SUBSET D : c # {} => it[c] = Step(it[c \ {Max(c)}], m[Max(c)])
  BY <1>8
<1>10. FoldsOn(it, OwnSets, S, Len(m), g)
  BY <1>4, <1>5, <1>9 DEF FoldsOn
<1>. HIDE DEF g, F
<1>11. PICK acc : IsRun(acc, OwnSets, S, Len(m), g, it[D])
  BY <1>1, <1>3, <1>10, FoldPrefixes
<1>12. acc \in [0 .. Len(m) -> OwnSets] /\ acc[0] = S /\ acc[Len(m)] = it[D]
  BY <1>11 DEF IsRun
<1>13. \A k \in D : acc[k] = Step(acc[k - 1], m[k])
  <2>1. \A k \in D : k - 1 \in 0 .. Len(m)
    BY <1>1
  <2>. QED
    BY <1>4, <1>11, <1>12, <2>1 DEF IsRun
<1>. QED
  BY <1>8, <1>12, <1>13 DEF Step

(* S has become T by a loss of addresses of one service, which keeps left. *)
UnpostedTo(S, T, h, left) ==
    /\ T \in OwnSets
    /\ OthersSame(S, T, h)
    /\ Posted(T, h) = {} => left = {}
    /\ \A t \in T : t.hash = h => /\ t.addrs = left
                                 /\ \E s \in S : s.hash = h /\ s.proto = t.proto

(* _vnode_srvc_unpost with one address                                     *)
LEMMA UnpostStep ==
    ASSUME NEW S \in OwnSets, NEW h \in Hashes, NEW a \in SockAddrs
    PROVE  UnpostedTo(S, SrvcUnpost(S, h, a), h, DelSrvcAddr(AddrsOf(S, h), a))
<1> DEFINE T == SrvcUnpost(S, h, a)
           Step(x) == IF x.hash = h THEN [x EXCEPT !.addrs = DelSrvcAddr(@, a)] ELSE x
<1>1. /\ S \subseteq OwnSrvc /\ \A s, t \in S : s.hash = t.hash => s = t
      /\ \A s \in S : s.addrs # {}
  BY DEF OwnSets, OneEach, OwnSrvc
<1>2. T = {x \in {Step(y) : y \in S} : x.addrs # {}}
  BY DEF SrvcUnpost
<1>3. CASE Posted(S, h) = {}
  <2>1. \A s \in S : s.hash # h
    BY <1>3 DEF Posted
  <2>2. \A s \in S : Step(s) = s
    BY <2>1
  <2>3. T = S
    BY <1>1, <1>2, <2>2
  <2>4. DelSrvcAddr(AddrsOf(S, h), a) = {}
    BY <1>3 DEF AddrsOf, DelSrvcAddr
  <2>. QED
    BY <2>1, <2>3, <2>4 DEF OthersSame, UnpostedTo
<1>4. CASE Posted(S, h) # {}
  <2>1. PICK s \in S : s.hash = h
    BY <1>4 DEF Posted
  <2>2. AddrsOf(S, h) = s.addrs /\ s.addrs \in SrvcAddrs
    BY <2>1, TheAddrs
  <2> DEFINE left == DelSrvcAddr(s.addrs, a)
             t == [s EXCEPT !.addrs = DelSrvcAddr(@, a)]
  <2>3. Step(s) = t /\ \A x \in S : x # s => Step(x) = x /\ x.hash # h
    BY <1>1, <2>1
  <2>4. s \in OwnSrvc
    BY <1>1
  <2>5. left \in SrvcAddrs
    <3>1. /\ s.addrs \subseteq VAddrs /\ IsFiniteSet(s.addrs) /\ Cardinality(s.addrs) =< MaxSrvcAddrs
          /\ \A x, y \in s.addrs : x.addr = y.addr => x = y
      BY <2>2 DEF SrvcAddrs
    <3>2. left \subseteq s.addrs
      BY DEF DelSrvcAddr
    <3>. HIDE DEF left
    <3>3. IsFiniteSet(left) /\ Cardinality(left) =< Cardinality(s.addrs)
      BY <3>1, <3>2, FS_Subset
    <3>4. Cardinality(left) =< MaxSrvcAddrs
      <4>1. Cardinality(left) \in Nat /\ Cardinality(s.addrs) \in Nat
        BY <3>1, <3>3, FS_CardinalityType
      <4>. QED
        BY <3>1, <3>3, <4>1, SrvcInfoAssumption
    <3>. QED
      BY <3>1, <3>2, <3>3, <3>4 DEF SrvcAddrs
  <2>6. t.hash = h /\ t.proto = s.proto /\ t.addrs = left /\ (left # {} => t \in OwnSrvc)
    BY <2>1, <2>4, <2>5 DEF OwnSrvc
  <2>7. T = IF left = {} THEN S \ {s} ELSE (S \ {s}) \cup {t}
    <3>. HIDE DEF left, t
    <3>1. {Step(y) : y \in S} = (S \ {s}) \cup {t}
      BY <2>3
    <3>. HIDE DEF Step
    <3>. QED
      BY <1>1, <1>2, <2>6, <3>1
  <2>. HIDE DEF t, T, left
  <2>8. T \in OwnSets
    BY <1>1, <2>3, <2>6, <2>7 DEF OwnSets, OneEach
  <2>9. OthersSame(S, T, h)
    BY <2>1, <2>6, <2>7 DEF OthersSame
  <2>10. Posted(T, h) = {} => left = {}
    BY <2>6, <2>7 DEF Posted
  <2>11. \A x \in T : x.hash = h => x = t
    BY <2>3, <2>7
  <2>12. \A x \in T : x.hash = h => x.addrs = left /\ \E y \in S : y.hash = h /\ y.proto = x.proto
    BY <2>1, <2>6, <2>11
  <2>. QED
    BY <2>2, <2>8, <2>9, <2>10, <2>12 DEF T, left, UnpostedTo
<1>. QED
  BY <1>3, <1>4

(* The loop of _vlsctl_exec_cmd_unpost_service                             *)
LEMMA UnpostRuns ==
    ASSUME NEW S \in OwnSets, NEW r, r.hash \in Hashes, r.addrs \in Seq(SockAddrs), r.addrs # <<>>
    PROVE  \E acc \in [0 .. Len(r.addrs) -> OwnSets] :
             /\ acc[0] = S
             /\ \A k \in 1 .. Len(r.addrs) : acc[k] = SrvcUnpost(acc[k - 1], r.hash, r.addrs[k])
             /\ UnpostAll(S, r) = acc[Len(r.addrs)]
<1> DEFINE m == r.addrs
           D == 1 .. Len(m)
           Step(T, e) == SrvcUnpost(T, r.hash, e)
           g == [x \in OwnSets \X D |-> Step(x[1], m[x[2]])]
           F(h) == [c \in SUBSET D |-> IF c = {} THEN S ELSE Step(h[c \ {Max(c)}], m[Max(c)])]
<1>1. DOMAIN m = D /\ Len(m) \in Nat /\ \A k \in D : m[k] \in SockAddrs
  OBVIOUS
<1>2. \A T \in OwnSets, e \in SockAddrs : Step(T, e) \in OwnSets
  BY UnpostStep DEF UnpostedTo
<1>4. \A x \in OwnSets, k \in D : g[<<x, k>>] = Step(x, m[k])
  OBVIOUS
<1>6. UnpostAll(S, r) = (CHOOSE w : w = F(w))[D]
  BY <1>1 DEF UnpostAll, FoldLeft, MapThenFoldSet
<1>. HIDE DEF Step
<1>3. g \in [OwnSets \X D -> OwnSets]
  BY <1>1, <1>2
<1>5. \A c \in SUBSET D : c # {} => Max(c) \in D /\ c \ {Max(c)} \in SUBSET D
  BY <1>1, LastPosition
<1>7. PICK h : h = F(h)
  <2>. HIDE DEF g
  <2>1. PICK w : IsFold(w, OwnSets, S, Len(m), g)
    BY <1>1, <1>3, FoldExists
  <2>2. w \in [SUBSET D -> OwnSets] /\
          \A c \in SUBSET D : w[c] = IF c = {} THEN S ELSE g[<<w[c \ {Max(c)}], Max(c)>>]
    BY <2>1 DEF IsFold
  <2>3. \A c \in SUBSET D : w[c] = F(w)[c]
    BY <1>4, <1>5, <2>2
  <2>4. DOMAIN w = SUBSET D
    BY <2>2
  <2>. HIDE DEF D
  <2>5. w = F(w)
    BY <2>2, <2>3, <2>4
  <2>. HIDE DEF F
  <2>. QED
    BY <2>5
<1>8. PICK it : it = F(it) /\ UnpostAll(S, r) = it[D]
  <2>. HIDE DEF F
  <2>. QED
    BY <1>6, <1>7
<1>9. it[{}] = S /\ \A c \in SUBSET D : c # {} => it[c] = Step(it[c \ {Max(c)}], m[Max(c)])
  BY <1>8
<1>10. FoldsOn(it, OwnSets, S, Len(m), g)
  BY <1>4, <1>5, <1>9 DEF FoldsOn
<1>. HIDE DEF g, F
<1>11. PICK acc : IsRun(acc, OwnSets, S, Len(m), g, it[D])
  BY <1>1, <1>3, <1>10, FoldPrefixes
<1>12. acc \in [0 .. Len(m) -> OwnSets] /\ acc[0] = S /\ acc[Len(m)] = it[D]
  BY <1>11 DEF IsRun
<1>13. \A k \in D : acc[k] = Step(acc[k - 1], m[k])
  <2>1. \A k \in D : k - 1 \in 0 .. Len(m)
    BY <1>1
  <2>. QED
    BY <1>4, <1>11, <1>12, <2>1 DEF IsRun
<1>. QED
  BY <1>8, <1>12, <1>13 DEF Step

(* What k entries make of the addresses old: they stay, one entry each,    *)
(* and those of the entries come, unless the service is full.              *)
GrownTo(A, old, entries, k) ==
    /\ A \in SrvcAddrs
    /\ A \subseteq old \cup {entries[j] : j \in 1 .. k}
    /\ \A x \in old : \E y \in A : y.addr = x.addr
    /\ \/ Cardinality(A) = MaxSrvcAddrs
       \/ \A j \in 1 .. k : \E i \in 1 .. k : entries[i] \in A /\ entries[i].addr = entries[j].addr

LEMMA GrownStep ==
    ASSUME NEW A, NEW old, NEW entries \in Seq(VAddrs), NEW k \in 1 .. Len(entries),
           GrownTo(A, old, entries, k - 1)
    PROVE  GrownTo(AddSrvcAddr(A, entries[k]), old, entries, k)
<1> DEFINE e == entries[k]
           B == AddSrvcAddr(A, e)
<1>1. /\ A \in SrvcAddrs
      /\ A \subseteq old \cup {entries[j] : j \in 1 .. (k - 1)}
      /\ \A x \in old : \E y \in A : y.addr = x.addr
      /\ \/ Cardinality(A) = MaxSrvcAddrs
         \/ \A j \in 1 .. (k - 1) : \E i \in 1 .. (k - 1) : entries[i] \in A /\ entries[i].addr = entries[j].addr
  BY DEF GrownTo
<1>2. e \in VAddrs /\ k \in Nat /\ 1 .. (k - 1) \subseteq 1 .. k /\ k \in 1 .. k
  OBVIOUS
<1>3. /\ B \in SrvcAddrs /\ B \subseteq A \cup {e}
      /\ \A x \in A : \E y \in B : y.addr = x.addr
      /\ \/ Cardinality(A) = MaxSrvcAddrs /\ B = A
         \/ e \in B /\ \A x \in A : x.addr # e.addr => x \in B
  BY <1>1, <1>2, AddSrvcAddrStep
<1>. HIDE DEF B
<1>4. B \subseteq old \cup {entries[j] : j \in 1 .. k}
  BY <1>1, <1>2, <1>3
<1>5. \A x \in old : \E y \in B : y.addr = x.addr
  BY <1>1, <1>3
<1>6. CASE Cardinality(A) = MaxSrvcAddrs /\ B = A
  BY <1>3, <1>4, <1>5, <1>6 DEF GrownTo, B, e
<1>7. CASE e \in B /\ \A x \in A : x.addr # e.addr => x \in B
  <2>1. CASE Cardinality(A) = MaxSrvcAddrs
    <3>1. ASSUME B # A PROVE e \in B /\ \A x \in A : x.addr # e.addr => x \in B
      BY <1>7
    <3>2. Cardinality(A) >= MaxSrvcAddrs
      BY <2>1, SrvcInfoAssumption
    <3>3. B = A
      BY <3>2 DEF B, AddSrvcAddr
    <3>. QED
      BY <1>6, <2>1, <3>3
  <2>2. CASE \A j \in 1 .. (k - 1) : \E i \in 1 .. (k - 1) : entries[i] \in A /\ entries[i].addr = entries[j].addr
    <3>1. ASSUME NEW j \in 1 .. k PROVE \E i \in 1 .. k : entries[i] \in B /\ entries[i].addr = entries[j].addr
      <4>1. CASE j = k
        BY <1>2, <1>7, <4>1
      <4>2. CASE j # k
        <5>1. j \in 1 .. (k - 1)
          BY <1>2, <4>2
        <5>2. PICK i \in 1 .. (k - 1) : entries[i] \in A /\ entries[i].addr = entries[j].addr
          BY <2>2, <5>1
        <5>3. CASE entries[i].addr = e.addr
          BY <1>2, <1>7, <5>2, <5>3
        <5>4. CASE entries[i].addr # e.addr
          BY <1>2, <1>7, <5>2, <5>4
        <5>. QED
          BY <5>3, <5>4
      <4>. QED
        BY <4>1, <4>2
    <3>. QED
      BY <1>3, <1>4, <1>5, <3>1 DEF GrownTo, B, e
  <2>. QED
    BY <1>1, <2>1, <2>2
<1>. QED
  BY <1>3, <1>6, <1>7

(* A request to post services as the daemon gets it                        *)
LEMMA PostResult ==
    ASSUME NEW S \in OwnSets, NEW r, r.hash \in Hashes, r.proto \in Nat,
           r.entries \in Seq(VAddrs), Len(r.entries) >= 1
    PROVE  LET T == PostAll(S, r)
               h == r.hash IN
           /\ T \in OwnSets
           /\ OthersSame(S, T, h)
           /\ \/ T = S /\ \E s \in S : s.hash = h /\ s.proto # r.proto
              \/ /\ \A s \in Posted(S, h) : s.proto = r.proto
                 /\ \E t \in T : /\ t.hash = h /\ t.proto = r.proto
                                 /\ GrownTo(t.addrs, AddrsOf(S, h), r.entries, Len(r.entries))
<1> DEFINE h == r.hash
           m == r.entries
           L == Len(m)
           old == AddrsOf(S, h)
<1>1. PICK acc \in [0 .. L -> OwnSets] :
         /\ acc[0] = S
         /\ \A k \in 1 .. L : acc[k] = SrvcPost(acc[k - 1], Nobody, h, 5, r.proto, m[k])
         /\ PostAll(S, r) = acc[L]
  BY PostRuns
<1>2. L \in Nat /\ L >= 1 /\ \A k \in 1 .. L : m[k] \in VAddrs
  OBVIOUS
<1>3. ASSUME NEW k \in 1 .. L
      PROVE  acc[k - 1] \in OwnSets /\ PostedOne(acc[k - 1], acc[k], h, r.proto, m[k])
  <2>1. k - 1 \in 0 .. L /\ k \in 0 .. L
    BY <1>2
  <2>2. acc[k - 1] \in OwnSets /\ acc[k] = SrvcPost(acc[k - 1], Nobody, h, 5, r.proto, m[k])
    BY <1>1, <2>1
  <2>3. m[k] \in VAddrs /\ h \in Hashes
    BY <1>2
  <2>. HIDE DEF h, m
  <2>4. PostedOne(acc[k - 1], SrvcPost(acc[k - 1], Nobody, h, 5, r.proto, m[k]), h, r.proto, m[k])
    BY <2>2, <2>3, PostStep
  <2>. QED
    BY <2>2, <2>4
<1>. HIDE DEF h, m, L, old
<1>4. CASE \E s \in S : s.hash = h /\ s.proto # r.proto
  <2>1. PICK s \in S : s.hash = h /\ s.proto # r.proto
    BY <1>4
  <2> DEFINE N == {k \in Nat : k =< L => acc[k] = S}
  <2>2. 0 \in N
    BY <1>1
  <2>3. ASSUME NEW k \in N PROVE k + 1 \in N
    <3>1. SUFFICES ASSUME k + 1 =< L PROVE acc[k + 1] = S
      OBVIOUS
    <3>2. k + 1 \in 1 .. L /\ (k + 1) - 1 = k /\ acc[k] = S
      BY <1>2, <3>1
    <3>3. s \in Posted(acc[k], h)
      BY <2>1, <3>2 DEF Posted
    <3>. QED
      BY <1>3, <2>1, <3>2, <3>3 DEF PostedOne
  <2>4. N = Nat
    <3>1. N \in SUBSET Nat
      OBVIOUS
    <3>. HIDE DEF N
    <3>. QED
      BY <2>2, <2>3, <3>1, SetInduction
  <2>5. acc[L] = S
    BY <1>2, <2>4
  <2>. QED
    <3>1. PostAll(S, r) = S
      BY <1>1, <2>5
    <3>2. OthersSame(S, S, h)
      BY DEF OthersSame
    <3>. QED
      BY <2>1, <3>1, <3>2 DEF h
<1>5. CASE \A s \in S : s.hash = h => s.proto = r.proto
  <2> DEFINE Good(k) == /\ OthersSame(S, acc[k], h)
                        /\ \A s \in acc[k] : s.hash = h => s.proto = r.proto
                        /\ k > 0 => Posted(acc[k], h) # {}
                        /\ GrownTo(AddrsOf(acc[k], h), old, m, k)
             N == {k \in Nat : k =< L => Good(k)}
  <2>1. Good(0)
    <3>1. OthersSame(S, S, h)
      BY DEF OthersSame
    <3>2. old \in SrvcAddrs
      <4>1. CASE Posted(S, h) = {}
        <5>1. old = {}
          BY <4>1 DEF AddrsOf, old
        <5>2. IsFiniteSet({}) /\ Cardinality({}) = 0
          BY FS_EmptySet
        <5>3. Cardinality({}) =< MaxSrvcAddrs
          BY <5>2, SrvcInfoAssumption
        <5>. QED
          BY <5>1, <5>2, <5>3 DEF SrvcAddrs
      <4>2. CASE Posted(S, h) # {}
        BY <4>2, TheAddrs DEF Posted, old
      <4>. QED
        BY <4>1, <4>2
    <3>3. GrownTo(old, old, m, 0)
      <4>1. 1 .. 0 = {}
        OBVIOUS
      <4>. QED
        BY <3>2, <4>1 DEF GrownTo
    <3>. QED
      BY <1>1, <1>5, <3>1, <3>3 DEF old
  <2>2. 0 \in N
    BY <2>1
  <2>3. ASSUME NEW k \in N PROVE k + 1 \in N
    <3>1. SUFFICES ASSUME k + 1 =< L PROVE Good(k + 1)
      OBVIOUS
    <3>2. k + 1 \in 1 .. L /\ (k + 1) - 1 = k /\ Good(k) /\ k + 1 > 0
      BY <1>2, <3>1
    <3>3. /\ acc[k] \in OwnSets /\ acc[k + 1] \in OwnSets /\ OthersSame(acc[k], acc[k + 1], h)
          /\ \/ \E s \in acc[k] : s.hash = h /\ s.proto # r.proto
             \/ \E t \in acc[k + 1] : /\ t.hash = h /\ t.proto = r.proto
                                     /\ t.addrs = AddSrvcAddr(AddrsOf(acc[k], h), m[k + 1])
      BY <1>3, <3>2 DEF PostedOne
    <3>4. PICK t \in acc[k + 1] : /\ t.hash = h /\ t.proto = r.proto
                                 /\ t.addrs = AddSrvcAddr(AddrsOf(acc[k], h), m[k + 1])
      BY <3>2, <3>3
    <3>5. Posted(acc[k + 1], h) = {t} /\ AddrsOf(acc[k + 1], h) = t.addrs
      BY <3>3, <3>4, TheAddrs
    <3>6. OthersSame(S, acc[k + 1], h)
      BY <3>2, <3>3 DEF OthersSame
    <3>7. GrownTo(AddSrvcAddr(AddrsOf(acc[k], h), m[k + 1]), old, m, k + 1)
      BY <3>2, GrownStep DEF L, m
    <3>8. \A s \in acc[k + 1] : s.hash = h => s.proto = r.proto
      BY <3>4, <3>5 DEF Posted
    <3>. QED
      BY <3>4, <3>5, <3>6, <3>7, <3>8
  <2>4. N = Nat
    <3>1. N \in SUBSET Nat
      OBVIOUS
    <3>. HIDE DEF N
    <3>. QED
      BY <2>2, <2>3, <3>1, SetInduction
  <2>5. Good(L) /\ L > 0
    BY <1>2, <2>4
  <2>6. PICK t \in acc[L] : t.hash = h
    BY <2>5 DEF Posted
  <2>7. acc[L] \in OwnSets
    BY <1>1, <1>2
  <2>8. GrownTo(t.addrs, old, m, L) /\ t.proto = r.proto
    BY <2>5, <2>6, <2>7, TheAddrs
  <2>9. \A s \in Posted(S, h) : s.proto = r.proto
    BY <1>5 DEF Posted
  <2>. QED
    BY <1>1, <2>5, <2>6, <2>7, <2>8, <2>9 DEF h, old, L, m
<1>. QED
  BY <1>4, <1>5

(* A request to withdraw some addresses of a service as the daemon gets it *)
LEMMA UnpostResult ==
    ASSUME NEW S \in OwnSets, NEW r, r.hash \in Hashes, r.addrs \in Seq(SockAddrs), r.addrs # <<>>
    PROVE  UnpostedTo(S, UnpostAll(S, r), r.hash,
                      {x \in AddrsOf(S, r.hash) : \A k \in DOMAIN r.addrs : x.addr # r.addrs[k]})
<1> DEFINE h == r.hash
           m == r.addrs
           L == Len(m)
           Left(k) == {x \in AddrsOf(S, h) : \A j \in 1 .. k : x.addr # m[j]}
<1>1. PICK acc \in [0 .. L -> OwnSets] :
         /\ acc[0] = S
         /\ \A k \in 1 .. L : acc[k] = SrvcUnpost(acc[k - 1], h, m[k])
         /\ UnpostAll(S, r) = acc[L]
  BY UnpostRuns
<1>2. L \in Nat /\ DOMAIN m = 1 .. L /\ h \in Hashes /\ \A k \in 1 .. L : m[k] \in SockAddrs
  OBVIOUS
<1>. HIDE DEF h, m, L
<1>3. ASSUME NEW k \in 1 .. L
      PROVE  /\ acc[k - 1] \in OwnSets
             /\ UnpostedTo(acc[k - 1], acc[k], h, DelSrvcAddr(AddrsOf(acc[k - 1], h), m[k]))
  <2>1. k - 1 \in 0 .. L /\ k \in 0 .. L
    BY <1>2
  <2>2. acc[k - 1] \in OwnSets /\ acc[k] = SrvcUnpost(acc[k - 1], h, m[k])
    BY <1>1, <2>1
  <2>3. UnpostedTo(acc[k - 1], SrvcUnpost(acc[k - 1], h, m[k]), h, DelSrvcAddr(AddrsOf(acc[k - 1], h), m[k]))
    BY <1>2, <2>2, UnpostStep
  <2>. QED
    BY <2>2, <2>3
<1> DEFINE N == {k \in Nat : k =< L => UnpostedTo(S, acc[k], h, Left(k))}
<1>4. 0 \in N
  <2>1. Left(0) = AddrsOf(S, h)
    OBVIOUS
  <2>2. Posted(S, h) = {} => AddrsOf(S, h) = {}
    BY DEF AddrsOf
  <2>3. \A t \in S : t.hash = h => t.addrs = AddrsOf(S, h)
    BY TheAddrs
  <2>4. OthersSame(S, S, h)
    BY DEF OthersSame
  <2>. HIDE DEF Left
  <2>. QED
    BY <1>1, <2>1, <2>2, <2>3, <2>4 DEF UnpostedTo
<1>5. ASSUME NEW k \in N PROVE k + 1 \in N
  <2>1. SUFFICES ASSUME k + 1 =< L PROVE UnpostedTo(S, acc[k + 1], h, Left(k + 1))
    OBVIOUS
  <2> DEFINE P == acc[k]
             T == acc[k + 1]
             a == m[k + 1]
  <2>2. k + 1 \in 1 .. L /\ (k + 1) - 1 = k /\ k \in Nat /\ UnpostedTo(S, P, h, Left(k))
    BY <1>2, <2>1
  <2>3. P \in OwnSets /\ UnpostedTo(P, T, h, DelSrvcAddr(AddrsOf(P, h), a))
    BY <1>3, <2>2
  <2>4. Left(k + 1) = {x \in Left(k) : x.addr # a}
    <3>1. \A j : j \in 1 .. (k + 1) <=> j \in 1 .. k \/ j = k + 1
      BY <2>2
    <3>. QED
      BY <3>1
  <2>. HIDE DEF P, T, a, Left
  <2>5. AddrsOf(P, h) = Left(k)
    <3>1. CASE Posted(P, h) = {}
      BY <2>2, <3>1 DEF UnpostedTo, AddrsOf
    <3>2. CASE Posted(P, h) # {}
      <4>1. PICK t \in P : t.hash = h
        BY <3>2 DEF Posted
      <4>. QED
        BY <2>2, <2>3, <4>1, TheAddrs DEF UnpostedTo
    <3>. QED
      BY <3>1, <3>2
  <2>6. UnpostedTo(P, T, h, Left(k + 1))
    BY <2>3, <2>4, <2>5 DEF DelSrvcAddr
  <2>7. OthersSame(S, T, h)
    BY <2>2, <2>6 DEF UnpostedTo, OthersSame
  <2>8. \A t \in T : t.hash = h => \E s \in S : s.hash = h /\ s.proto = t.proto
    BY <2>2, <2>6 DEF UnpostedTo
  <2>9. UnpostedTo(S, T, h, Left(k + 1))
    BY <2>6, <2>7, <2>8 DEF UnpostedTo
  <2>. QED
    BY <2>9 DEF T
<1>6. N = Nat
  <2>1. N \in SUBSET Nat
    OBVIOUS
  <2>. HIDE DEF N
  <2>. QED
    BY <1>4, <1>5, <2>1, SetInduction
<1>7. UnpostedTo(S, acc[L], h, Left(L))
  BY <1>2, <1>6
<1>8. Left(L) = {x \in AddrsOf(S, h) : \A k \in DOMAIN m : x.addr # m[k]}
  BY <1>2
<1>. QED
  BY <1>1, <1>7, <1>8 DEF h, m

-----------------------------------------------------------------------------
(* The registry of the services                                            *)

RegOf(S) == [h \in {s.hash : s \in S} |->
               LET s == CHOOSE s \in S : s.hash = h IN [proto |-> s.proto, addrs |-> s.addrs]]

LEMMA RegOfOwn ==
    Reg = RegOf(own)
BY DEF Reg, RegOf

LEMMA RegOfHash ==
    ASSUME NEW S \in OwnSets, NEW s \in S
    PROVE  s.hash \in DOMAIN RegOf(S) /\ RegOf(S)[s.hash] = [proto |-> s.proto, addrs |-> s.addrs]
<1> DEFINE Has(x) == x \in S /\ x.hash = s.hash
<1>1. \A x : Has(x) => x = s
  BY DEF OwnSets, OneEach
<1>2. Has(s)
  OBVIOUS
<1>3. (CHOOSE x \in S : x.hash = s.hash) = CHOOSE x : Has(x)
  OBVIOUS
<1>. HIDE DEF Has
<1>4. (CHOOSE x : Has(x)) = s
  BY <1>1, <1>2, Zenon
<1>5. (CHOOSE x \in S : x.hash = s.hash) = s
  BY <1>3, <1>4
<1>. QED
  BY <1>5 DEF RegOf

LEMMA RegOfOthers ==
    ASSUME NEW S \in OwnSets, NEW T \in OwnSets, NEW h, OthersSame(S, T, h), NEW k, k # h
    PROVE  /\ k \in DOMAIN RegOf(S) <=> k \in DOMAIN RegOf(T)
           /\ k \in DOMAIN RegOf(S) => RegOf(S)[k] = RegOf(T)[k]
<1>1. DOMAIN RegOf(S) = {s.hash : s \in S} /\ DOMAIN RegOf(T) = {s.hash : s \in T}
  BY DEF RegOf
<1>2. \A s \in S : s.hash = k => s \in T
  BY DEF OthersSame
<1>3. \A s \in T : s.hash = k => s \in S
  BY DEF OthersSame
<1>4. \A s \in S : s.hash = k => RegOf(S)[k] = RegOf(T)[k]
  <2> SUFFICES ASSUME NEW s \in S, s.hash = k PROVE RegOf(S)[k] = RegOf(T)[k]
    OBVIOUS
  <2>1. RegOf(S)[s.hash] = [proto |-> s.proto, addrs |-> s.addrs]
    BY RegOfHash
  <2>2. s \in T
    BY <1>2
  <2>3. RegOf(T)[s.hash] = [proto |-> s.proto, addrs |-> s.addrs]
    BY <2>2, RegOfHash
  <2>. QED
    BY <2>1, <2>3
<1>. QED
  BY <1>1, <1>2, <1>3, <1>4

(* A service is entered or changed.                                        *)
LEMMA RegWith ==
    ASSUME NEW S \in OwnSets, NEW T \in OwnSets, NEW t \in T, OthersSame(S, T, t.hash)
    PROVE  RegOf(T) = R!With(RegOf(S), t.hash, [proto |-> t.proto, addrs |-> t.addrs])
<1> DEFINE h == t.hash
           v == [proto |-> t.proto, addrs |-> t.addrs]
           W == R!With(RegOf(S), h, v)
<1>1. h \in DOMAIN RegOf(T) /\ RegOf(T)[h] = v
  BY RegOfHash
<1>2. \A k : k # h => /\ k \in DOMAIN RegOf(S) <=> k \in DOMAIN RegOf(T)
                      /\ k \in DOMAIN RegOf(S) => RegOf(S)[k] = RegOf(T)[k]
  BY RegOfOthers
<1>3. W = [k \in DOMAIN RegOf(S) \cup {h} |-> IF k = h THEN v ELSE RegOf(S)[k]]
  BY DEF R!With
<1>4. RegOf(T) = [k \in DOMAIN RegOf(T) |-> RegOf(T)[k]]
  BY DEF RegOf
<1>. HIDE DEF W, h, v
<1>5. DOMAIN RegOf(T) = DOMAIN RegOf(S) \cup {h}
  BY <1>1, <1>2
<1>6. \A k \in DOMAIN RegOf(T) : RegOf(T)[k] = IF k = h THEN v ELSE RegOf(S)[k]
  BY <1>1, <1>2, <1>5
<1>. QED
  BY <1>3, <1>4, <1>5, <1>6 DEF W, h, v

(* A service is gone.                                                      *)
LEMMA RegWithout ==
    ASSUME NEW S \in OwnSets, NEW T \in OwnSets, NEW h, OthersSame(S, T, h), Posted(T, h) = {}
    PROVE  RegOf(T) = R!Without(RegOf(S), h)
<1>1. DOMAIN RegOf(T) = {s.hash : s \in T}
  BY DEF RegOf
<1>2. h \notin DOMAIN RegOf(T)
  BY <1>1 DEF Posted
<1>3. \A k : k # h => /\ k \in DOMAIN RegOf(S) <=> k \in DOMAIN RegOf(T)
                      /\ k \in DOMAIN RegOf(S) => RegOf(S)[k] = RegOf(T)[k]
  BY RegOfOthers
<1>4. RegOf(T) = [k \in DOMAIN RegOf(T) |-> RegOf(T)[k]]
  BY DEF RegOf
<1>5. DOMAIN RegOf(T) = DOMAIN RegOf(S) \ {h}
  BY <1>2, <1>3
<1>6. \A k \in DOMAIN RegOf(T) : RegOf(T)[k] = RegOf(S)[k]
  BY <1>2, <1>3
<1>. QED
  BY <1>4, <1>5, <1>6 DEF R!Without

LEMMA RegNextIs ==
    Reg' = RegOf(own')
BY DEF Reg, RegOf

(* What the registry has of a hash                                         *)
LEMMA RegOfAddrs ==
    ASSUME NEW S \in OwnSets, NEW h
    PROVE  /\ h \notin DOMAIN RegOf(S) => Posted(S, h) = {} /\ AddrsOf(S, h) = {}
           /\ h \in DOMAIN RegOf(S) =>
                \E s \in S : /\ s.hash = h /\ s \in Posted(S, h)
                            /\ RegOf(S)[h] = [proto |-> s.proto, addrs |-> AddrsOf(S, h)]
<1>1. DOMAIN RegOf(S) = {s.hash : s \in S}
  BY DEF RegOf
<1>2. CASE h \notin DOMAIN RegOf(S)
  <2>1. Posted(S, h) = {}
    BY <1>1, <1>2 DEF Posted
  <2>. QED
    BY <1>2, <2>1 DEF AddrsOf
<1>3. CASE h \in DOMAIN RegOf(S)
  <2>1. PICK s \in S : s.hash = h
    BY <1>1, <1>3
  <2>2. s \in Posted(S, h)
    BY <2>1 DEF Posted
  <2>3. RegOf(S)[h] = [proto |-> s.proto, addrs |-> s.addrs]
    BY <2>1, RegOfHash
  <2>4. AddrsOf(S, h) = s.addrs
    BY <2>1, TheAddrs
  <2>. QED
    BY <1>3, <2>1, <2>2, <2>3, <2>4
<1>. QED
  BY <1>2, <1>3

(* The growth of the addresses by the entries is what the registry allows. *)
LEMMA GrownAsPromised ==
    ASSUME NEW A, NEW old, NEW entries \in Seq(VAddrs), GrownTo(A, old, entries, Len(entries))
    PROVE  A \in R!Grown(old, R!Range(entries))
<1> DEFINE new == R!Range(entries)
<1>1. DOMAIN entries = 1 .. Len(entries)
  OBVIOUS
<1>2. new = {entries[k] : k \in 1 .. Len(entries)}
  BY <1>1 DEF R!Range
<1>3. A \subseteq old \cup new /\ \A x \in old : \E y \in A : y.addr = x.addr
  BY <1>2 DEF GrownTo
<1>4. \A x, y \in A : x.addr = y.addr => x = y
  BY DEF GrownTo, SrvcAddrs
<1>5. Cardinality(A) = MaxSrvcAddrs \/ \A e \in new : \E y \in A \cap new : y.addr = e.addr
  <2>1. SUFFICES ASSUME Cardinality(A) # MaxSrvcAddrs, NEW e \in new
                 PROVE  \E y \in A \cap new : y.addr = e.addr
    OBVIOUS
  <2>2. PICK j \in 1 .. Len(entries) : e = entries[j]
    BY <1>2
  <2>3. PICK k \in 1 .. Len(entries) : entries[k] \in A /\ entries[k].addr = entries[j].addr
    BY <2>1 DEF GrownTo
  <2>. QED
    BY <1>2, <2>2, <2>3
<1>. HIDE DEF new
<1>6. A \in R!Grown(old, new)
  <2>1. A \in SUBSET (old \cup new)
    BY <1>3
  <2>2. \A x \in old : \E y \in A : y.addr = x.addr
    BY <1>3
  <2>. QED
    <3>1. R!Cardinality(A) = Cardinality(A)
      BY DEF R!Cardinality, Cardinality
    <3>. QED
      BY <1>4, <1>5, <2>1, <2>2, <3>1 DEF R!Grown
<1>. QED
  BY <1>6 DEF new

(* The daemon carries out a post as the registry promises.                 *)
LEMMA PostImplements ==
    ASSUME own \in OwnSets, NEW r \in PostRequests, Len(r.entries) >= 1, own' = PostAll(own, r)
    PROVE  R!Post(r)
<1> DEFINE h == r.hash
           T == own'
           old == IF h \in DOMAIN Reg THEN Reg[h] ELSE [proto |-> r.proto, addrs |-> {}]
<1>1. r.hash \in Hashes /\ r.proto \in Nat /\ r.entries \in Seq(VAddrs)
  BY DEF PostRequests
<1>2. /\ T \in OwnSets
      /\ OthersSame(own, T, h)
      /\ \/ T = own /\ \E s \in own : s.hash = h /\ s.proto # r.proto
         \/ /\ \A s \in Posted(own, h) : s.proto = r.proto
            /\ \E t \in T : /\ t.hash = h /\ t.proto = r.proto
                            /\ GrownTo(t.addrs, AddrsOf(own, h), r.entries, Len(r.entries))
  <2> DEFINE U == PostAll(own, r)
  <2>1. /\ U \in OwnSets
        /\ OthersSame(own, U, h)
        /\ \/ U = own /\ \E s \in own : s.hash = h /\ s.proto # r.proto
           \/ /\ \A s \in Posted(own, h) : s.proto = r.proto
              /\ \E t \in U : /\ t.hash = h /\ t.proto = r.proto
                              /\ GrownTo(t.addrs, AddrsOf(own, h), r.entries, Len(r.entries))
    BY <1>1, PostResult
  <2>2. T = U
    OBVIOUS
  <2>. HIDE DEF U
  <2>. QED
    BY <2>1, <2>2
<1>3. Reg = RegOf(own) /\ Reg' = RegOf(T)
  BY RegOfOwn, RegNextIs
<1>. HIDE DEF h, T
<1>4. CASE T = own /\ \E s \in own : s.hash = h /\ s.proto # r.proto
  <2>1. PICK s \in own : s.hash = h /\ s.proto # r.proto
    BY <1>4
  <2>2. h \in DOMAIN Reg /\ Reg[h] = [proto |-> s.proto, addrs |-> s.addrs]
    BY <1>3, <2>1, RegOfHash
  <2>3. old.proto # r.proto
    BY <2>1, <2>2
  <2>4. Reg' = Reg
    BY <1>3, <1>4
  <2>. QED
    BY <2>3, <2>4 DEF R!Post, h
<1>5. CASE /\ \A s \in Posted(own, h) : s.proto = r.proto
           /\ \E t \in T : /\ t.hash = h /\ t.proto = r.proto
                           /\ GrownTo(t.addrs, AddrsOf(own, h), r.entries, Len(r.entries))
  <2>1. PICK t \in T : /\ t.hash = h /\ t.proto = r.proto
                       /\ GrownTo(t.addrs, AddrsOf(own, h), r.entries, Len(r.entries))
    BY <1>5
  <2>2. old.proto = r.proto /\ old.addrs = AddrsOf(own, h)
    <3>1. CASE h \in DOMAIN Reg
      <4>1. PICK s \in Posted(own, h) : Reg[h] = [proto |-> s.proto, addrs |-> AddrsOf(own, h)]
        BY <1>3, <3>1, RegOfAddrs
      <4>2. s.proto = r.proto
        BY <1>5
      <4>. QED
        BY <3>1, <4>1, <4>2
    <3>2. CASE h \notin DOMAIN Reg
      <4>1. AddrsOf(own, h) = {}
        BY <1>3, <3>2, RegOfAddrs
      <4>. QED
        BY <3>2, <4>1
    <3>. QED
      BY <3>1, <3>2
  <2>3. t.addrs \in R!Grown(AddrsOf(own, h), R!Range(r.entries))
    BY <1>1, <2>1, GrownAsPromised
  <2>4. Reg' = R!With(Reg, h, [proto |-> r.proto, addrs |-> t.addrs])
    BY <1>2, <1>3, <2>1, RegWith
  <2>. HIDE DEF old
  <2>5. \E A \in R!Grown(old.addrs, R!Range(r.entries)) :
          Reg' = R!With(Reg, h, [proto |-> r.proto, addrs |-> A])
    BY <2>2, <2>3, <2>4
  <2>. QED
    BY <2>2, <2>5 DEF R!Post, h, old
<1>. QED
  BY <1>2, <1>4, <1>5

(* The daemon withdraws addresses and services as the registry promises.   *)
LEMMA UnpostImplements ==
    ASSUME own \in OwnSets, NEW r \in UnpostRequests, own' = UnpostAll(own, r)
    PROVE  own' \in OwnSets /\ R!Unpost(r)
<1> DEFINE h == r.hash
           T == own'
           left == {x \in AddrsOf(own, h) : \A k \in DOMAIN r.addrs : x.addr # r.addrs[k]}
<1>1. r.hash \in Hashes /\ r.addrs \in Seq(SockAddrs)
  BY DEF UnpostRequests
<1>2. Reg = RegOf(own) /\ Reg' = RegOf(T)
  BY RegOfOwn, RegNextIs
<1>3. /\ T \in OwnSets /\ OthersSame(own, T, h)
      /\ r.addrs = <<>> => Posted(T, h) = {}
      /\ r.addrs # <<>> => UnpostedTo(own, T, h, left)
  <2>1. CASE r.addrs = <<>>
    <3>1. T = own \ Posted(own, h)
      BY <2>1 DEF UnpostAll, SrvcUnpostExt
    <3>2. T \in OwnSets
      BY <3>1 DEF OwnSets, OneEach
    <3>3. OthersSame(own, T, h)
      BY <3>1 DEF OthersSame, Posted
    <3>4. Posted(T, h) = {}
      BY <3>1 DEF Posted
    <3>. QED
      BY <2>1, <3>2, <3>3, <3>4
  <2>2. CASE r.addrs # <<>>
    <3>1. UnpostedTo(own, UnpostAll(own, r), h, left)
      BY <1>1, <2>2, UnpostResult
    <3>2. UnpostedTo(own, T, h, left)
      BY <3>1
    <3>. QED
      BY <2>2, <3>2 DEF UnpostedTo
  <2>. QED
    BY <2>1, <2>2
<1>4. \A x \in AddrsOf(own, h) : x \in left <=> x.addr \notin R!Range(r.addrs)
  BY DEF R!Range
<1>. HIDE DEF h, T, left
<1>5. left \subseteq AddrsOf(own, h)
  BY DEF left
<1>6. CASE h \notin DOMAIN Reg
  <2>1. Posted(own, h) = {} /\ AddrsOf(own, h) = {}
    BY <1>2, <1>6, RegOfAddrs
  <2>2. \A s \in own : s.hash # h
    BY <2>1 DEF Posted
  <2>3. Posted(T, h) = {}
    <3>1. ASSUME r.addrs # <<>>, NEW t \in T, t.hash = h PROVE FALSE
      BY <1>3, <2>2, <3>1 DEF UnpostedTo
    <3>. QED
      BY <1>3, <3>1 DEF Posted
  <2>4. Reg' = R!Without(Reg, h)
    BY <1>2, <1>3, <2>3, RegWithout
  <2>5. R!Without(Reg, h) = Reg
    <3>1. Reg = [k \in DOMAIN Reg |-> Reg[k]]
      BY DEF Reg
    <3>2. DOMAIN Reg \ {h} = DOMAIN Reg
      BY <1>6
    <3>. QED
      BY <3>1, <3>2 DEF R!Without
  <2>. QED
    BY <1>3, <1>6, <2>4, <2>5 DEF R!Unpost, h, T
<1>7. CASE h \in DOMAIN Reg
  <2>1. PICK s \in own : s.hash = h /\ Reg[h] = [proto |-> s.proto, addrs |-> AddrsOf(own, h)]
    BY <1>2, <1>7, RegOfAddrs
  <2>2. {x \in Reg[h].addrs : x.addr \notin R!Range(r.addrs)} = left
    BY <1>4, <1>5, <2>1
  <2>3. CASE r.addrs = <<>> \/ left = {}
    <3>1. Posted(T, h) = {}
      <4>1. ASSUME r.addrs # <<>>, NEW t \in T, t.hash = h PROVE FALSE
        <5>1. t.addrs = {}
          BY <1>3, <2>3, <4>1 DEF UnpostedTo
        <5>. QED
          BY <1>3, <4>1, <5>1, TheAddrs
      <4>. QED
        BY <1>3, <4>1 DEF Posted
    <3>2. Reg' = R!Without(Reg, h)
      BY <1>2, <1>3, <3>1, RegWithout
    <3>. QED
      BY <1>3, <1>7, <2>2, <2>3, <3>2 DEF R!Unpost, h, T
  <2>4. CASE r.addrs # <<>> /\ left # {}
    <3>1. PICK t \in T : t.hash = h
      BY <1>3, <2>4 DEF UnpostedTo, Posted
    <3>2. t.addrs = left /\ t.proto = s.proto
      <4>1. \A x \in own : x.hash = h => x = s
        BY <2>1 DEF OwnSets, OneEach
      <4>. QED
        BY <1>3, <2>4, <3>1, <4>1 DEF UnpostedTo
    <3>3. Reg' = R!With(Reg, h, [proto |-> s.proto, addrs |-> left])
      BY <1>2, <1>3, <3>1, <3>2, RegWith
    <3>4. [Reg[h] EXCEPT !.addrs = left] = [proto |-> s.proto, addrs |-> left]
      BY <2>1
    <3>. QED
      BY <1>3, <1>7, <2>2, <2>4, <3>3, <3>4 DEF R!Unpost, h, T
  <2>. QED
    BY <2>3, <2>4
<1>. QED
  BY <1>6, <1>7

-----------------------------------------------------------------------------
(* What the steps keep of the invariant                                    *)

(* A request that a client sends arrives.                                  *)
LEMMA SentArrives ==
    ASSUME NEW r \in Sent
    PROVE  r \in Requests /\ ValidArgs(r) /\ UnpackCmd(PackCmd(r)) = r
<1>1. r \in Requests /\ Fits(PackContent(r)) /\ ValidArgs(r)
  BY ControlAssumption DEF Sent
<1>. QED
  BY <1>1, CommandsArrive

(* The services that a daemon may answer about are services.               *)
LEMMA VersionIsService ==
    ASSUME NEW s \in OwnSrvc
    PROVE  Version(s) \in Services
BY DEF OwnSrvc, Version, Services

LEMMA UnknownIsService ==
    ASSUME NEW h \in Hashes
    PROVE  Unknown(h) \in Services /\ Unknown(h).hash = h
<1>1. {} \in SrvcAddrs
  <2>1. IsFiniteSet({}) /\ Cardinality({}) = 0
    BY FS_EmptySet
  <2>2. Cardinality({}) =< MaxSrvcAddrs
    BY <2>1, SrvcInfoAssumption
  <2>. QED
    BY <2>1, <2>2 DEF SrvcAddrs
<1>. QED
  BY <1>1 DEF Unknown, Services

LEMMA AnswerTruthful ==
    ASSUME NEW cmd \in {"find_service", "probe_service"}, NEW s \in Services, NEW known,
           s \in known \cup Remote \cup {Unknown(s.hash)}
    PROVE  Truthful(Answer(cmd, s), known)
<1> DEFINE rsp == UnpackRsp(Answer(cmd, s))
<1>1. rsp.hash = s.hash /\ rsp.proto = s.proto /\ ToSet(rsp.entries) = s.addrs
  BY AnswersArrive
<1>2. [hash |-> s.hash, proto |-> s.proto, addrs |-> s.addrs] = s
  BY DEF Services
<1>. HIDE DEF rsp
<1>3. /\ [hash |-> rsp.hash, proto |-> rsp.proto, addrs |-> ToSet(rsp.entries)] = s
      /\ Unknown(rsp.hash) = Unknown(s.hash)
  BY <1>1, <1>2
<1>. QED
  BY <1>3 DEF rsp, Truthful

LEMMA TruthfulLater ==
    ASSUME NEW d, NEW known, NEW more, known \subseteq more, Truthful(d, known)
    PROVE  Truthful(d, more)
BY DEF Truthful

(* The clients stand still.                                                *)
LEMMA ClientsKept ==
    ASSUME ClientsInv, Served, UNCHANGED clientVars, versions \subseteq versions'
    PROVE  ClientsInv' /\ Served'
<1>1. pc' = pc /\ call' = call /\ buf' = buf /\ got' = got
  BY DEF clientVars
<1>2. ClientsInv'
  BY <1>1, TruthfulLater DEF ClientsInv
<1>3. Served'
  BY <1>1 DEF Served
<1>. QED
  BY <1>2, <1>3

(* The daemon stands still.                                                *)
LEMMA DaemonKept ==
    ASSUME DaemonInv, UNCHANGED daemonVars
    PROVE  DaemonInv'
BY DEF DaemonInv, daemonVars

(* A call ends.                                                            *)
Serves(c, rsp) ==
    /\ Asks(call[c]) /\ rsp.cid = CmdId[call[c].cmd] /\ rsp.hash = call[c].hash
    /\ [hash |-> rsp.hash, proto |-> rsp.proto, addrs |-> ToSet(rsp.entries)]
         \in versions \cup Remote \cup {Unknown(rsp.hash)}

LEMMA ReturnKeeps ==
    ASSUME ClientsInv, Served, NEW c \in Clients, NEW result, Return(c, result),
           result # NoResult => Serves(c, result), versions' = versions
    PROVE  ClientsInv' /\ Served'
<1>1. /\ pc' = [pc EXCEPT ![c] = "idle"] /\ buf' = [buf EXCEPT ![c] = <<>>]
      /\ got' = [got EXCEPT ![c] = result]
      /\ call' = [call EXCEPT ![c] = IF result = NoResult THEN NoCall ELSE @]
  BY DEF Return
<1>2. DOMAIN pc = Clients /\ DOMAIN call = Clients /\ DOMAIN buf = Clients /\ DOMAIN got = Clients
  BY DEF ClientsInv
<1>3. /\ pc'[c] = "idle" /\ buf'[c] = <<>> /\ got'[c] = result
      /\ result # NoResult => call'[c] = call[c]
      /\ \A d \in Clients : d # c => pc'[d] = pc[d] /\ buf'[d] = buf[d] /\ got'[d] = got[d] /\ call'[d] = call[d]
  BY <1>1, <1>2
<1>4. DOMAIN pc' = Clients /\ DOMAIN call' = Clients /\ DOMAIN buf' = Clients /\ DOMAIN got' = Clients
  BY <1>1, <1>2
<1>5. ClientsInv'
  BY <1>3, <1>4 DEF ClientsInv
<1>6. ASSUME NEW d \in Clients, got'[d] # NoResult
      PROVE  /\ Asks(call'[d]) /\ got'[d].cid = CmdId[call'[d].cmd] /\ got'[d].hash = call'[d].hash
             /\ [hash |-> got'[d].hash, proto |-> got'[d].proto, addrs |-> ToSet(got'[d].entries)]
                  \in versions \cup Remote \cup {Unknown(got'[d].hash)}
  <2>1. CASE d = c
    BY <1>3, <1>6, <2>1 DEF Serves
  <2>2. CASE d # c
    BY <1>3, <1>6, <2>2 DEF Served
  <2>. QED
    BY <2>1, <2>2
<1>7. Served'
  BY <1>6 DEF Served
<1>. QED
  BY <1>5, <1>7

(* A client goes on in its call without its socket.                        *)
LEMMA PlaceKeeps ==
    ASSUME ClientsInv, Served, NEW c \in Clients, NEW place, pc' = [pc EXCEPT ![c] = place],
           call[c] \in Sent, place = "waiting" => Asks(call[c]),
           UNCHANGED <<call, buf, got, versions>>
    PROVE  ClientsInv' /\ Served'
<1>1. /\ DOMAIN pc' = Clients /\ pc'[c] = place
      /\ \A d \in Clients : d # c => pc'[d] = pc[d]
  BY DEF ClientsInv
<1>2. ClientsInv'
  BY <1>1 DEF ClientsInv
<1>3. Served'
  BY DEF Served
<1>. QED
  BY <1>2, <1>3

LEMMA CallKeeps ==
    ASSUME IInv, NEW c \in Clients, NEW r \in Calls[c], Call(c, r)
    PROVE  IInv'
<1>1. /\ pc[c] = "idle"
      /\ call' = [call EXCEPT ![c] = IF ValidArgs(r) THEN r ELSE NoCall]
      /\ got' = [got EXCEPT ![c] = NoResult]
      /\ pc' = [pc EXCEPT ![c] = IF ValidArgs(r) THEN "called" ELSE "idle"]
      /\ UNCHANGED <<buf, versions, daemonVars>>
  BY DEF Call, daemonVars
<1>2. DOMAIN pc = Clients /\ DOMAIN call = Clients /\ DOMAIN buf = Clients /\ DOMAIN got = Clients
  BY DEF IInv, ClientsInv
<1>3. /\ pc'[c] = (IF ValidArgs(r) THEN "called" ELSE "idle") /\ got'[c] = NoResult
      /\ call'[c] = (IF ValidArgs(r) THEN r ELSE NoCall)
      /\ \A d \in Clients : d # c => pc'[d] = pc[d] /\ got'[d] = got[d] /\ call'[d] = call[d]
  BY <1>1, <1>2
<1>4. DOMAIN pc' = Clients /\ DOMAIN call' = Clients /\ DOMAIN buf' = Clients /\ DOMAIN got' = Clients
  BY <1>1, <1>2
<1>5. ValidArgs(r) => r \in Sent
  BY DEF Sent
<1>6. ClientsInv'
  BY <1>1, <1>3, <1>4, <1>5 DEF IInv, ClientsInv
<1>7. Served'
  BY <1>1, <1>3 DEF IInv, Served
<1>8. DaemonInv'
  BY <1>1, DaemonKept DEF IInv
<1>. QED
  BY <1>6, <1>7, <1>8 DEF IInv

LEMMA UnlinkKeeps ==
    ASSUME IInv, NEW c \in Clients, Unlink(c)
    PROVE  IInv'
<1>1. call[c] \in Sent
  BY DEF IInv, ClientsInv, Unlink
<1>2. ClientsInv' /\ Served'
  BY <1>1, PlaceKeeps DEF IInv, Unlink, daemonVars
<1>3. DaemonInv'
  BY DaemonKept DEF IInv, Unlink
<1>. QED
  BY <1>2, <1>3 DEF IInv

LEMMA BindKeeps ==
    ASSUME IInv, NEW c \in Clients, Bind(c)
    PROVE  IInv'
<1>1. call[c] \in Sent
  BY DEF IInv, ClientsInv, Bind
<1>2. UNCHANGED daemonVars /\ versions' = versions
  BY DEF Bind, daemonVars
<1>3. ClientsInv' /\ Served'
  <2>1. CASE pc' = [pc EXCEPT ![c] = "bound"] /\ UNCHANGED <<call, buf, got>>
    BY <1>1, <1>2, <2>1, PlaceKeeps DEF IInv
  <2>2. CASE Return(c, NoResult)
    BY <1>2, <2>2, ReturnKeeps DEF IInv
  <2>. QED
    BY <2>1, <2>2 DEF Bind
<1>4. DaemonInv'
  BY <1>2, DaemonKept DEF IInv
<1>. QED
  BY <1>3, <1>4 DEF IInv

LEMMA SendToKeeps ==
    ASSUME IInv, NEW c \in Clients, SendTo(c)
    PROVE  IInv'
<1>1. call[c] \in Sent
  BY DEF IInv, ClientsInv, SendTo
<1>2. UNCHANGED <<outq, own, probes, versions>>
  BY DEF SendTo
<1>3. ClientsInv' /\ Served'
  <2>1. CASE AfterSend(c)
    <3>1. CASE Asks(call[c])
      BY <1>1, <1>2, <2>1, <3>1, PlaceKeeps DEF IInv, AfterSend
    <3>2. CASE ~Asks(call[c])
      BY <1>2, <2>1, <3>2, ReturnKeeps DEF IInv, AfterSend
    <3>. QED
      BY <3>1, <3>2
  <2>2. CASE Return(c, NoResult)
    BY <1>2, <2>2, ReturnKeeps DEF IInv
  <2>. QED
    BY <2>1, <2>2 DEF SendTo
<1>4. DaemonInv'
  <2>1. inq' = inq \/ inq' = Append(inq, [from |-> ClientPath[c], data |-> PackCmd(call[c]), req |-> call[c]])
    BY DEF SendTo
  <2> DEFINE Datagrams == {[from |-> ClientPath[d], data |-> PackCmd(r), req |-> r] : d \in Clients, r \in Sent}
             new == [from |-> ClientPath[c], data |-> PackCmd(call[c]), req |-> call[c]]
  <2>2. new \in Datagrams
    BY <1>1
  <2>3. inq \in Seq(Datagrams)
    BY DEF IInv, DaemonInv
  <2>. HIDE DEF Datagrams, new
  <2>4. inq' \in Seq(Datagrams)
    BY <2>1, <2>2, <2>3 DEF new
  <2>. QED
    BY <1>2, <2>4 DEF IInv, DaemonInv, Datagrams
<1>. QED
  BY <1>3, <1>4 DEF IInv

LEMMA RecvKeeps ==
    ASSUME IInv, NEW c \in Clients, Recv(c)
    PROVE  IInv'
<1> DEFINE rsp == UnpackRsp(buf[c])
           result == IF Accept(call[c], rsp) THEN rsp ELSE NoResult
<1>1. Return(c, result) /\ UNCHANGED daemonVars /\ versions' = versions
  BY DEF Recv, daemonVars
<1>2. Asks(call[c]) /\ Truthful(buf[c], versions)
  BY DEF IInv, ClientsInv, Recv
<1>3. result # NoResult => Serves(c, result)
  <2>1. CASE Accept(call[c], rsp)
    <3>1. result = rsp
      BY <2>1
    <3>2. rsp.cid = CmdId[call[c].cmd] /\ rsp.hash = call[c].hash
      BY <2>1 DEF Accept
    <3>3. [hash |-> rsp.hash, proto |-> rsp.proto, addrs |-> ToSet(rsp.entries)]
            \in versions \cup Remote \cup {Unknown(rsp.hash)}
      BY <1>2 DEF Truthful
    <3>. HIDE DEF rsp, result
    <3>. QED
      BY <1>2, <3>1, <3>2, <3>3 DEF Serves
  <2>2. CASE ~Accept(call[c], rsp)
    BY <2>2
  <2>. QED
    BY <2>1, <2>2
<1>. HIDE DEF result
<1>4. ClientsInv' /\ Served'
  BY <1>1, <1>3, ReturnKeeps DEF IInv
<1>5. DaemonInv'
  BY <1>1, DaemonKept DEF IInv
<1>. QED
  BY <1>4, <1>5 DEF IInv

LEMMA RecvTimeoutKeeps ==
    ASSUME IInv, NEW c \in Clients, RecvTimeout(c)
    PROVE  IInv'
<1>1. Return(c, NoResult) /\ UNCHANGED daemonVars /\ versions' = versions
  BY DEF RecvTimeout, daemonVars
<1>2. ClientsInv' /\ Served'
  BY <1>1, ReturnKeeps DEF IInv
<1>3. DaemonInv'
  BY <1>1, DaemonKept DEF IInv
<1>. QED
  BY <1>2, <1>3 DEF IInv

(* The daemon starts, or another one beside it: its queues and services    *)
(* are not touched.                                                        *)
LEMMA OtherKeeps ==
    ASSUME IInv, UNCHANGED <<clientVars, daemonVars>>
    PROVE  IInv'
<1>1. versions' = versions
  BY DEF daemonVars
<1>2. ClientsInv' /\ Served'
  BY <1>1, ClientsKept DEF IInv
<1>3. DaemonInv'
  BY DaemonKept DEF IInv
<1>. QED
  BY <1>2, <1>3 DEF IInv

LEMMA GoneKeeps ==
    ASSUME IInv, Gone
    PROVE  IInv'
<1>1. /\ inq' = <<>> /\ outq' = <<>> /\ own' = {} /\ probes' = <<>>
      /\ UNCHANGED clientVars /\ versions' = versions
  BY DEF Gone
<1>2. ClientsInv' /\ Served'
  BY <1>1, ClientsKept DEF IInv
<1>3. {} \in OwnSets
  BY DEF OwnSets, OneEach
<1>4. DaemonInv'
  BY <1>1, <1>3 DEF IInv, DaemonInv
<1>. QED
  BY <1>2, <1>4 DEF IInv

(* The services change: what they are now has been known since.            *)
LEMMA ChangedKeeps ==
    ASSUME DaemonInv, NEW S \in OwnSets, Changed(S)
    PROVE  /\ own' \in OwnSets /\ versions \subseteq versions' /\ versions' \subseteq Services
           /\ {Version(s) : s \in own'} \subseteq versions'
<1>1. own' = S /\ versions' = versions \cup {Version(s) : s \in S}
  BY DEF Changed
<1>2. \A s \in S : Version(s) \in Services
  BY VersionIsService DEF OwnSets
<1>3. versions \subseteq Services
  BY DEF DaemonInv
<1>. QED
  BY <1>1, <1>2, <1>3

(* An answer joins the queue.                                              *)
LEMMA AnswerQueued ==
    ASSUME DaemonInv, NEW c \in Clients, NEW cmd \in {"find_service", "probe_service"},
           NEW s \in Services, s \in versions \cup Remote \cup {Unknown(s.hash)},
           outq' = Append(outq, [to |-> ClientPath[c], data |-> Answer(cmd, s)])
    PROVE  outq' \in Seq(Mail) /\ \A k \in DOMAIN outq' : Truthful(outq'[k].data, versions)
<1> DEFINE a == [to |-> ClientPath[c], data |-> Answer(cmd, s)]
<1>1. Truthful(a.data, versions)
  BY AnswerTruthful
<1>2. a \in Mail
  BY DEF Mail
<1>3. outq \in Seq(Mail) /\ \A k \in DOMAIN outq : Truthful(outq[k].data, versions)
  BY DEF DaemonInv
<1>4. outq' = Append(outq, a)
  OBVIOUS
<1>. HIDE DEF a
<1>5. /\ outq' \in Seq(Mail) /\ DOMAIN outq' = 1 .. Len(outq) + 1
      /\ \A k \in 1 .. Len(outq) : outq'[k] = outq[k]
      /\ outq'[Len(outq) + 1] = a
  BY <1>2, <1>3, <1>4
<1>6. ASSUME NEW k \in DOMAIN outq' PROVE Truthful(outq'[k].data, versions)
  <2>1. Len(outq) \in Nat /\ DOMAIN outq = 1 .. Len(outq)
    BY <1>3
  <2>2. k \in 1 .. Len(outq) \/ k = Len(outq) + 1
    BY <1>5, <2>1
  <2>. QED
    BY <1>1, <1>3, <1>5, <2>1, <2>2
<1>. QED
  BY <1>5, <1>6

(* The datagram that is read next: what it asks for arrives.               *)
LEMMA NextDatagram ==
    ASSUME DaemonInv, inq # <<>>
    PROVE  /\ Head(inq).req \in Sent
           /\ UnpackCmd(Head(inq).data) = Head(inq).req
           /\ \E c \in Clients : Head(inq).from = ClientPath[c]
           /\ Tail(inq) \in Seq({[from |-> ClientPath[c], data |-> PackCmd(r), req |-> r] :
                                  c \in Clients, r \in Sent})
<1> DEFINE Datagrams == {[from |-> ClientPath[c], data |-> PackCmd(r), req |-> r] : c \in Clients, r \in Sent}
<1>1. inq \in Seq(Datagrams)
  BY DEF DaemonInv
<1>. HIDE DEF Datagrams
<1>2. Head(inq) \in Datagrams /\ Tail(inq) \in Seq(Datagrams)
  BY <1>1
<1>3. PICK c \in Clients, r \in Sent : Head(inq) = [from |-> ClientPath[c], data |-> PackCmd(r), req |-> r]
  BY <1>2 DEF Datagrams
<1>4. UnpackCmd(PackCmd(r)) = r
  BY SentArrives
<1>5. Head(inq).req = r /\ Head(inq).data = PackCmd(r) /\ Head(inq).from = ClientPath[c]
  BY <1>3
<1>. QED
  BY <1>2, <1>4, <1>5 DEF Datagrams

(* The kinds of requests by their commands                                 *)
LEMMA KindByCmd ==
    ASSUME NEW r \in Requests
    PROVE  /\ r.cmd = "post_service" => r \in PostRequests
           /\ r.cmd = "unpost_service" => r \in UnpostRequests
           /\ r.cmd \in {"find_service", "probe_service"} => r \in AskRequests
<1>1. r \in HostRequests \/ r \in JoinRequests \/ r \in QueryRequests
      \/ r \in PostRequests \/ r \in UnpostRequests \/ r \in AskRequests
  BY KindsOfRequests
<1>. QED
  BY <1>1 DEF HostRequests, JoinRequests, QueryRequests, PostRequests, UnpostRequests, AskRequests

(* What a post makes of the services                                       *)
LEMMA PostKeeps ==
    ASSUME NEW r \in Sent, r.cmd = "post_service", own \in OwnSets
    PROVE  r \in PostRequests /\ Len(r.entries) >= 1 /\ PostAll(own, r) \in OwnSets
<1>1. r \in PostRequests /\ ValidArgs(r)
  BY SentArrives, KindByCmd
<1>2. r.hash \in Hashes /\ r.proto \in Nat /\ r.entries \in Seq(VAddrs)
  BY <1>1 DEF PostRequests
<1>3. Len(r.entries) >= 1
  BY <1>1, SrvcInfoAssumption DEF ValidArgs
<1>. QED
  BY <1>1, <1>2, <1>3, PostResult

LEMMA UnpostKeeps ==
    ASSUME NEW r \in Sent, r.cmd = "unpost_service", own \in OwnSets
    PROVE  r \in UnpostRequests /\ UnpostAll(own, r) \in OwnSets
<1>1. r \in UnpostRequests
  BY SentArrives, KindByCmd
<1>2. r.hash \in Hashes /\ r.addrs \in Seq(SockAddrs)
  BY <1>1 DEF UnpostRequests
<1>3. CASE r.addrs = <<>>
  <2>1. UnpostAll(own, r) \subseteq own
    BY <1>3 DEF UnpostAll, SrvcUnpostExt
  <2>. QED
    BY <1>1, <2>1 DEF OwnSets, OneEach
<1>4. CASE r.addrs # <<>>
  BY <1>1, <1>2, <1>4, UnpostResult DEF UnpostedTo
<1>. QED
  BY <1>1, <1>3, <1>4

LEMMA RcvKeeps ==
    ASSUME IInv, Rcv
    PROVE  IInv'
<1> DEFINE r == UnpackCmd(Head(inq).data)
           from == Head(inq).from
           Datagrams == {[from |-> ClientPath[c], data |-> PackCmd(q), req |-> q] : c \in Clients, q \in Sent}
<1>1. inq # <<>> /\ inq' = Tail(inq) /\ UNCHANGED clientVars
  BY DEF Rcv
<1>2. /\ r \in Sent /\ \E c \in Clients : from = ClientPath[c]
      /\ Tail(inq) \in Seq(Datagrams)
  BY <1>1, NextDatagram DEF IInv
<1>3. inq' \in Seq(Datagrams)
  BY <1>1, <1>2
<1>4. \/ ExecHostCmd(r) \/ ExecHostExit(r) \/ ExecNodeCmd(r)
      \/ ExecPostService(r) \/ ExecUnpostService(r)
      \/ ExecFindService(r, from) \/ ExecProbeService(r, from)
  BY DEF Rcv
<1>. HIDE DEF r, from, Datagrams
<1>5. /\ outq \in Seq(Mail) /\ \A k \in DOMAIN outq : Truthful(outq[k].data, versions)
      /\ probes \in Seq([hash : Hashes, from : {ClientPath[c] : c \in Clients}])
      /\ own \in OwnSets /\ {Version(s) : s \in own} \subseteq versions /\ versions \subseteq Services
  BY DEF IInv, DaemonInv
<1>6. CASE ExecHostCmd(r) \/ ExecHostExit(r) \/ ExecNodeCmd(r)
  <2>1. UNCHANGED <<outq, own, probes, versions>>
    BY <1>6 DEF ExecHostCmd, ExecHostExit, ExecNodeCmd
  <2>2. DaemonInv'
    BY <1>3, <1>5, <2>1 DEF DaemonInv, Datagrams
  <2>. QED
    BY <1>1, <2>1, <2>2, ClientsKept DEF IInv
<1>7. CASE ExecPostService(r) \/ ExecUnpostService(r)
  <2>1. UNCHANGED <<outq, probes>>
    BY <1>7 DEF ExecPostService, ExecUnpostService
  <2>2. \E S \in OwnSets : Changed(S)
    BY <1>2, <1>5, <1>7, PostKeeps, UnpostKeeps DEF ExecPostService, ExecUnpostService
  <2>3. /\ own' \in OwnSets /\ versions \subseteq versions' /\ versions' \subseteq Services
        /\ {Version(s) : s \in own'} \subseteq versions'
    BY <2>2, ChangedKeeps DEF IInv
  <2>4. \A k \in DOMAIN outq' : Truthful(outq'[k].data, versions')
    BY <1>5, <2>1, <2>3, TruthfulLater
  <2>5. DaemonInv'
    BY <1>3, <1>5, <2>1, <2>3, <2>4 DEF DaemonInv, Datagrams
  <2>. QED
    BY <1>1, <2>3, <2>5, ClientsKept DEF IInv
<1>8. CASE ExecFindService(r, from)
  <2>1. r.cmd = "find_service" /\ UNCHANGED <<own, probes, versions>>
    BY <1>8 DEF ExecFindService
  <2>2. r.hash \in Hashes
    BY <1>2, <2>1, SentArrives, KindByCmd DEF AskRequests
  <2> DEFINE mine == {Version(s) : s \in Posted(own, r.hash)}
             found == IF mine # {} THEN mine ELSE Posted(Remote, r.hash) \cup {Unknown(r.hash)}
  <2>3. PICK s \in found : outq' = Append(outq, [to |-> from, data |-> Answer(r.cmd, s)])
    BY <1>8 DEF ExecFindService
  <2>4. s \in versions \cup Remote \cup {Unknown(r.hash)}
    <3>1. mine \subseteq versions
      BY <1>5 DEF Posted
    <3>. QED
      BY <3>1 DEF Posted
  <2>5. s \in Services /\ s \in versions \cup Remote \cup {Unknown(s.hash)}
    BY <1>5, <2>2, <2>4, UnknownIsService, ControlAssumption
  <2>6. outq' \in Seq(Mail) /\ \A k \in DOMAIN outq' : Truthful(outq'[k].data, versions)
    <3>1. PICK c \in Clients : from = ClientPath[c]
      BY <1>2
    <3>2. outq' = Append(outq, [to |-> ClientPath[c], data |-> Answer("find_service", s)])
      BY <2>1, <2>3, <3>1
    <3>. HIDE DEF found
    <3>. QED
      BY <2>5, <3>2, AnswerQueued DEF IInv
  <2>7. DaemonInv'
    BY <1>3, <1>5, <2>1, <2>6 DEF DaemonInv, Datagrams
  <2>. QED
    BY <1>1, <2>1, <2>7, ClientsKept DEF IInv
<1>9. CASE ExecProbeService(r, from)
  <2>1. /\ r.cmd = "probe_service" /\ UNCHANGED <<outq, own, versions>>
        /\ probes' = Append(probes, [hash |-> r.hash, from |-> from])
    BY <1>9 DEF ExecProbeService
  <2>2. r.hash \in Hashes
    BY <1>2, <2>1, SentArrives, KindByCmd DEF AskRequests
  <2>3. probes' \in Seq([hash : Hashes, from : {ClientPath[c] : c \in Clients}])
    BY <1>2, <1>5, <2>1, <2>2
  <2>4. DaemonInv'
    BY <1>3, <1>5, <2>1, <2>3 DEF DaemonInv, Datagrams
  <2>. QED
    BY <1>1, <2>1, <2>4, ClientsKept DEF IInv
<1>. QED
  BY <1>4, <1>6, <1>7, <1>8, <1>9

LEMMA ProbeDoneKeeps ==
    ASSUME IInv, NEW k \in DOMAIN probes,
           NEW s \in Remote \cup {Unknown(probes[j].hash) : j \in DOMAIN probes}, ProbeDone(k, s)
    PROVE  IInv'
<1> DEFINE Probes == [hash : Hashes, from : {ClientPath[c] : c \in Clients}]
<1>1. /\ probes' = RemoveAt(probes, k)
      /\ \/ \E c \in Clients :
              outq' = Append(outq, [to |-> ClientPath[c], data |-> Answer("probe_service", s)])
         \/ UNCHANGED outq
      /\ UNCHANGED <<clientVars, inq, own, versions>>
  BY DEF ProbeDone
<1>2. probes \in Seq(Probes) /\ \A j \in DOMAIN probes : probes[j] \in Probes
  <2>1. probes \in Seq(Probes)
    BY DEF IInv, DaemonInv
  <2>. HIDE DEF Probes
  <2>. QED
    BY <2>1
<1>3. s \in Services /\ s \in versions \cup Remote \cup {Unknown(s.hash)}
  BY <1>2, UnknownIsService, ControlAssumption
<1>4. probes' \in Seq(Probes)
  <2>1. k \in 1 .. Len(probes) /\ Len(probes) \in Nat
    BY <1>2
  <2>. HIDE DEF Probes
  <2>2. SubSeq(probes, 1, k - 1) \in Seq(Probes) /\ SubSeq(probes, k + 1, Len(probes)) \in Seq(Probes)
    BY <1>2, <2>1
  <2>. QED
    BY <1>1, <2>2 DEF RemoveAt
<1>5. outq' \in Seq(Mail) /\ \A j \in DOMAIN outq' : Truthful(outq'[j].data, versions)
  <2>1. ASSUME NEW c \in Clients,
               outq' = Append(outq, [to |-> ClientPath[c], data |-> Answer("probe_service", s)])
        PROVE  outq' \in Seq(Mail) /\ \A j \in DOMAIN outq' : Truthful(outq'[j].data, versions)
    BY <1>3, <2>1, AnswerQueued DEF IInv
  <2>2. CASE UNCHANGED outq
    BY <2>2 DEF IInv, DaemonInv
  <2>. QED
    BY <1>1, <2>1, <2>2
<1>6. DaemonInv'
  BY <1>1, <1>4, <1>5 DEF IInv, DaemonInv
<1>. QED
  BY <1>1, <1>6, ClientsKept DEF IInv

LEMMA SndKeeps ==
    ASSUME IInv, Snd
    PROVE  IInv'
<1> DEFINE c == paths[Head(outq).to]
<1>1. /\ outq # <<>> /\ outq' = Tail(outq)
      /\ buf' = IF c # Nobody /\ buf[c] = <<>> THEN [buf EXCEPT ![c] = Head(outq).data] ELSE buf
      /\ UNCHANGED <<pc, call, got, inq, own, probes, versions>>
  BY DEF Snd
<1>2. outq \in Seq(Mail) /\ \A k \in DOMAIN outq : Truthful(outq[k].data, versions)
  BY DEF IInv, DaemonInv
<1>3. Truthful(Head(outq).data, versions)
  BY <1>1, <1>2
<1>4. outq' \in Seq(Mail) /\ \A k \in DOMAIN outq' : Truthful(outq'[k].data, versions)
  <2>1. /\ outq' \in Seq(Mail)
        /\ \A k \in DOMAIN outq' : k + 1 \in DOMAIN outq /\ outq'[k] = outq[k + 1]
    BY <1>1, <1>2
  <2>. QED
    BY <1>2, <2>1
<1>. HIDE DEF c
<1>5. DOMAIN buf' = Clients /\ \A d \in Clients : buf'[d] = buf[d] \/ buf'[d] = Head(outq).data
  BY <1>1 DEF IInv, ClientsInv
<1>6. ClientsInv'
  BY <1>1, <1>3, <1>5 DEF IInv, ClientsInv
<1>7. Served'
  BY <1>1 DEF IInv, Served
<1>8. DaemonInv'
  BY <1>1, <1>4 DEF IInv, DaemonInv
<1>. QED
  BY <1>6, <1>7, <1>8 DEF IInv

LEMMA InitKeeps ==
    ASSUME Init
    PROVE  IInv
<1>1. ClientsInv /\ Served
  BY DEF Init, ClientsInv, Served
<1>2. {} \in OwnSets
  BY DEF OwnSets, OneEach
<1>3. DaemonInv
  BY <1>2 DEF Init, DaemonInv
<1>. QED
  BY <1>1, <1>3 DEF IInv

LEMMA NextKeeps ==
    ASSUME IInv, [Next]_vars
    PROVE  IInv'
<1>1. CASE UNCHANGED vars
  BY <1>1, OtherKeeps DEF vars
<1>2. ASSUME NEW c \in Clients, ClientStep(c) PROVE IInv'
  BY <1>2, UnlinkKeeps, BindKeeps, SendToKeeps, RecvKeeps, RecvTimeoutKeeps DEF ClientStep
<1>3. ASSUME NEW c \in Clients, NEW r \in Calls[c], Call(c, r) PROVE IInv'
  BY <1>3, CallKeeps
<1>4. ASSUME NEW read \in Loaded, ReadConfig(read) PROVE IInv'
  BY <1>4, OtherKeeps DEF ReadConfig
<1>5. CASE OpenSocket
  BY <1>5, OtherKeeps DEF OpenSocket
<1>6. CASE Run
  BY <1>6, OtherKeeps, GoneKeeps DEF Run
<1>7. CASE StrayStart \/ StrayExit
  BY <1>7, OtherKeeps DEF StrayStart, StrayExit
<1>8. CASE Crash \/ Quit
  BY <1>8, GoneKeeps DEF Crash, Quit
<1>9. CASE Rcv
  BY <1>9, RcvKeeps
<1>10. CASE Snd
  BY <1>10, SndKeeps
<1>11. ASSUME NEW k \in DOMAIN probes,
              NEW s \in Remote \cup {Unknown(probes[j].hash) : j \in DOMAIN probes}, ProbeDone(k, s)
       PROVE  IInv'
  BY <1>11, ProbeDoneKeeps
<1>. QED
  BY <1>1, <1>2, <1>3, <1>4, <1>5, <1>6, <1>7, <1>8, <1>9, <1>10, <1>11 DEF Next

(* What a call of the library delivers to its callbacks answers its own    *)
(* question with what the daemon knew at some time (Served), for any       *)
(* clients, calls and datagrams in flight.                                 *)
THEOREM AnswersAreServed ==
    Spec => []Served
<1>1. Init => IInv
  BY InitKeeps
<1>2. IInv /\ [Next]_vars => IInv'
  BY NextKeeps
<1>3. IInv => Served
  BY DEF IInv
<1>. QED
  BY <1>1, <1>2, <1>3, PTL DEF Spec

-----------------------------------------------------------------------------
(* The registry is implemented                                             *)

Reqs(q) == [k \in DOMAIN q |-> q[k].req]

LEMMA ReqsOfTodo ==
    Todo = Reqs(inq) /\ Todo' = Reqs(inq')
BY DEF Todo, Reqs

LEMMA ReqsAppend ==
    ASSUME NEW D, NEW q \in Seq(D), NEW x \in D
    PROVE  Reqs(Append(q, x)) = Append(Reqs(q), x.req)
<1> DEFINE n == Len(q)
           E == {d.req : d \in D}
           a == Append(q, x)
           b == Append(Reqs(q), x.req)
<1>1. n \in Nat /\ DOMAIN q = 1 .. n /\ \A k \in 1 .. n : q[k] \in D
  OBVIOUS
<1>2. Reqs(q) \in [1 .. n -> E]
  BY <1>1 DEF Reqs
<1>3. Reqs(q) \in Seq(E) /\ Len(Reqs(q)) = n
  BY <1>1, <1>2, IsSeq
<1>4. x.req \in E
  OBVIOUS
<1>5. /\ a \in Seq(D) /\ DOMAIN a = 1 .. n + 1
      /\ \A k \in 1 .. n : a[k] = q[k]
      /\ a[n + 1] = x
  OBVIOUS
<1>. HIDE DEF n, E
<1>6. /\ b \in Seq(E) /\ Len(b) = n + 1
      /\ \A k \in 1 .. n : b[k] = Reqs(q)[k]
      /\ b[n + 1] = x.req
  BY <1>3, <1>4, AppendProperties
<1>7. b = [k \in 1 .. n + 1 |-> b[k]]
  BY <1>6
<1>. HIDE DEF a, b
<1>8. \A k \in 1 .. n + 1 : a[k].req = b[k]
  <2>1. ASSUME NEW k \in 1 .. n PROVE a[k].req = b[k]
    BY <1>1, <1>5, <1>6 DEF Reqs
  <2>2. \A k \in 1 .. n + 1 : k \in 1 .. n \/ k = n + 1
    BY <1>1
  <2>. QED
    BY <1>5, <1>6, <2>1, <2>2
<1>9. Reqs(a) = [k \in 1 .. n + 1 |-> a[k].req]
  BY <1>5 DEF Reqs
<1>. QED
  BY <1>7, <1>8, <1>9 DEF a, b

LEMMA ReqsTail ==
    ASSUME NEW D, NEW q \in Seq(D), q # <<>>
    PROVE  /\ Reqs(q) # <<>>
           /\ Reqs(Tail(q)) = Tail(Reqs(q))
           /\ Head(Reqs(q)) = Head(q).req
<1> DEFINE n == Len(q)
           E == {d.req : d \in D}
           a == Tail(q)
           b == Tail(Reqs(q))
<1>1. n \in Nat \ {0} /\ DOMAIN q = 1 .. n /\ \A k \in 1 .. n : q[k] \in D
  OBVIOUS
<1>2. Reqs(q) \in [1 .. n -> E]
  BY <1>1 DEF Reqs
<1>3. Reqs(q) \in Seq(E) /\ Len(Reqs(q)) = n
  BY <1>1, <1>2, IsSeq
<1>4. /\ a \in Seq(D) /\ DOMAIN a = 1 .. n - 1
      /\ \A k \in 1 .. n - 1 : a[k] = q[k + 1]
      /\ Head(q) = q[1]
  OBVIOUS
<1>. HIDE DEF n, E
<1>5. Reqs(q) # <<>>
  BY <1>1, <1>3
<1>6. /\ Head(Reqs(q)) = Reqs(q)[1] /\ b \in Seq(E) /\ Len(b) = n - 1
      /\ \A k \in 1 .. n - 1 : b[k] = Reqs(q)[k + 1]
  BY <1>1, <1>3, <1>5, HeadTailProperties
<1>. HIDE DEF a, b
<1>7. b = [k \in 1 .. n - 1 |-> b[k]]
  BY <1>6
<1>8. \A k \in 1 .. n - 1 : k + 1 \in 1 .. n
  BY <1>1
<1>9. \A k \in 1 .. n - 1 : a[k].req = b[k]
  BY <1>1, <1>4, <1>6, <1>8 DEF Reqs
<1>10. Reqs(a) = [k \in 1 .. n - 1 |-> a[k].req]
  BY <1>4 DEF Reqs
<1>11. 1 \in DOMAIN q
  BY <1>1
<1>12. Head(Reqs(q)) = Head(q).req
  BY <1>4, <1>6, <1>11 DEF Reqs
<1>. QED
  BY <1>5, <1>7, <1>9, <1>10, <1>12 DEF a, b

LEMMA RegOfNone ==
    RegOf({}) = <<>>
<1>1. {s.hash : s \in {}} = {}
  OBVIOUS
<1>. QED
  BY <1>1 DEF RegOf

LEMMA RegKept ==
    ASSUME own' = own
    PROVE  Reg' = Reg
BY DEF Reg

(* The steps that the registry does not see                                *)
LEMMA StutterStep ==
    ASSUME own' = own, inq' = inq
    PROVE  UNCHANGED R!vars
BY RegKept DEF R!vars, Todo

LEMMA EndStep ==
    ASSUME own' = {}, inq' = <<>>
    PROVE  R!End
<1>1. Reg' = <<>>
  BY RegOfNone, RegNextIs
<1>2. Todo' = <<>>
  BY DEF Todo
<1>. QED
  BY <1>1, <1>2 DEF R!End

LEMMA SubmitStep ==
    ASSUME IInv, NEW c \in Clients, SendTo(c)
    PROVE  R!Submit \/ UNCHANGED R!vars
<1>1. own' = own
  BY DEF SendTo
<1>2. CASE inq' = inq
  BY <1>1, <1>2, StutterStep
<1>3. CASE inq' # inq
  <2> DEFINE Datagrams == {[from |-> ClientPath[d], data |-> PackCmd(r), req |-> r] : d \in Clients, r \in Sent}
             new == [from |-> ClientPath[c], data |-> PackCmd(call[c]), req |-> call[c]]
  <2>1. inq' = Append(inq, new)
    BY <1>3 DEF SendTo
  <2>2. call[c] \in Sent
    BY DEF SendTo, IInv, ClientsInv
  <2>3. inq \in Seq(Datagrams) /\ new \in Datagrams /\ new.req = call[c]
    BY <2>2 DEF IInv, DaemonInv
  <2>. HIDE DEF Datagrams, new
  <2>4. Todo' = Append(Todo, call[c])
    BY <2>1, <2>3, ReqsAppend, ReqsOfTodo
  <2>5. call[c] \in UNION {Calls[d] : d \in Clients}
    BY <2>2 DEF Sent
  <2>6. Reg' = Reg
    BY <1>1, RegKept
  <2>. QED
    BY <2>4, <2>5, <2>6 DEF R!Submit
<1>. QED
  BY <1>2, <1>3

(* A request is carried out.                                               *)
LEMMA ExecuteStep ==
    ASSUME IInv, Rcv
    PROVE  R!Execute
<1> DEFINE r == UnpackCmd(Head(inq).data)
           from == Head(inq).from
           Datagrams == {[from |-> ClientPath[c], data |-> PackCmd(q), req |-> q] : c \in Clients, q \in Sent}
<1>1. inq # <<>> /\ inq' = Tail(inq)
  BY DEF Rcv
<1>2. r \in Sent /\ r = Head(inq).req
  BY <1>1, NextDatagram DEF IInv
<1>3. inq \in Seq(Datagrams) /\ own \in OwnSets
  BY DEF IInv, DaemonInv
<1>4. \/ ExecHostCmd(r) \/ ExecHostExit(r) \/ ExecNodeCmd(r)
      \/ ExecPostService(r) \/ ExecUnpostService(r)
      \/ ExecFindService(r, from) \/ ExecProbeService(r, from)
  BY DEF Rcv
<1>. HIDE DEF r, from, Datagrams
<1>5. Todo # <<>> /\ Todo' = Tail(Todo) /\ Head(Todo) = r
  BY <1>1, <1>2, <1>3, ReqsTail, ReqsOfTodo
<1>6. CASE ExecPostService(r)
  <2>1. r.cmd = "post_service" /\ own' = PostAll(own, r)
    BY <1>6 DEF ExecPostService, Changed
  <2>2. R!Post(r)
    BY <1>2, <1>3, <2>1, PostKeeps, PostImplements
  <2>. QED
    BY <1>5, <2>1, <2>2 DEF R!Execute
<1>7. CASE ExecUnpostService(r)
  <2>1. r.cmd = "unpost_service" /\ own' = UnpostAll(own, r)
    BY <1>7 DEF ExecUnpostService, Changed
  <2>2. R!Unpost(r)
    BY <1>2, <1>3, <2>1, UnpostKeeps, UnpostImplements
  <2>. QED
    BY <1>5, <2>1, <2>2 DEF R!Execute
<1>8. CASE ExecHostCmd(r) \/ ExecHostExit(r) \/ ExecNodeCmd(r) \/ ExecFindService(r, from) \/ ExecProbeService(r, from)
  <2>1. own' = own /\ r.cmd # "post_service" /\ r.cmd # "unpost_service"
    BY <1>8 DEF ExecHostCmd, ExecHostExit, ExecNodeCmd, ExecFindService, ExecProbeService
  <2>2. Reg' = Reg
    BY <2>1, RegKept
  <2>. QED
    BY <1>5, <2>1, <2>2 DEF R!Execute
<1>. QED
  BY <1>4, <1>6, <1>7, <1>8

LEMMA StepImplements ==
    ASSUME IInv, [Next]_vars
    PROVE  [R!Next]_R!vars
<1>1. CASE UNCHANGED vars
  BY <1>1, StutterStep DEF vars, daemonVars
<1>2. ASSUME NEW c \in Clients, ClientStep(c) PROVE [R!Next]_R!vars
  <2>1. CASE SendTo(c)
    BY <2>1, SubmitStep DEF R!Next
  <2>2. CASE Unlink(c) \/ Bind(c) \/ Recv(c) \/ RecvTimeout(c)
    BY <2>2, StutterStep DEF Unlink, Bind, Recv, RecvTimeout, daemonVars
  <2>. QED
    BY <1>2, <2>1, <2>2 DEF ClientStep
<1>3. ASSUME NEW c \in Clients, NEW r \in Calls[c], Call(c, r) PROVE [R!Next]_R!vars
  BY <1>3, StutterStep DEF Call, daemonVars
<1>4. ASSUME NEW read \in Loaded, ReadConfig(read) PROVE [R!Next]_R!vars
  BY <1>4, StutterStep DEF ReadConfig, daemonVars
<1>5. CASE OpenSocket \/ StrayStart \/ StrayExit
  BY <1>5, StutterStep DEF OpenSocket, StrayStart, StrayExit, daemonVars
<1>6. CASE Run
  BY <1>6, StutterStep, EndStep DEF Run, Gone, daemonVars, R!Next
<1>7. CASE Crash \/ Quit
  BY <1>7, EndStep DEF Crash, Quit, Gone, R!Next
<1>8. CASE Rcv
  BY <1>8, ExecuteStep DEF R!Next
<1>9. CASE Snd
  BY <1>9, StutterStep DEF Snd
<1>10. ASSUME NEW k \in DOMAIN probes,
              NEW s \in Remote \cup {Unknown(probes[j].hash) : j \in DOMAIN probes}, ProbeDone(k, s)
       PROVE  [R!Next]_R!vars
  BY <1>10, StutterStep DEF ProbeDone
<1>. QED
  BY <1>1, <1>2, <1>3, <1>4, <1>5, <1>6, <1>7, <1>8, <1>9, <1>10 DEF Next

LEMMA InitImplements ==
    ASSUME Init
    PROVE  R!Init
<1>1. Reg = <<>>
  BY RegOfNone, RegOfOwn DEF Init
<1>2. Todo = <<>>
  BY DEF Todo, Init
<1>. QED
  BY <1>1, <1>2 DEF R!Init

(* The daemon with its socket and its clients implements the registry: the *)
(* requests that reach it are carried out one by one, each as a whole and  *)
(* in their order, whatever the daemon loses when it ends.                 *)
THEOREM RegistryImplemented ==
    Spec => Implements
<1>1. Init => IInv /\ R!Init
  BY InitKeeps, InitImplements
<1>2. IInv /\ [Next]_vars => IInv'
  BY NextKeeps
<1>3. IInv /\ [Next]_vars => [R!Next]_R!vars
  BY StepImplements
<1>. QED
  BY <1>1, <1>2, <1>3, PTL DEF Spec, Implements, R!Spec
=============================================================================
