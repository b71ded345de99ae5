------------------------- MODULE TicketSpaceProofs -------------------------
(***************************************************************************)
(* Proofs about the ticket space, for any number of clients, services and  *)
(* queries, and any time after which tickets are overdue.                  *)
(***************************************************************************)
EXTENDS TicketSpace, SequenceTheorems, TLAPS

(* A ticket belongs to a query that was sent or to a client that asked.    *)
KeysKnown ==
    \A t \in tickets : IF t.type = "srvc" THEN t.key \in asked ELSE t.key \in Used

(* A client that waits, or has not asked yet, has not been told anything.  *)
OpenUntold ==
    \A c \in Clients : /\ Len(told[c]) =< 1
                       /\ c \in Held("srvc") \/ c \notin asked => told[c] = << >>

(* No response was accepted for a query that waits or was not sent yet.    *)
WaitingUnapplied ==
    \A n \in Nonces : /\ applied[n] =< 1
                      /\ n \in Held("token") \/ n \notin Used => applied[n] = 0

(* The token of a probe goes with a CONN_PROBE ticket that is as old or a  *)
(* second younger; without a token that ticket is in its last second.      *)
Pair(u, t) == /\ u.type = "token" /\ t.type = "conn" /\ u.key = t.key
              /\ t.age =< u.age /\ u.age =< t.age + 1

TokensPaired ==
    \A u \in tickets, q \in sent :
      u.type = "token" /\ q.nonce = u.key /\ q.kind = "probe"
        => \E t \in tickets : Pair(u, t)

ConnsPaired ==
    \A t \in tickets :
      t.type = "conn" => t.age + 1 >= OverdueTmo \/ \E u \in tickets : Pair(u, t)

(* A @find_service query is about a service.                               *)
ServiceHashes == \A q \in sent : q.kind = "service" => q.hash \in Hashes

(* A client has one ticket.                                                *)
OneTicket ==
    \A t, u \in tickets : t.type = "srvc" /\ u.type = "srvc" /\ t.key = u.key => t = u

(* The inductive invariant                                                 *)
IInv == /\ TypeOK /\ OneTicket /\ KeysKnown /\ OpenUntold /\ WaitingUnapplied
        /\ TokensPaired /\ ConnsPaired /\ ServiceHashes

-----------------------------------------------------------------------------
(* The tickets of one step that adds tickets, removes some or ages them    *)
LEMMA HeldFacts ==
    /\ \A k, y : k \in Held(y) <=> \E t \in tickets : t.type = y /\ t.key = k
    /\ \A n : n \in Used <=> \E q \in sent : q.nonce = n
  BY DEF Held, Of, Used

LEMMA HeldFactsPrime ==
    /\ \A k, y : k \in Held(y)' <=> \E t \in tickets' : t.type = y /\ t.key = k
    /\ \A n : n \in Used' <=> \E q \in sent' : q.nonce = n
  BY DEF Held, Of, Used

LEMMA TicketTypes ==
    ASSUME TypeOK, NEW t \in tickets
    PROVE  /\ t.age \in 0 .. OverdueTmo
           /\ \/ t.type \in {"token", "conn"} /\ t.key \in Nonces
              \/ t.type = "srvc" /\ t.key \in Clients
  BY DEF TypeOK, Tickets

LEMMA NewTicketTypes ==
    /\ \A n \in Nonces, old \in 0 .. 1 : Token(n, old) \in Tickets
    /\ \A n \in Nonces : ConnT(n) \in Tickets
    /\ \A c \in Clients : Srvc(c) \in Tickets
  BY TicketAssumption DEF Tickets, Token, ConnT, Srvc

(* Telling clients keeps the records of what they were told.               *)
LEMMA TellType ==
    ASSUME told \in [Clients -> Seq(Results)], NEW C, NEW r \in Results, Tell(C, r)
    PROVE  /\ told' \in [Clients -> Seq(Results)]
           /\ \A c \in Clients : c \notin C => told'[c] = told[c]
           /\ \A c \in Clients : c \in C /\ told[c] = << >>
                => told'[c] = <<r>> /\ Len(told'[c]) = 1
<1>1. \A c \in Clients : Append(told[c], r) \in Seq(Results)
  OBVIOUS
<1>2. Append(<< >>, r) = <<r>> /\ Len(<<r>>) = 1
  OBVIOUS
<1>3. told' = [c \in Clients |-> IF c \in C THEN Append(told[c], r) ELSE told[c]]
  BY DEF Tell
<1>4. \A c \in Clients : c \in C /\ told[c] = << >> => told'[c] = <<r>>
  BY <1>2, <1>3
<1>. QED
  BY <1>1, <1>2, <1>3, <1>4, Zenon

LEMMA InitInv == Init => IInv
<1>. SUFFICES ASSUME Init PROVE IInv
  OBVIOUS
<1>1. TypeOK
  <2>1. << >> \in Seq(Results)
    OBVIOUS
  <2>. QED
    BY <2>1 DEF Init, TypeOK
<1>2. OpenUntold
  BY DEF Init, OpenUntold
<1>. QED
  BY <1>1, <1>2 DEF Init, IInv, KeysKnown, WaitingUnapplied, TokensPaired,
     ConnsPaired, ServiceHashes, OneTicket, Held, Of

(* Each action keeps the invariant.                                        *)
LEMMA QueryInv ==
    ASSUME IInv, NEW n \in Nonces, Query(n)
    PROVE  IInv'
<1>. DEFINE u == Token(n, 0)
            q == [nonce |-> n, kind |-> "query", hash |-> NoHash]
<1>1. /\ tickets' = tickets \cup {u} /\ sent' = sent \cup {q}
      /\ u.type = "token" /\ u.key = n /\ q.nonce = n /\ q.kind = "query"
      /\ u \in Tickets /\ q \in [nonce : Nonces, kind : Kinds, hash : Hashes \cup {NoHash}]
  <2>1. u \in Tickets
    BY NewTicketTypes
  <2>2. q \in [nonce : Nonces, kind : Kinds, hash : Hashes \cup {NoHash}]
    BY DEF Kinds
  <2>. QED
    BY <2>1, <2>2 DEF Query, Token
<1>2. n \notin Used /\ UNCHANGED <<mode, asked, told, applied>>
  BY DEF Query
<1>. HIDE DEF u, q
<1>3. TypeOK'
  BY <1>1, <1>2 DEF IInv, TypeOK
<1>4. KeysKnown'
  BY <1>1, <1>2, HeldFacts, HeldFactsPrime DEF IInv, KeysKnown
<1>5. OpenUntold'
  BY <1>1, <1>2, HeldFacts, HeldFactsPrime DEF IInv, OpenUntold
<1>6. WaitingUnapplied'
  BY <1>1, <1>2, HeldFacts, HeldFactsPrime DEF IInv, WaitingUnapplied
<1>7. TokensPaired'
  BY <1>1, <1>2, HeldFacts DEF IInv, TokensPaired, KeysKnown
<1>8. ConnsPaired'
  BY <1>1, <1>2 DEF IInv, ConnsPaired
<1>9. ServiceHashes' /\ OneTicket'
  BY <1>1, <1>2 DEF IInv, ServiceHashes, OneTicket
<1>. QED
  BY <1>3, <1>4, <1>5, <1>6, <1>7, <1>8, <1>9 DEF IInv

LEMMA ProbeInv ==
    ASSUME IInv, NEW n \in Nonces, NEW old \in 0 .. 1, Probe(n, old)
    PROVE  IInv'
<1>. DEFINE u == Token(n, old)
            v == ConnT(n)
            q == [nonce |-> n, kind |-> "probe", hash |-> NoHash]
<1>1. /\ tickets' = tickets \cup {u, v} /\ sent' = sent \cup {q}
      /\ u.type = "token" /\ u.key = n /\ v.type = "conn" /\ v.key = n
      /\ q.nonce = n /\ q.kind = "probe"
      /\ u \in Tickets /\ v \in Tickets
      /\ q \in [nonce : Nonces, kind : Kinds, hash : Hashes \cup {NoHash}]
  BY NewTicketTypes DEF Probe, Token, ConnT, Kinds
<1>2. n \notin Used /\ UNCHANGED <<mode, asked, told, applied>>
  BY DEF Probe
<1>3. Pair(u, v)
  BY DEF Pair, Token, ConnT
<1>. HIDE DEF u, v, q
<1>4. TypeOK'
  BY <1>1, <1>2 DEF IInv, TypeOK
<1>5. KeysKnown'
  BY <1>1, <1>2, HeldFacts, HeldFactsPrime DEF IInv, KeysKnown
<1>6. OpenUntold'
  BY <1>1, <1>2, HeldFacts, HeldFactsPrime DEF IInv, OpenUntold
<1>7. WaitingUnapplied'
  BY <1>1, <1>2, HeldFacts, HeldFactsPrime DEF IInv, WaitingUnapplied
<1>8. TokensPaired'
  BY <1>1, <1>2, <1>3, HeldFacts DEF IInv, TokensPaired, KeysKnown
<1>9. ConnsPaired'
  BY <1>1, <1>2, <1>3 DEF IInv, ConnsPaired
<1>10. ServiceHashes' /\ OneTicket'
  BY <1>1, <1>2 DEF IInv, ServiceHashes, OneTicket, KeysKnown
<1>. QED
  BY <1>4, <1>5, <1>6, <1>7, <1>8, <1>9, <1>10 DEF IInv

LEMMA ProbeServiceInv ==
    ASSUME IInv, NEW c \in Clients, NEW N \in SUBSET Nonces, NEW old \in 0 .. 1,
           ProbeService(c, N, old)
    PROVE  IInv'
<1>. DEFINE U == {Token(n, old) : n \in N}
            v == Srvc(c)
            Q == {[nonce |-> n, kind |-> "service", hash |-> HashOf[c]] : n \in N}
<1>1. /\ tickets' = tickets \cup U \cup {v} /\ sent' = sent \cup Q
      /\ \A u \in U : u \in Tickets /\ u.type = "token" /\ u.key \in N
      /\ \A n \in N : \E q \in Q : q.nonce = n
      /\ v \in Tickets /\ v.type = "srvc" /\ v.key = c
      /\ \A q \in Q : /\ q \in [nonce : Nonces, kind : Kinds, hash : Hashes \cup {NoHash}]
                       /\ q.nonce \in N /\ q.kind = "service" /\ q.hash \in Hashes
  <2>1. v \in Tickets /\ \A u \in U : u \in Tickets
    BY NewTicketTypes
  <2>2. v.type = "srvc" /\ v.key = c /\ \A u \in U : u.type = "token" /\ u.key \in N
    BY DEF Token, Srvc
  <2>3. \A q \in Q : /\ q \in [nonce : Nonces, kind : Kinds, hash : Hashes \cup {NoHash}]
                     /\ q.nonce \in N /\ q.kind = "service" /\ q.hash \in Hashes
    BY TicketAssumption DEF Kinds
  <2>4. ASSUME NEW n \in N PROVE \E q \in Q : q.nonce = n
    <3>1. [nonce |-> n, kind |-> "service", hash |-> HashOf[c]] \in Q
      OBVIOUS
    <3>. QED
      BY <3>1
  <2>. QED
    BY <2>1, <2>2, <2>3, <2>4 DEF ProbeService
<1>2. /\ N \cap Used = {} /\ c \notin asked /\ asked' = asked \cup {c}
      /\ UNCHANGED <<mode, told, applied>>
  BY DEF ProbeService
<1>. HIDE DEF U, v, Q
<1>4. TypeOK'
  BY <1>1, <1>2 DEF IInv, TypeOK
<1>5. KeysKnown'
  BY <1>1, <1>2, HeldFacts, HeldFactsPrime DEF IInv, KeysKnown
<1>6. OpenUntold'
  BY <1>1, <1>2, HeldFacts, HeldFactsPrime DEF IInv, OpenUntold
<1>7. WaitingUnapplied'
  BY <1>1, <1>2, HeldFacts, HeldFactsPrime DEF IInv, WaitingUnapplied
<1>8. TokensPaired'
  BY <1>1, <1>2, HeldFacts DEF IInv, TokensPaired, KeysKnown
<1>9. ConnsPaired'
  BY <1>1, <1>2 DEF IInv, ConnsPaired
<1>10. ServiceHashes' /\ OneTicket'
  BY <1>1, <1>2 DEF IInv, ServiceHashes, OneTicket, KeysKnown
<1>. QED
  BY <1>4, <1>5, <1>6, <1>7, <1>8, <1>9, <1>10 DEF IInv

(* The queries and tokens that a handler makes for new nonces              *)
LEMMA NewQueries ==
    ASSUME NEW N \in SUBSET (Nonces \ Used)
    PROVE  LET U == {Token(n, 0) : n \in N}
               Q == {[nonce |-> n, kind |-> "query", hash |-> NoHash] : n \in N}
           IN  /\ \A u \in U : /\ u \in Tickets /\ u.type = "token" /\ u.key \notin Used
                              /\ \E p \in Q : p.nonce = u.key
               /\ \A p \in Q : /\ p \in [nonce : Nonces, kind : Kinds, hash : Hashes \cup {NoHash}]
                              /\ p.nonce \notin Used /\ p.kind = "query"
<1>. DEFINE U == {Token(n, 0) : n \in N}
            Q == {[nonce |-> n, kind |-> "query", hash |-> NoHash] : n \in N}
<1>1. \A u \in U : u \in Tickets
  BY NewTicketTypes
<1>2. \A u \in U : u.type = "token" /\ u.key \in N
  BY DEF Token
<1>3. \A p \in Q : /\ p \in [nonce : Nonces, kind : Kinds, hash : Hashes \cup {NoHash}]
                   /\ p.nonce \in N /\ p.kind = "query"
  BY DEF Kinds
<1>4. ASSUME NEW n \in N PROVE \E p \in Q : p.nonce = n
  <2>1. [nonce |-> n, kind |-> "query", hash |-> NoHash] \in Q
    OBVIOUS
  <2>. QED
    BY <2>1
<1>. HIDE DEF U, Q
<1>5. /\ \A u \in U : /\ u \in Tickets /\ u.type = "token" /\ u.key \notin Used
                     /\ \E p \in Q : p.nonce = u.key
      /\ \A p \in Q : /\ p \in [nonce : Nonces, kind : Kinds, hash : Hashes \cup {NoHash}]
                     /\ p.nonce \notin Used /\ p.kind = "query"
  BY <1>1, <1>2, <1>3, <1>4
<1>. QED
  BY <1>5 DEF U, Q

(* An accepted response: all tickets of its nonce n go, those of the       *)
(* clients C that are told, and there may be new queries Q with tokens U.  *)
Accept(n, C, U, Q) ==
    /\ n \in Nonces /\ n \in Held("token")
    /\ C \in SUBSET Clients /\ \A c \in C : c \in asked
    /\ \A u \in U : /\ u \in Tickets /\ u.type = "token" /\ u.key \notin Used
                    /\ \E p \in Q : p.nonce = u.key
    /\ \A p \in Q : /\ p \in [nonce : Nonces, kind : Kinds, hash : Hashes \cup {NoHash}]
                    /\ p.nonce \notin Used /\ p.kind = "query"
    /\ tickets' = {t \in tickets : t.key # n /\ t.key \notin C} \cup U
    /\ sent' = sent \cup Q
    /\ applied' = [applied EXCEPT ![n] = @ + 1]
    /\ UNCHANGED <<mode, asked>>
    /\ told' \in [Clients -> Seq(Results)]
    /\ \A c \in Clients : c \notin C => told'[c] = told[c]
    /\ \A c \in Clients : c \in C => Len(told'[c]) = 1

LEMMA AcceptedInv ==
    ASSUME IInv, NEW n, NEW C, NEW U, NEW Q, Accept(n, C, U, Q)
    PROVE  IInv'
<1>. USE DEF Accept
<1>1. applied[n] = 0 /\ n \in Used
  BY HeldFacts DEF IInv, WaitingUnapplied, KeysKnown
<1>2. TypeOK'
  BY <1>1 DEF IInv, TypeOK
<1>3. KeysKnown'
  BY HeldFacts, HeldFactsPrime DEF IInv, KeysKnown
<1>4. OpenUntold'
  <2>1. \A c \in Clients : c \in Held("srvc")' => c \in Held("srvc") /\ c \notin C
    BY HeldFacts, HeldFactsPrime
  <2>2. ASSUME NEW c \in Clients
        PROVE  /\ Len(told'[c]) =< 1
               /\ c \in Held("srvc")' \/ c \notin asked' => told'[c] = << >>
    <3>1. CASE c \in C
      <4>1. Len(told'[c]) = 1
        BY <3>1
      <4>2. c \notin Held("srvc")' /\ c \in asked'
        BY <2>1, <3>1, Zenon
      <4>. QED
        BY <4>1, <4>2
    <3>2. CASE c \notin C
      BY <2>1, <3>2 DEF IInv, OpenUntold
    <3>. QED
      BY <3>1, <3>2
  <2>. QED
    BY <2>2 DEF OpenUntold
<1>5. WaitingUnapplied'
  <2>1. \A m \in Nonces : m \in Held("token")' => m # n /\ (m \in Held("token") \/ m \notin Used)
    BY <1>1, HeldFacts, HeldFactsPrime
  <2>2. \A m : m \notin Used' => m \notin Used
    BY HeldFacts, HeldFactsPrime
  <2>. QED
    BY <1>1, <2>1, <2>2 DEF IInv, WaitingUnapplied, TypeOK
<1>6. \A t \in tickets : t.type # "srvc" => t.key \notin C
  BY TicketTypes, TicketAssumption DEF IInv
<1>7. TokensPaired'
  BY <1>6, HeldFacts DEF IInv, TokensPaired, KeysKnown, Pair
<1>8. ConnsPaired'
  BY <1>6 DEF IInv, ConnsPaired, Pair
<1>9. ServiceHashes' /\ OneTicket'
  BY DEF IInv, ServiceHashes, OneTicket
<1>. QED
  BY <1>2, <1>3, <1>4, <1>5, <1>7, <1>8, <1>9 DEF IInv

(* The clients that a response or an expiry tells                          *)
LEMMA ToldClients ==
    ASSUME IInv, NEW C, \A c \in C : c \in Held("srvc"), NEW r \in Results, Tell(C, r)
    PROVE  /\ C \in SUBSET Clients /\ \A c \in C : c \in asked
           /\ told' \in [Clients -> Seq(Results)]
           /\ \A c \in Clients : c \notin C => told'[c] = told[c]
           /\ \A c \in Clients : c \in C => told'[c] = <<r>> /\ Len(told'[c]) = 1
<1>1. \A c \in C : c \in Clients /\ c \in asked
  BY HeldFacts, TicketTypes DEF IInv, KeysKnown
<1>2. \A c \in C : told[c] = << >>
  BY <1>1 DEF IInv, OpenUntold
<1>3. told \in [Clients -> Seq(Results)]
  BY DEF IInv, TypeOK
<1>. QED
  BY <1>1, <1>2, <1>3, TellType

LEMMA ResponseInv ==
    ASSUME IInv, NEW q \in sent, Response(q)
    PROVE  IInv'
<1>1. /\ q.nonce \in Held("token") /\ UNCHANGED <<mode, asked>> /\ q.nonce \in Nonces
      /\ applied' = [applied EXCEPT ![q.nonce] = @ + 1]
  BY DEF Response, CheckToken, IInv, TypeOK
<1>2. CASE QueryRsp(q) \/ ProbeRsp(q)
  <2>1. /\ tickets' = {t \in tickets : t.key # q.nonce /\ t.key \notin {}} \cup {}
        /\ sent' = sent \cup {} /\ told' = told
    BY <1>2 DEF QueryRsp, ProbeRsp
  <2>2. told' \in [Clients -> Seq(Results)]
    BY <2>1 DEF IInv, TypeOK
  <2>. DEFINE E == {}
  <2>3. E \in SUBSET Clients /\ \A c \in E : FALSE
    OBVIOUS
  <2>4. /\ tickets' = {t \in tickets : t.key # q.nonce /\ t.key \notin E} \cup E
        /\ sent' = sent \cup E
    BY <2>1
  <2>. HIDE DEF E
  <2>. QED
    <3>1. Accept(q.nonce, E, E, E)
      BY <1>1, <2>1, <2>2, <2>3, <2>4 DEF Accept
    <3>. QED
      BY <3>1, AcceptedInv
<1>3. CASE ServiceRsp(q)
  <2>. DEFINE C == SrvcPunched(q.hash)
  <2>1. PICK N \in SUBSET (Nonces \ Used) :
          /\ sent' = sent \cup {[nonce |-> m, kind |-> "query", hash |-> NoHash] : m \in N}
          /\ tickets' = {t \in tickets : t.key # q.nonce /\ t.key \notin C}
                          \cup {Token(m, 0) : m \in N}
    BY <1>3 DEF ServiceRsp
  <2>2. \A c \in C : c \in Held("srvc")
    BY DEF SrvcPunched
  <2>3. Tell(C, "found") /\ "found" \in Results
    BY <1>3 DEF ServiceRsp, Results
  <2>. DEFINE U == {Token(m, 0) : m \in N}
              Q == {[nonce |-> m, kind |-> "query", hash |-> NoHash] : m \in N}
  <2>4. /\ \A u \in U : /\ u \in Tickets /\ u.type = "token" /\ u.key \notin Used
                       /\ \E p \in Q : p.nonce = u.key
        /\ \A p \in Q : /\ p \in [nonce : Nonces, kind : Kinds, hash : Hashes \cup {NoHash}]
                       /\ p.nonce \notin Used /\ p.kind = "query"
    BY NewQueries
  <2>5. /\ sent' = sent \cup Q
        /\ tickets' = {t \in tickets : t.key # q.nonce /\ t.key \notin C} \cup U
    BY <2>1
  <2>. HIDE DEF C, U, Q
  <2>6. /\ C \in SUBSET Clients /\ \A c \in C : c \in asked
        /\ told' \in [Clients -> Seq(Results)]
        /\ \A c \in Clients : c \notin C => told'[c] = told[c]
        /\ \A c \in Clients : c \in C => Len(told'[c]) = 1
    BY <2>2, <2>3, ToldClients
  <2>. QED
    <3>1. Accept(q.nonce, C, U, Q)
      BY <1>1, <2>4, <2>5, <2>6 DEF Accept
    <3>. QED
      BY <3>1, AcceptedInv
<1>. QED
  BY <1>2, <1>3 DEF Response

(* Overdue tickets go, and their clients are told.                         *)
LEMMA TimedReapInv ==
    ASSUME IInv, TimedReap
    PROVE  IInv'
<1>. DEFINE C == {t.key : t \in {u \in Overdue : u.type = "srvc"}}
<1>1. /\ tickets' = {t \in tickets : ~(t.age >= OverdueTmo)}
      /\ UNCHANGED <<sent, mode, asked, applied>> /\ Tell(C, "none") /\ "none" \in Results
  BY DEF TimedReap, Overdue, Results
<1>2. \A c : c \in C <=> \E t \in tickets : t.type = "srvc" /\ t.key = c /\ t.age >= OverdueTmo
  BY DEF Overdue
<1>. HIDE DEF C
<1>3. \A c \in C : c \in Held("srvc")
  BY <1>2, HeldFacts
<1>4. /\ C \in SUBSET Clients /\ \A c \in C : c \in asked
      /\ told' \in [Clients -> Seq(Results)]
      /\ \A c \in Clients : c \notin C => told'[c] = told[c]
      /\ \A c \in Clients : c \in C => Len(told'[c]) = 1
  BY <1>1, <1>3, ToldClients
<1>5. \A t \in tickets : t.age \in 0 .. OverdueTmo /\ OverdueTmo \in Nat
  BY TicketTypes, TicketAssumption DEF IInv
<1>6. TypeOK' /\ OneTicket' /\ ServiceHashes'
  BY <1>1, <1>4 DEF IInv, TypeOK, OneTicket, ServiceHashes
<1>7. KeysKnown'
  BY <1>1, HeldFacts, HeldFactsPrime DEF IInv, KeysKnown
<1>8. OpenUntold'
  <2>1. \A c \in Clients : c \in Held("srvc")' => c \in Held("srvc") /\ c \notin C
    BY <1>1, <1>2, HeldFacts, HeldFactsPrime DEF IInv, OneTicket
  <2>2. ASSUME NEW c \in Clients
        PROVE  /\ Len(told'[c]) =< 1
               /\ c \in Held("srvc")' \/ c \notin asked' => told'[c] = << >>
    <3>1. CASE c \in C
      <4>1. Len(told'[c]) = 1
        BY <1>4, <3>1
      <4>2. c \notin Held("srvc")' /\ c \in asked'
        BY <1>1, <1>4, <2>1, <3>1, Zenon
      <4>. QED
        BY <4>1, <4>2
    <3>2. CASE c \notin C
      BY <1>1, <1>4, <2>1, <3>2 DEF IInv, OpenUntold
    <3>. QED
      BY <3>1, <3>2
  <2>. QED
    BY <2>2 DEF OpenUntold
<1>9. WaitingUnapplied'
  BY <1>1, HeldFacts, HeldFactsPrime DEF IInv, WaitingUnapplied
<1>10. TokensPaired' /\ ConnsPaired'
  BY <1>1, <1>5 DEF IInv, TokensPaired, ConnsPaired, Pair
<1>. QED
  BY <1>6, <1>7, <1>8, <1>9, <1>10 DEF IInv

(* A second passes: every ticket has an older one in its place.            *)
Older(t) == [t EXCEPT !.age = IF @ < OverdueTmo THEN @ + 1 ELSE @]

LEMMA OlderFacts ==
    ASSUME IInv, NEW t \in tickets
    PROVE  /\ Older(t) \in Tickets
           /\ Older(t).type = t.type /\ Older(t).key = t.key
           /\ t.age \in 0 .. OverdueTmo /\ OverdueTmo \in Nat
           /\ Older(t).age = IF t.age < OverdueTmo THEN t.age + 1 ELSE t.age
<1>. DEFINE a == IF t.age < OverdueTmo THEN t.age + 1 ELSE t.age
<1>1. t \in Tickets /\ t.age \in 0 .. OverdueTmo /\ OverdueTmo \in Nat
  BY TicketTypes, TicketAssumption DEF IInv, TypeOK
<1>2. a \in 0 .. OverdueTmo
  BY <1>1
<1>3. Older(t) = [t EXCEPT !.age = a]
  BY DEF Older
<1>. HIDE DEF a
<1>4. /\ [t EXCEPT !.age = a] \in Tickets
      /\ [t EXCEPT !.age = a].type = t.type /\ [t EXCEPT !.age = a].key = t.key
      /\ [t EXCEPT !.age = a].age = a
  BY <1>1, <1>2 DEF Tickets
<1>. QED
  BY <1>1, <1>3, <1>4 DEF a

LEMMA PassTickets ==
    ASSUME IInv, Pass
    PROVE  /\ tickets' = {Older(t) : t \in tickets}
           /\ UNCHANGED <<sent, mode, asked, told, applied>>
           /\ \A k, y : k \in Held(y)' <=> k \in Held(y)
<1>1. tickets' = {Older(t) : t \in tickets} /\ UNCHANGED <<sent, mode, asked, told, applied>>
  BY DEF Pass, Older
<1>. QED
  BY <1>1, OlderFacts, HeldFacts, HeldFactsPrime

LEMMA PassInv ==
    ASSUME IInv, Pass
    PROVE  IInv'
<1>1. tickets' = {Older(t) : t \in tickets} /\ UNCHANGED <<sent, mode, asked, told, applied>>
  BY PassTickets
<1>2. \A t \in tickets : /\ Older(t) \in Tickets
                         /\ Older(t).type = t.type /\ Older(t).key = t.key
                         /\ t.age \in 0 .. OverdueTmo /\ OverdueTmo \in Nat
                         /\ Older(t).age = IF t.age < OverdueTmo THEN t.age + 1 ELSE t.age
  BY OlderFacts
<1>3. TypeOK' /\ OneTicket' /\ ServiceHashes'
  BY <1>1, <1>2 DEF IInv, TypeOK, OneTicket, ServiceHashes
<1>4. \A k, y : k \in Held(y)' <=> k \in Held(y)
  BY PassTickets
<1>5. Used' = Used
  BY <1>1 DEF Used
<1>6. KeysKnown' /\ OpenUntold' /\ WaitingUnapplied'
  BY <1>1, <1>2, <1>4, <1>5 DEF IInv, KeysKnown, OpenUntold, WaitingUnapplied
<1>7. \A t, u \in tickets : Pair(u, t) => Pair(Older(u), Older(t))
  BY <1>2 DEF Pair
<1>8. TokensPaired'
  BY <1>1, <1>2, <1>7 DEF IInv, TokensPaired
<1>9. ConnsPaired'
  BY <1>1, <1>2, <1>7 DEF IInv, ConnsPaired
<1>. QED
  BY <1>3, <1>6, <1>8, <1>9 DEF IInv

(* Every step keeps the invariant.                                         *)
LEMMA NextInv == IInv /\ [Next]_vars => IInv'
<1>. SUFFICES ASSUME IInv, [Next]_vars PROVE IInv'
  OBVIOUS
<1>1. CASE Clear
  BY <1>1 DEF Clear, IInv, TypeOK, OneTicket, KeysKnown, OpenUntold, WaitingUnapplied,
     TokensPaired, ConnsPaired, ServiceHashes, Held, Of, Used
<1>2. CASE Start \/ Stop \/ UNCHANGED vars
  BY <1>2 DEF Start, Stop, vars, IInv, TypeOK, OneTicket, KeysKnown, OpenUntold,
     WaitingUnapplied, TokensPaired, ConnsPaired, ServiceHashes, Held, Of, Used
<1>. QED
  BY <1>1, <1>2, QueryInv, ProbeInv, ProbeServiceInv, ResponseInv, TimedReapInv, PassInv
     DEF Next

-----------------------------------------------------------------------------
(* Tickets, queries and what clients were told have their types: a ticket  *)
(* of vroute_tckt.c is never keyed by the wrong kind of thing.             *)
THEOREM TicketsTyped == Spec => []TypeOK
  BY InitInv, NextInv, PTL DEF Spec, IInv

(* A client is told at most once (vticket_punch, vticket_timedout_punch).  *)
THEOREM ClientsToldOnce == Spec => []ToldOnce
<1>1. IInv => ToldOnce
  BY DEF IInv, OpenUntold, ToldOnce
<1>. QED
  BY <1>1, InitInv, NextInv, PTL DEF Spec

(* DO_CHECK_TOKEN accepts at most one response to a query.                 *)
THEOREM ResponsesAppliedOnce == Spec => []AppliedOnce
<1>1. IInv => AppliedOnce
  BY DEF IInv, TypeOK, WaitingUnapplied, AppliedOnce
<1>. QED
  BY <1>1, InitInv, NextInv, PTL DEF Spec

(* An accepted probe response finds its CONN_PROBE ticket.                 *)
THEOREM ProbesStayPaired == Spec => []ProbesPaired
<1>1. IInv => ProbesPaired
  BY HeldFacts DEF IInv, TokensPaired, ConnsPaired, Pair, ProbesPaired, CheckToken, Of
<1>. QED
  BY <1>1, InitInv, NextInv, PTL DEF Spec

-----------------------------------------------------------------------------
(* The refinement of ServiceLookup                                         *)
St == [c \in Clients |-> Status(c)]

(* A client's status depends on its ticket, its call and what it was told. *)
LEMMA StatusFacts ==
    ASSUME IInv, NEW c \in Clients
    PROVE  /\ Status(c) = "asked" <=> c \in Held("srvc")
           /\ c \notin asked => Status(c) = "idle" /\ c \notin Held("srvc")
<1>1. c \in Held("srvc") => c \in asked
  BY HeldFacts DEF IInv, KeysKnown
<1>2. told[c] # << >> => told[c][Len(told[c])] \in Results
  <2>1. told[c] \in Seq(Results)
    BY DEF IInv, TypeOK
  <2>. QED
    BY <2>1
<1>. QED
  BY <1>1, <1>2 DEF Status, Results

LEMMA SameStatus ==
    ASSUME NEW c \in Clients, c \in Held("srvc")' <=> c \in Held("srvc"),
           c \in asked' <=> c \in asked, told'[c] = told[c]
    PROVE  Status(c)' = Status(c)
  BY DEF Status

(* The clients of C, told r, leave the tickets.                            *)
LEMMA ToldStatus ==
    ASSUME IInv, NEW C, \A c \in C : c \in Held("srvc"), NEW r \in Results, Tell(C, r),
           asked' = asked,
           \A c \in Clients : c \in Held("srvc")' <=> c \in Held("srvc") /\ c \notin C
    PROVE  \A c \in Clients : Status(c)' = IF c \in C THEN r ELSE Status(c)
<1>. SUFFICES ASSUME NEW c \in Clients
              PROVE  Status(c)' = IF c \in C THEN r ELSE Status(c)
  OBVIOUS
<1>1. CASE c \in C
  <2>1. told'[c] = <<r>> /\ c \in asked' /\ c \notin Held("srvc")'
    BY <1>1, ToldClients
  <2>2. <<r>> # << >> /\ <<r>>[Len(<<r>>)] = r
    OBVIOUS
  <2>. QED
    BY <1>1, <2>1, <2>2 DEF Status
<1>2. CASE c \notin C
  BY <1>2, ToldClients, SameStatus
<1>. QED
  BY <1>1, <1>2

(* The tickets of clients after each step                                  *)
LEMMA KeptTickets ==
    ASSUME IInv, \/ \E n \in Nonces : Query(n)
                 \/ \E n \in Nonces, old \in 0 .. 1 : Probe(n, old)
                 \/ \E q \in sent : Response(q) /\ ~ServiceRsp(q)
                 \/ Start \/ Stop \/ Pass \/ UNCHANGED vars
    PROVE  St' = St
<1>1. asked' = asked /\ told' = told
  BY DEF Query, Probe, Response, QueryRsp, ProbeRsp, Start, Stop, Pass, vars
<1>2. \A c \in Clients : c \in Held("srvc")' <=> c \in Held("srvc")
  <2>1. CASE \E n \in Nonces : Query(n)
    BY <2>1, HeldFacts, HeldFactsPrime DEF Query, Token
  <2>2. CASE \E n \in Nonces, old \in 0 .. 1 : Probe(n, old)
    BY <2>2, HeldFacts, HeldFactsPrime DEF Probe, Token, ConnT
  <2>3. ASSUME NEW q \in sent, Response(q), ~ServiceRsp(q)
        PROVE  \A c \in Clients : c \in Held("srvc")' <=> c \in Held("srvc")
    <3>1. tickets' = {t \in tickets : t.key # q.nonce} /\ q.nonce \in Nonces
      BY <2>3 DEF Response, QueryRsp, ProbeRsp, IInv, TypeOK
    <3>. QED
      BY <3>1, HeldFacts, HeldFactsPrime, TicketAssumption
  <2>4. CASE Start \/ Stop \/ UNCHANGED vars
    BY <2>4 DEF Start, Stop, vars, Held, Of
  <2>5. CASE Pass
    BY <2>5, PassTickets, HeldFacts, HeldFactsPrime
  <2>. QED
    BY <2>1, <2>2, <2>3, <2>4, <2>5
<1>. QED
  BY <1>1, <1>2, SameStatus DEF St

(* Every step is a step of ServiceLookup or leaves the statuses alone.     *)
LEMMA LookupStep == IInv /\ [Next]_vars => Lookup!Next \/ St' = St
<1>. SUFFICES ASSUME IInv, [Next]_vars PROVE Lookup!Next \/ St' = St
  OBVIOUS
<1>0. ASSUME NEW C, NEW r, \A c \in Clients : Status(c)' = IF c \in C THEN r ELSE Status(c)
      PROVE  Lookup!SetTo(C, r)
  BY <1>0 DEF Lookup!SetTo
<1>1. ASSUME NEW d \in Clients, NEW N \in SUBSET Nonces, NEW old \in 0 .. 1,
             ProbeService(d, N, old)
      PROVE  Lookup!Next
  <2>1. \A c \in Clients : c \in Held("srvc")' <=> c \in Held("srvc") \/ c = d
    <3>. DEFINE U == {Token(m, old) : m \in N}
                v == Srvc(d)
    <3>1. tickets' = tickets \cup U \cup {v}
      BY <1>1 DEF ProbeService
    <3>2. v.type = "srvc" /\ v.key = d /\ \A u \in U : u.type = "token"
      BY DEF Token, Srvc
    <3>. HIDE DEF U, v
    <3>. QED
      BY <3>1, <3>2, HeldFacts, HeldFactsPrime
  <2>2. d \notin asked /\ asked' = asked \cup {d} /\ told' = told
    BY <1>1 DEF ProbeService
  <2>3. \A c \in Clients : Status(c)' = IF c \in {d} THEN "asked" ELSE Status(c)
    <3>1. Status(d)' = "asked"
      BY <2>1 DEF Status
    <3>2. \A c \in Clients : c # d => Status(c)' = Status(c)
      BY <2>1, <2>2, SameStatus
    <3>. QED
      BY <3>1, <3>2
  <2>4. Lookup!Ask(d)
    BY <1>0, <2>2, <2>3, StatusFacts DEF Lookup!Ask
  <2>. QED
    BY <2>4 DEF Lookup!Next
<1>2. ASSUME NEW q \in sent, Response(q), ServiceRsp(q)
      PROVE  Lookup!Next
  <2>. DEFINE C == SrvcPunched(q.hash)
  <2>1. q.hash \in Hashes /\ q.nonce \in Nonces
    BY <1>2 DEF IInv, ServiceHashes, TypeOK, ServiceRsp
  <2>2. C = Lookup!Waiting(q.hash)
    <3>1. \A c \in Clients : Status(c) = "asked" <=> c \in Held("srvc")
      BY StatusFacts
    <3>2. \A c \in Held("srvc") : c \in Clients
      BY HeldFacts, TicketTypes DEF IInv
    <3>. QED
      BY <3>1, <3>2 DEF SrvcPunched, Lookup!Waiting
  <2>3. \A c \in C : c \in Held("srvc")
    BY DEF SrvcPunched
  <2>4. Tell(C, "found") /\ asked' = asked /\ "found" \in Results
    BY <1>2 DEF Response, ServiceRsp, Results
  <2>5. \A c \in Clients : c \in Held("srvc")' <=> c \in Held("srvc") /\ c \notin C
    <3>1. PICK N \in SUBSET (Nonces \ Used) :
            tickets' = {t \in tickets : t.key # q.nonce /\ t.key \notin C}
                         \cup {Token(m, 0) : m \in N}
      BY <1>2 DEF ServiceRsp
    <3>2. \A m \in N : Token(m, 0).type = "token"
      BY DEF Token
    <3>. HIDE DEF C
    <3>. QED
      BY <2>1, <3>1, <3>2, HeldFacts, HeldFactsPrime, TicketAssumption
  <2>. HIDE DEF C
  <2>6. \A c \in Clients : Status(c)' = IF c \in C THEN "found" ELSE Status(c)
    BY <2>3, <2>4, <2>5, ToldStatus
  <2>7. Lookup!Found(q.hash)
    BY <1>0, <2>2, <2>6 DEF Lookup!Found
  <2>. QED
    BY <2>1, <2>7 DEF Lookup!Next
<1>3. ASSUME TimedReap PROVE Lookup!Next
  <2>. DEFINE C == {t.key : t \in {u \in Overdue : u.type = "srvc"}}
  <2>1. \A c : c \in C <=> \E t \in tickets : t.type = "srvc" /\ t.key = c /\ t.age >= OverdueTmo
    BY DEF Overdue
  <2>2. /\ tickets' = {t \in tickets : ~(t.age >= OverdueTmo)}
        /\ asked' = asked /\ Tell(C, "none") /\ "none" \in Results
    BY <1>3 DEF TimedReap, Overdue, Results
  <2>. HIDE DEF C
  <2>3. \A c \in C : c \in Held("srvc") /\ c \in Clients
    BY <2>1, HeldFacts, TicketTypes DEF IInv
  <2>4. \A c \in Clients : c \in Held("srvc")' <=> c \in Held("srvc") /\ c \notin C
    BY <2>1, <2>2, HeldFacts, HeldFactsPrime DEF IInv, OneTicket
  <2>5. \A c \in Clients : Status(c)' = IF c \in C THEN "none" ELSE Status(c)
    BY <2>2, <2>3, <2>4, ToldStatus
  <2>6. \A c \in C : c \in Clients /\ Status(c) = "asked"
    BY <2>3, StatusFacts
  <2>7. Lookup!NotFound(C)
    BY <1>0, <2>5, <2>6 DEF Lookup!NotFound
  <2>. QED
    BY <2>6, <2>7 DEF Lookup!Next
<1>4. ASSUME Clear PROVE Lookup!Next
  <2>. DEFINE C == {c \in Clients : Status(c) = "asked"}
  <2>1. \A c \in Clients : c \notin Held("srvc")'
    BY <1>4 DEF Clear, Held, Of
  <2>2. asked' = asked /\ told' = told
    BY <1>4 DEF Clear
  <2>3. ASSUME NEW c \in Clients
        PROVE  Status(c)' = IF c \in C THEN "dropped" ELSE Status(c)
    <3>1. CASE c \in Held("srvc")
      <4>1. c \in C /\ c \in asked /\ told[c] = << >>
        BY <3>1, StatusFacts DEF IInv, OpenUntold
      <4>. QED
        BY <2>1, <2>2, <4>1 DEF Status
    <3>2. CASE c \notin Held("srvc")
      BY <2>1, <2>2, <3>2, StatusFacts, SameStatus
    <3>. QED
      BY <3>1, <3>2
  <2>4. C = {c \in Clients : [d \in Clients |-> Status(d)][c] = "asked"}
    OBVIOUS
  <2>5. Lookup!Exit
    BY <1>0, <2>3, <2>4 DEF Lookup!Exit
  <2>. QED
    BY <2>5 DEF Lookup!Next
<1>. QED
  BY <1>1, <1>2, <1>3, <1>4, KeptTickets DEF Next

(* Seen by its clients the ticket space is a ServiceLookup: every call of  *)
(* vdhtc_probe_service is answered once, with what the network said.       *)
THEOREM TicketsImplementLookup == Spec => ImplementsLookup
<1>1. Init => Lookup!Init
  BY DEF Init, Lookup!Init, Status, Held, Of
<1>2. IInv /\ [Next]_vars => [Lookup!Next]_[c \in Clients |-> Status(c)]
  BY LookupStep DEF St
<1>. QED
  BY <1>1, <1>2, InitInv, NextInv, PTL DEF Spec, ImplementsLookup, Lookup!Spec
=============================================================================
