---------------------------- MODULE TicketSpace ----------------------------
(***************************************************************************)
(* The ticket space of vroute_tckt.c and the queries of vroute.c that use  *)
(* it.  Every DHT query leaves a TOKEN_CHECK ticket with its nonce; a      *)
(* response is applied only if it punches one.  A connectivity probe also  *)
(* leaves a CONN_PROBE ticket with the same nonce, and a client's service  *)
(* probe a SRVC_PROBE ticket with its callbacks.  Tickets are reaped when  *)
(* they are overdue; a reaped SRVC_PROBE tells its client "none".          *)
(*                                                                         *)
(* Everything runs under route->lock: one action per operation.  The       *)
(* network may lose, delay, reorder and duplicate: once a query is out its *)
(* response may arrive at any time and any number of times.  The order of  *)
(* the tickets in their varray only decides the order of callbacks made in *)
(* one step, so the tickets are a set.                                     *)
(***************************************************************************)
EXTENDS Naturals, Sequences, FiniteSets

CONSTANTS
    Clients,     \* the calls of probe_service (each has a cookie of its own)
    Hashes,      \* service hashes
    NoHash,      \* the hash of a query that is not about a service
    HashOf,      \* HashOf[c]: the service that c asks for
    Nonces,      \* vnonce_make: never the same twice
    OverdueTmo   \* space->overdue_tmo

ASSUME TicketAssumption == /\ HashOf \in [Clients -> Hashes]
                           /\ NoHash \notin Hashes
                           /\ OverdueTmo \in Nat \ {0}
                           /\ Clients \cap Nonces = {}

VARIABLES
    tickets,  \* the tickets: [type, key, age], key a nonce or a client
    sent,     \* the queries sent: [nonce, kind, hash]
    mode,     \* "off", "run" (the ticker reaps) or "gone" (after vroute_deinit)
    asked,    \* the clients that called
    told,     \* told[c]: the calls of c's ncb so far, "found" or "none"
    applied   \* applied[n]: how often a response with nonce n was accepted

vars == <<tickets, sent, mode, asked, told, applied>>

Kinds   == {"query", "probe", "service"}
Results == {"found", "none"}

(* Mutant: the ticket remembers the service, not who asked.                *)
Srvc_ByHash(c) == [type |-> "srvc", key |-> HashOf[c], age |-> 0]

(* vticket_init for the three types.  Each ticket takes the time when it   *)
(* is made, so a token may be a second older than the ticket that is made  *)
(* after it in the same operation.                                         *)
Token(n, old) == [type |-> "token", key |-> n, age |-> old]
Srvc(c)  == [type |-> "srvc",  key |-> c, age |-> 0]
ConnT(n) == [type |-> "conn",  key |-> n, age |-> 0]

Of(type) == {t \in tickets : t.type = type}

(* The keys of the tickets of one type                                     *)
Held(type) == {t.key : t \in Of(type)}

Used == {q.nonce : q \in sent}

(* ncb is called once more for every client of C.                          *)
Tell(C, result) ==
    told' = [c \in Clients |-> IF c \in C THEN Append(told[c], result) ELSE told[c]]

-----------------------------------------------------------------------------
(* A @ping, @find_node, @find_closest_nodes or @reflex query               *)
Query(n) ==
    /\ mode # "gone" /\ n \notin Used
    /\ sent' = sent \cup {[nonce |-> n, kind |-> "query", hash |-> NoHash]}
    /\ tickets' = tickets \cup {Token(n, 0)}
    /\ UNCHANGED <<mode, asked, told, applied>>

(* A @probe query: two tickets                                             *)
Probe(n, old) ==
    /\ mode # "gone" /\ n \notin Used
    /\ sent' = sent \cup {[nonce |-> n, kind |-> "probe", hash |-> NoHash]}
    /\ tickets' = tickets \cup {Token(n, old), ConnT(n)}
    /\ UNCHANGED <<mode, asked, told, applied>>

(* _vroute_probe_service: a @find_service query to each reachable peer, of *)
(* which there may be none, and a ticket for the client                    *)
ProbeService(c, N, old) ==
    /\ mode # "gone" /\ c \notin asked /\ N \cap Used = {}
    /\ asked' = asked \cup {c}
    /\ sent' = sent \cup {[nonce |-> n, kind |-> "service", hash |-> HashOf[c]] : n \in N}
    /\ tickets' = tickets \cup {Token(n, old) : n \in N} \cup {Srvc(c)}
    /\ UNCHANGED <<mode, told, applied>>

(* Mutant: a response is taken without its ticket.                         *)
CheckToken_Always(n) == n \in Nonces

(* DO_CHECK_TOKEN: without a ticket the response is dropped.               *)
CheckToken(n) == n \in Held("token")

(* Mutant: only the first ticket is punched, as for TOKEN_CHECK.           *)
SrvcPunched_First(h) ==
    LET all == {c \in Held("srvc") : HashOf[c] = h}
    IN  IF all = {} THEN {} ELSE {CHOOSE c \in all : TRUE}

(* The SRVC_PROBE tickets that a service of this hash punches              *)
SrvcPunched(h) == {c \in Held("srvc") : HashOf[c] = h}

(* Mutant: the CONN_PROBE ticket stays.                                    *)
ProbeRsp_KeepTicket(q) ==
    /\ q.kind = "probe"
    /\ tickets' = {t \in tickets : ~(t.type = "token" /\ t.key = q.nonce)}
    /\ UNCHANGED <<sent, told>>

(* The responses: the TOKEN_CHECK ticket goes, and then ...                *)
QueryRsp(q) ==
    /\ q.kind = "query"
    /\ tickets' = {t \in tickets : t.key # q.nonce}
    /\ UNCHANGED <<sent, told>>

(* ... _vroute_cb_probe_rsp punches its CONN_PROBE ticket, ...             *)
ProbeRsp(q) ==
    /\ q.kind = "probe"
    /\ tickets' = {t \in tickets : t.key # q.nonce}
    /\ UNCHANGED <<sent, told>>

(* ... _vroute_cb_find_service_rsp all the SRVC_PROBE tickets of its hash. *)
(* Before that it asks the peers for the service's host (probe_node),      *)
(* unless it knows the host: the queries N.                                *)
ServiceRsp(q) ==
    /\ q.kind = "service"
    /\ \E N \in SUBSET (Nonces \ Used) :
         /\ sent' = sent \cup {[nonce |-> n, kind |-> "query", hash |-> NoHash] : n \in N}
         /\ tickets' = {t \in tickets : t.key # q.nonce /\ t.key \notin SrvcPunched(q.hash)}
                         \cup {Token(n, 0) : n \in N}
    /\ Tell(SrvcPunched(q.hash), "found")

Response(q) ==
    /\ mode # "gone"
    /\ CheckToken(q.nonce)
    /\ QueryRsp(q) \/ ProbeRsp(q) \/ ServiceRsp(q)
    /\ applied' = [applied EXCEPT ![q.nonce] = @ + 1]
    /\ UNCHANGED <<mode, asked>>

-----------------------------------------------------------------------------
Overdue == {t \in tickets : t.age >= OverdueTmo}

(* Mutant: overdue service probes are dropped like the others.             *)
TimedReap_Silent ==
    /\ mode = "run"
    /\ tickets' = tickets \ Overdue
    /\ UNCHANGED <<sent, mode, asked, told, applied>>

(* Mutant: the reaped service probes stay in the array.                    *)
TimedReap_Keep ==
    /\ mode = "run"
    /\ tickets' = tickets \ {t \in Overdue : t.type # "srvc"}
    /\ Tell({t.key : t \in {u \in Overdue : u.type = "srvc"}}, "none")
    /\ UNCHANGED <<sent, mode, asked, applied>>

(* _vroute_tckt_space_timed_reap, called by the ticker in run mode only    *)
TimedReap ==
    /\ mode = "run"
    /\ tickets' = tickets \ Overdue
    /\ Tell({t.key : t \in {u \in Overdue : u.type = "srvc"}}, "none")
    /\ UNCHANGED <<sent, mode, asked, applied>>

(* vroute_deinit clears the tickets without a word to the clients.         *)
Clear ==
    /\ mode = "off"
    /\ mode' = "gone"
    /\ tickets' = {}
    /\ UNCHANGED <<sent, asked, told, applied>>

(* The node is started and stopped.                                        *)
Start == mode = "off" /\ mode' = "run" /\ UNCHANGED <<tickets, sent, asked, told, applied>>
Stop  == mode = "run" /\ mode' = "off" /\ UNCHANGED <<tickets, sent, asked, told, applied>>

(* A second passes; ages beyond OverdueTmo are all alike.                  *)
Pass ==
    /\ tickets' = {[t EXCEPT !.age = IF @ < OverdueTmo THEN @ + 1 ELSE @] : t \in tickets}
    /\ UNCHANGED <<sent, mode, asked, told, applied>>

Init ==
    /\ tickets = {}
    /\ sent = {}
    /\ mode = "off"
    /\ asked = {}
    /\ told = [c \in Clients |-> << >>]
    /\ applied = [n \in Nonces |-> 0]

Next ==
    \/ \E n \in Nonces : Query(n)
    \/ \E n \in Nonces, old \in 0 .. 1 : Probe(n, old)
    \/ \E c \in Clients, N \in SUBSET Nonces, old \in 0 .. 1 : ProbeService(c, N, old)
    \/ \E q \in sent : Response(q)
    \/ TimedReap
    \/ Start
    \/ Stop
    \/ Clear
    \/ Pass

Spec == Init /\ [][Next]_vars

(* The ticker runs for ever and time passes.                               *)
Fairness == WF_vars(TimedReap) /\ WF_vars(Pass)

FairSpec == Spec /\ Fairness

-----------------------------------------------------------------------------
(* Properties                                                              *)

Tickets == [type : {"token", "conn"}, key : Nonces, age : 0 .. OverdueTmo]
             \cup [type : {"srvc"}, key : Clients, age : 0 .. OverdueTmo]

(* Every variable holds values of its type.                                *)
TypeOK ==
    /\ tickets \subseteq Tickets
    /\ sent \subseteq [nonce : Nonces, kind : Kinds, hash : Hashes \cup {NoHash}]
    /\ mode \in {"off", "run", "gone"}
    /\ asked \subseteq Clients
    /\ told \in [Clients -> Seq(Results)]
    /\ applied \in [Nonces -> Nat]

(* A client's callback is called at most once, however responses, expiry   *)
(* and other clients' probes for the same service interleave, and as long  *)
(* as its ticket is there it has not been called.                          *)
ToldOnce ==
    \A c \in Clients : Len(told[c]) =< IF c \in Held("srvc") THEN 0 ELSE 1

(* A duplicated response, or one that arrives after its query's ticket was *)
(* reaped, changes nothing: at most one response per query is accepted,    *)
(* and none while the query's ticket waits.                                *)
AppliedOnce ==
    \A n \in Nonces : applied[n] =< IF n \in Held("token") THEN 0 ELSE 1

(* A probe response that is accepted always finds its CONN_PROBE ticket,   *)
(* although the two tickets of a probe expire one by one, and a CONN_PROBE *)
(* ticket that no response can punch any more is in its last second.       *)
ProbesPaired ==
    /\ \A q \in sent : q.kind = "probe" /\ CheckToken(q.nonce) => q.nonce \in Held("conn")
    /\ \A t \in Of("conn") : t.key \in Held("token") \/ t.age + 1 >= OverdueTmo

(* Seen by its clients the ticket space is a ServiceLookup: a request is   *)
(* open as long as its ticket is there, and is answered by the callback.   *)
Status(c) ==
    IF c \in Held("srvc") THEN "asked"
    ELSE IF c \notin asked THEN "idle"
    ELSE IF told[c] = << >> THEN "dropped"
    ELSE told[c][Len(told[c])]

Lookup == INSTANCE ServiceLookup WITH status <- [c \in Clients |-> Status(c)]

ImplementsLookup == Lookup!Spec

(* While the node keeps running every client is told something.            *)
ToldWhileRunning ==
    <>[](mode = "run") => \A c \in Clients : c \in asked ~> told[c] # << >>

(* vdhtapi.h: "if no service is found (means no neigbor nodes reponse      *)
(* back), then @ncb callback still be invoked".                            *)
AlwaysTold ==
    \A c \in Clients : c \in asked ~> (told[c] # << >> \/ mode = "gone")
=============================================================================
