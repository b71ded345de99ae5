------------------------------ MODULE Overlay ------------------------------
(***************************************************************************)
(* Several vdhtd nodes and the network between them: the queries and the   *)
(* message handlers of vroute.c, the services that the nodes' clients post *)
(* (vnode.c), the copies of them that other nodes keep (vroute_srvc.c) and *)
(* the messages that carry all this (vdht.c).                              *)
(*                                                                         *)
(* The network loses, delays, reorders and duplicates datagrams.  A node's *)
(* datagrams come from the address of its NAT, which is written like the   *)
(* node; a node behind a NAT also has a local address, Lan[i].             *)
(*                                                                         *)
(* The routing table of a node is a set of infos [id, addrs] here, without *)
(* weights, timers and connections: those are the subject of NodeSpace.    *)
(* The ids that are made up for nodes of which only the address is known   *)
(* are all written NoId.  Tickets are those of TicketSpace, TOKEN_CHECK    *)
(* only; each also says which query it was made for, which the code does   *)
(* not know.                                                               *)
(***************************************************************************)
EXTENDS Bencode, SrvcSpace

CONSTANTS
    Nodes,        \* the nodes: their ids, and the addresses they are seen at
    NoId,         \* the id of a fake node info
    Lan,          \* Lan[i]: the local address of node i
    Props,        \* Props[i]: route->props, the messages that i sends
    Boots,        \* Boots[i]: the addresses in i's list of boot nodes
    Known,        \* Known[i]: the nodes in the table that i starts with
    TableSz,      \* room in a routing table
    Probing,      \* the nodes that max_probe_tms lets probe connections
    Restarting,   \* the nodes that may be restarted
    Hashes,       \* service hashes
    Offers,       \* Offers[i]: the [hash, proto, entry] that i's clients post
    Wants,        \* Wants[i]: the hashes that i's clients probe for
    Links,        \* pairs of nodes between which pings get through some time
    AirLinks,     \* pairs of nodes between which announcements do
    Ratios,       \* the readings of the used resources
    Numbers,      \* tell the nonces of a node apart
    MaxInFlight,  \* bound: datagrams in the network
    MaxDue,       \* bound: neighbours whose timers are due in one tick
    MaxChanges    \* bound: posts, unposts, renices and restarts

ASSUME OverlayAssumption ==
    /\ IsFiniteSet(Nodes) /\ NoId \notin Nodes
    /\ TableSz \in Nat \ {0} /\ MaxChanges \in Nat
    /\ \A i \in Nodes : \A j \in Nodes : Lan[i] = j => i = j
    /\ \A ratio \in Ratios : ratio \in [1 .. 5 -> 0 .. 10]
    /\ \A i \in Nodes : Boots[i] \subseteq Nodes /\ Known[i] \subseteq Nodes \ {i}
    /\ \A i \in Nodes : \A o \in Offers[i] : o.hash \in Hashes

VARIABLES
    net,        \* the datagrams [from, to, msg] under way
    table,      \* table[i]: the infos of i's routing table
    addrs,      \* addrs[i]: the addresses in i's own info
    tickets,    \* tickets[i]: the queries of i that wait for an answer
    srvcs,      \* srvcs[i]: i's service routing space
    own,        \* own[i]: the services posted by i's clients
    nice,       \* nice[i]: node->nice
    announced,  \* every version of every service that a host ever had
    changes     \* counts up to MaxChanges

vars == <<net, table, addrs, tickets, srvcs, own, nice, announced, changes>>

hostVars == <<own, nice, announced, changes>>

-----------------------------------------------------------------------------
(* Routing tables                                                          *)

Info(i, A) == [id |-> i, addrs |-> A]

(* A made-up info for an address, as in _vroute_join_node                  *)
FakeInfo(a) == Info(NoId, {a})

(* Neighbours that are not fake                                            *)
Peers(i) == {e \in table[i] : e.id # NoId}

(* _vroute_node_space_kick_node finds the sender.                          *)
Knows(i, id) == \E e \in Peers(i) : e.id = id

(* vpeer_init: the address a new neighbour is spoken to at is the worst,   *)
(* that is a reflexive one if there is any.                                *)
ConnAddr(e) == IF e.id \in e.addrs THEN e.id ELSE CHOOSE a \in e.addrs : TRUE

(* _vroute_node_space_add_node for some infos: the tables that may result. *)
(* A node is not added to its own table; a known id is updated; in a full  *)
(* table one node takes another's place or is discarded.                   *)
AddNodes(i, infos) ==
    LET new  == {n \in infos : n.id # i}
        kept == {e \in table[i] : e.id = NoId \/ \A n \in new : n.id # e.id}
        all  == kept \cup new
    IN  IF Cardinality(all) =< TableSz THEN {all}
        ELSE {T \in SUBSET all : Cardinality(T) = TableSz}

-----------------------------------------------------------------------------
(* Sending and receiving                                                   *)

Datagram(i, a, msg) == [from |-> i, to |-> a, msg |-> msg]

(* Mutant: a nonce may come again while messages that carry it are about.  *)
Unused_Again(i, T, N) == {k \in Numbers : \A t \in T : t.nonce.no # k}

(* vnonce_make: the numbers that no query of i carries, neither one of the *)
(* tickets T nor one of the messages N                                     *)
Unused(i, T, N) ==
    {k \in Numbers : /\ \A t \in T : t.nonce.no # k
                     /\ \A m \in N : Nonce(m.msg).by = i => Nonce(m.msg).no # k}

(* The numbers for the queries to the addresses A; none is needed if there *)
(* are no queries.                                                         *)
Fresh(i, A) == IF A = {} THEN Numbers ELSE Unused(i, tickets[i], net)

(* The nonce of a query to address a: one number serves all the queries of *)
(* an operation, of which no two to the same address have the same nth.    *)
QueryNonce(i, a, k, nth) == [by |-> i, to |-> a, no |-> k, nth |-> nth]

(* ADD_CHECK_TOKEN after a query to each of the addresses A                *)
Tokens(i, kind, A, k, nth) == {[nonce |-> QueryNonce(i, a, k, nth), kind |-> kind] : a \in A}

(* What is sent joins what is under way, a message that is just handled    *)
(* included; any part of it all is lost.                                   *)
Carry(msgs) == \E N \in SUBSET msgs : net' = N /\ Cardinality(N) =< MaxInFlight

Send(out) == Carry(net \cup out)

(* A response goes to the address and carries the nonce of the query.      *)
Reply(i, m, cap, msg) ==
    IF cap \in Props[i] THEN {Datagram(i, m.from, msg)} ELSE {}

(* The addresses for a query, none if the query is disabled                *)
Targets(i, cap, E) == IF cap \in Props[i] THEN {ConnAddr(e) : e \in E} ELSE {}

-----------------------------------------------------------------------------
(* What a node does by itself                                              *)

(* _vroute_join_node for the boot nodes and on request                     *)
JoinNode(i, a) ==
    /\ \E T \in AddNodes(i, {FakeInfo(a)}) : table' = [table EXCEPT ![i] = T]
    /\ UNCHANGED <<net, addrs, tickets, srvcs, hostVars>>

(* _vroute_tick: the neighbours P are due for a ping, and F are asked for  *)
(* the nodes next to this one; then the overdue tickets R are reaped.      *)
Tick(i, P, F, R) ==
    /\ P \subseteq table[i] /\ F \subseteq Peers(i) /\ R \subseteq tickets[i]
    /\ Cardinality(P) + Cardinality(F) =< MaxDue
    /\ LET p == Targets(i, "ping", P)
           f == Targets(i, "find_closest_nodes", F)
       IN  \E k \in Fresh(i, p \cup f) :
             /\ tickets' = [tickets EXCEPT ![i] = (@ \ R) \cup Tokens(i, "ping", p, k, 1)
                                              \cup Tokens(i, "find_closest_nodes", f, k, 2)]
             /\ Send({Datagram(i, a, EncPing(QueryNonce(i, a, k, 1), i)) : a \in p}
                     \cup {Datagram(i, a, EncFindClosestNodes(QueryNonce(i, a, k, 2), i, i)) : a \in f})
    /\ UNCHANGED <<table, addrs, srvcs, hostVars>>

(* The local address is behind a NAT whose address is not known yet.       *)
NeedReflex(i) == Lan[i] # i /\ i \notin addrs[i]

(* _vroute_air_service to the addresses A for all the services             *)
AirService(i, A, k) ==
    {Datagram(i, a, EncPostService(QueryNonce(i, a, k, 3), i, srvci)) : a \in A, srvci \in own[i]}

(* _vnode_tick: an address that needs it is reflexed (unless this was done *)
(* often enough: eaddrs), the connections to the neighbours Q are probed,  *)
(* and every service is sent to every neighbour (air_service).             *)
NodeTick(i, eaddrs, Q) ==
    /\ Q \subseteq Peers(i) /\ (i \in Probing \/ Q = {})
    /\ LET r == IF eaddrs /\ NeedReflex(i) THEN {ConnAddr(e) : e \in table[i]} \cap Nodes ELSE {}
           q == {ConnAddr(e) : e \in Q}
           s == IF own[i] = {} THEN {} ELSE Targets(i, "post_service", Peers(i))
       IN  \E k \in Fresh(i, r \cup q \cup s) :
             /\ tickets' = [tickets EXCEPT ![i] =
                    @ \cup Tokens(i, "reflex", r, k, 1) \cup Tokens(i, "probe", q, k, 2)]
             /\ Send(     {Datagram(i, a, EncReflex(QueryNonce(i, a, k, 1), i)) : a \in r}
                     \cup {Datagram(i, ConnAddr(e), EncProbe(QueryNonce(i, ConnAddr(e), k, 2), i, e.id)) : e \in Q}
                     \cup AirService(i, s, k))
    /\ UNCHANGED <<table, addrs, srvcs, hostVars>>

(* _vroute_probe_service on behalf of a client                             *)
ProbeService(i, h) ==
    /\ LET q == Targets(i, "find_service", Peers(i))
       IN  \E k \in Fresh(i, q) :
             /\ tickets' = [tickets EXCEPT ![i] = @ \cup Tokens(i, "find_service", q, k, 1)]
             /\ Send({Datagram(i, a, EncFindService(QueryNonce(i, a, k, 1), i, h)) : a \in q})
    /\ UNCHANGED <<table, addrs, srvcs, hostVars>>

-----------------------------------------------------------------------------
(* The services of a node's clients                                        *)

Change == changes < MaxChanges /\ changes' = changes + 1

Announce(i, S) == own' = [own EXCEPT ![i] = S] /\ announced' = announced \cup S

(* _vnode_srvc_post: one more address of a service, or a new service       *)
Post(i, h, proto, e) ==
    /\ Change
    /\ Announce(i, SrvcPost(own[i], i, h, nice[i], proto, e))
    /\ UNCHANGED <<net, table, addrs, tickets, srvcs, nice>>

(* _vnode_srvc_unpost                                                      *)
Unpost(i, h, a) ==
    /\ Change
    /\ Announce(i, SrvcUnpost(own[i], h, a))
    /\ UNCHANGED <<net, table, addrs, tickets, srvcs, nice>>

(* _vnode_srvc_unpost_ext                                                  *)
UnpostExt(i, h) ==
    /\ Change
    /\ Announce(i, SrvcUnpostExt(own[i], h))
    /\ UNCHANGED <<net, table, addrs, tickets, srvcs, nice>>

(* _vnode_renice: all the services get the new nice value.                 *)
Renice(i, ratio) ==
    /\ Change
    /\ nice' = [nice EXCEPT ![i] = NiceOf(ratio)]
    /\ Announce(i, {[s EXCEPT !.nice = NiceOf(ratio)] : s \in own[i]})
    /\ UNCHANGED <<net, table, addrs, tickets, srvcs>>

(* The daemon ends and is started again: vroute_deinit, vnode_deinit.  The *)
(* neighbours T were in its database.                                      *)
Restart(i, T) ==
    /\ Change /\ i \in Restarting
    /\ T \subseteq Peers(i)
    /\ table' = [table EXCEPT ![i] = T]
    /\ addrs' = [addrs EXCEPT ![i] = {Lan[i]}]
    /\ tickets' = [tickets EXCEPT ![i] = {}]
    /\ srvcs' = [srvcs EXCEPT ![i] = {}]
    /\ own' = [own EXCEPT ![i] = {}]
    /\ nice' = [nice EXCEPT ![i] = 5]
    /\ UNCHANGED <<net, announced>>

-----------------------------------------------------------------------------
(* The handlers                                                            *)

(* DO_CHECK_TOKEN: the ticket with the nonce of the response is used up.   *)
HasToken(i, m) == \E t \in tickets[i] : t.nonce = Nonce(m.msg)

Punched(i, m) == {t \in tickets[i] : t.nonce # Nonce(m.msg)}

CheckToken(i, m) == HasToken(i, m) /\ tickets' = [tickets EXCEPT ![i] = Punched(i, m)]

(* Mutant: a sender that is not in the table stays unknown.                *)
CbPing_Ignored(i, m) ==
    /\ Send(Reply(i, m, "ping_rsp", EncPingRsp(Nonce(m.msg), i, Info(i, addrs[i]))))
    /\ UNCHANGED <<table, addrs, tickets, srvcs, hostVars>>

(* _vroute_cb_ping: a sender that is not in the table is put there under a *)
(* made-up id.                                                             *)
CbPing(i, m) ==
    /\ \E T \in IF Knows(i, DecPing(m.msg).id) THEN {table[i]} ELSE AddNodes(i, {FakeInfo(m.from)}) :
         table' = [table EXCEPT ![i] = T]
    /\ Send(Reply(i, m, "ping_rsp", EncPingRsp(Nonce(m.msg), i, Info(i, addrs[i]))))
    /\ UNCHANGED <<addrs, tickets, srvcs, hostVars>>

(* _vroute_cb_ping_rsp                                                     *)
CbPingRsp(i, m) ==
    /\ CheckToken(i, m)
    /\ \E T \in AddNodes(i, {DecPingRsp(m.msg).node}) : table' = [table EXCEPT ![i] = T]
    /\ Send({})
    /\ UNCHANGED <<addrs, srvcs, hostVars>>

(* _vroute_cb_find_node: no answer about an unknown node                   *)
CbFindNode(i, m) ==
    /\ LET found == {e \in Peers(i) : e.id = DecFindNode(m.msg).target}
       IN  Send(UNION {Reply(i, m, "find_node_rsp", EncFindNodeRsp(Nonce(m.msg), i, e)) : e \in found})
    /\ UNCHANGED <<table, addrs, tickets, srvcs, hostVars>>

(* _vroute_cb_find_node_rsp                                                *)
CbFindNodeRsp(i, m) ==
    /\ CheckToken(i, m)
    /\ \E T \in AddNodes(i, {DecFindNodeRsp(m.msg).node}) : table' = [table EXCEPT ![i] = T]
    /\ Send({})
    /\ UNCHANGED <<addrs, srvcs, hostVars>>

(* The infos that find_closest_nodes collects, in one of their orders.     *)
(* There is room for all of them in a response (MAX_CAPC).                 *)
Listing(S) == CHOOSE l \in [1 .. Cardinality(S) -> S] : \A e \in S : \E k \in DOMAIN l : l[k] = e

(* _vroute_cb_find_closest_nodes: no answer if there are none              *)
CbFindClosestNodes(i, m) ==
    /\ LET closest == {e \in Peers(i) : e.id # DecFindClosestNodes(m.msg).target}
       IN  Send(IF closest = {} THEN {}
                     ELSE Reply(i, m, "find_closest_nodes_rsp",
                                EncFindClosestNodesRsp(Nonce(m.msg), i, Listing(closest))))
    /\ UNCHANGED <<table, addrs, tickets, srvcs, hostVars>>

(* _vroute_cb_find_closest_nodes_rsp                                       *)
CbFindClosestNodesRsp(i, m) ==
    /\ CheckToken(i, m)
    /\ LET closest == DecFindClosestNodesRsp(m.msg).closest
       IN  \E T \in AddNodes(i, {closest[k] : k \in DOMAIN closest}) : table' = [table EXCEPT ![i] = T]
    /\ Send({})
    /\ UNCHANGED <<addrs, srvcs, hostVars>>

(* Mutant: the querier is told the address of the node it asked.           *)
CbReflex_Own(i, m) ==
    /\ Send({Datagram(i, m.from, EncReflexRsp(Nonce(m.msg), i, i))})
    /\ UNCHANGED <<table, addrs, tickets, srvcs, hostVars>>

(* _vroute_cb_reflex: the querier is told where its datagram came from.    *)
CbReflex(i, m) ==
    /\ Send({Datagram(i, m.from, EncReflexRsp(Nonce(m.msg), i, m.from))})
    /\ UNCHANGED <<table, addrs, tickets, srvcs, hostVars>>

(* _vroute_cb_reflex_rsp and _vnode_reflex_addr: an address of its own     *)
CbReflexRsp(i, m) ==
    /\ CheckToken(i, m)
    /\ addrs' = [addrs EXCEPT ![i] = @ \cup {DecReflexRsp(m.msg).addr}]
    /\ Send({})
    /\ UNCHANGED <<table, srvcs, hostVars>>

(* _vroute_cb_probe: a probe for another node is not answered.             *)
CbProbe(i, m) ==
    /\ DecProbe(m.msg).target = i
    /\ Send({Datagram(i, m.from, EncProbeRsp(Nonce(m.msg), i))})
    /\ UNCHANGED <<table, addrs, tickets, srvcs, hostVars>>

(* _vroute_cb_probe_rsp                                                    *)
CbProbeRsp(i, m) ==
    /\ CheckToken(i, m)
    /\ Send({})
    /\ UNCHANGED <<table, addrs, srvcs, hostVars>>

(* _vroute_cb_post_service: taken from anybody                             *)
CbPostService(i, m) ==
    /\ \E S \in AddService(srvcs[i], DecPostService(m.msg).srvci) : srvcs' = [srvcs EXCEPT ![i] = S]
    /\ Send({})
    /\ UNCHANGED <<table, addrs, tickets, hostVars>>

(* _vroute_cb_find_service: from the service space only, which holds what  *)
(* others announced; no answer if there is none                            *)
CbFindService(i, m) ==
    /\ LET found == GetService(srvcs[i], DecFindService(m.msg).hash)
       IN  \/ found = {} /\ Send({})
           \/ \E s \in found : Send(Reply(i, m, "find_service_rsp", EncFindServiceRsp(Nonce(m.msg), i, s)))
    /\ UNCHANGED <<table, addrs, tickets, srvcs, hostVars>>

(* _vroute_cb_find_service_rsp, with _vroute_node_space_probe_node: unless *)
(* the service's host is known the neighbours are asked for it.  The       *)
(* response is used up, or may still come again.                           *)
CbFindServiceRsp(i, m) ==
    LET s    == DecFindServiceRsp(m.msg).srvci
        q    == IF Knows(i, s.host) THEN {} ELSE Targets(i, "find_node", Peers(i))
    IN  /\ HasToken(i, m)
        /\ \E S \in AddService(srvcs[i], s) : srvcs' = [srvcs EXCEPT ![i] = S]
        /\ \/ q = {} /\ Send({}) /\ tickets' = [tickets EXCEPT ![i] = Punched(i, m)]
           \/ \E left \in {net, net \ {m}} : \E k \in Unused(i, Punched(i, m), left) :
                /\ tickets' = [tickets EXCEPT ![i] = Punched(i, m) \cup Tokens(i, "find_node", q, k, 1)]
                /\ Carry(left \cup {Datagram(i, a, EncFindNode(QueryNonce(i, a, k, 1), i, s.host)) : a \in q})
        /\ UNCHANGED <<table, addrs, hostVars>>

Reaches(m, i) == m.to \in {i, Lan[i]}

(* _aux_route_msg_cb: the handler of the message                           *)
Receive(i, m) ==
    /\ Reaches(m, i)
    /\ \/ DhtId(m.msg) = "ping" /\ CbPing(i, m)
       \/ DhtId(m.msg) = "ping_rsp" /\ CbPingRsp(i, m)
       \/ DhtId(m.msg) = "find_node" /\ CbFindNode(i, m)
       \/ DhtId(m.msg) = "find_node_rsp" /\ CbFindNodeRsp(i, m)
       \/ DhtId(m.msg) = "find_closest_nodes" /\ CbFindClosestNodes(i, m)
       \/ DhtId(m.msg) = "find_closest_nodes_rsp" /\ CbFindClosestNodesRsp(i, m)
       \/ DhtId(m.msg) = "reflex" /\ CbReflex(i, m)
       \/ DhtId(m.msg) = "reflex_rsp" /\ CbReflexRsp(i, m)
       \/ DhtId(m.msg) = "probe" /\ CbProbe(i, m)
       \/ DhtId(m.msg) = "probe_rsp" /\ CbProbeRsp(i, m)
       \/ DhtId(m.msg) = "post_service" /\ CbPostService(i, m)
       \/ DhtId(m.msg) = "find_service" /\ CbFindService(i, m)
       \/ DhtId(m.msg) = "find_service_rsp" /\ CbFindServiceRsp(i, m)

(* Datagrams are lost.                                                     *)
Lose ==
    /\ net # {} /\ Send({})
    /\ UNCHANGED <<table, addrs, tickets, srvcs, hostVars>>

(* A second passes.                                                        *)
Pass ==
    /\ srvcs' = [i \in Nodes |-> Aged(srvcs[i])]
    /\ UNCHANGED <<net, table, addrs, tickets, hostVars>>

-----------------------------------------------------------------------------
Init ==
    /\ net = {}
    /\ table = [i \in Nodes |-> {Info(j, {Lan[j]}) : j \in Known[i]}]
    /\ addrs = [i \in Nodes |-> {Lan[i]}]
    /\ tickets = [i \in Nodes |-> {}]
    /\ srvcs = [i \in Nodes |-> {}]
    /\ own = [i \in Nodes |-> {}]
    /\ nice = [i \in Nodes |-> 5]
    /\ announced = {}
    /\ changes = 0

Next ==
    \/ \E i \in Nodes :
         \/ \E a \in Boots[i] : JoinNode(i, a)
         \/ \E P \in SUBSET table[i], F \in SUBSET Peers(i), R \in SUBSET tickets[i] : Tick(i, P, F, R)
         \/ \E eaddrs \in BOOLEAN, Q \in SUBSET Peers(i) : NodeTick(i, eaddrs, Q)
         \/ \E h \in Wants[i] : ProbeService(i, h)
         \/ \E o \in Offers[i] : Post(i, o.hash, o.proto, o.entry)
         \/ \E s \in own[i] : UnpostExt(i, s.hash) \/ \E e \in s.addrs : Unpost(i, s.hash, e.addr)
         \/ \E ratio \in Ratios : Renice(i, ratio)
         \/ \E T \in SUBSET Peers(i) : Restart(i, T)
         \/ \E m \in net : Receive(i, m)
    \/ Lose
    \/ Pass

Spec == Init /\ [][Next]_vars

(* A message for j enters the network.                                     *)
Sent(i, j, id) == \E m \in net' \ net : m.from = i /\ Reaches(m, j) /\ DhtId(m.msg) = id

(* j's message is handled by i.                                            *)
Handled(i, j, id) == \E m \in net : m.from = j /\ DhtId(m.msg) = id /\ Receive(i, m)

(* A query is answered before its ticket is overdue.                           *)
Answered(i, j, id) ==
    /\ Handled(i, j, id)
    /\ \E m \in net' \ net :
         m.from = i /\ Reaches(m, j) /\ DhtId(m.msg) = RspId[id] /\ HasToken(j, m)

Ticked(i) == \E P \in SUBSET table[i], F \in SUBSET Peers(i) : Tick(i, P, F, {})

(* The boot nodes are joined, overdue tickets are reaped, no datagram is   *)
(* under way for ever.  Between the two ends of a link a message that is   *)
(* sent, or answered in time, again and again gets through some time.      *)
Fairness ==
    /\ WF_vars(Lose /\ net' = {})
    /\ \A i \in Nodes :
         /\ \A j \in Boots[i] : WF_vars(JoinNode(i, j))
         /\ WF_vars(tickets[i] # {} /\ Tick(i, {}, {}, tickets[i]))
    /\ \A l \in Links :
         /\ SF_vars(Ticked(l[2]) /\ Sent(l[2], l[3], l[1]))
         /\ SF_vars(Answered(l[3], l[2], l[1]))
         /\ SF_vars(Handled(l[2], l[3], RspId[l[1]]))
    /\ \A l \in AirLinks :
         /\ SF_vars(NodeTick(l[1], FALSE, {}) /\ Sent(l[1], l[2], "post_service"))
         /\ SF_vars(Handled(l[2], l[1], "post_service"))

FairSpec == Spec /\ Fairness

-----------------------------------------------------------------------------
(* Properties                                                              *)

Addresses == Nodes \cup {Lan[i] : i \in Nodes}
AddrsOf(i) == {i, Lan[i]}
Infos   == [id : Nodes \cup {NoId}, addrs : SUBSET Addresses]
Nonces  == [by : Nodes, to : Addresses, no : Numbers, nth : 1 .. 3]
AllIds  == {QueryId[q] : q \in DOMAIN QueryId} \cup {RspId[q] : q \in DOMAIN RspId}
Tickets == [nonce : Nonces, kind : DOMAIN RspId]

(* Every variable holds values of its type, and every message can be read. *)
TypeOK ==
    /\ \A m \in net : /\ m.from \in Nodes /\ m.to \in Addresses
                      /\ Nonce(m.msg) \in Nonces /\ DhtId(m.msg) \in AllIds
    /\ table \in [Nodes -> SUBSET Infos]
    /\ addrs \in [Nodes -> SUBSET Addresses]
    /\ tickets \in [Nodes -> SUBSET Tickets]
    /\ \A i \in Nodes : \A e \in srvcs[i] : e.age \in 0 .. MaxAge
    /\ \A s \in announced : s.host \in Nodes /\ s.hash \in Hashes /\ s.nice \in Nat
    /\ nice \in [Nodes -> 0 .. NiceLimit - 1]
    /\ changes \in 0 .. MaxChanges

(* Whatever a node has learned about a service, from its host or from      *)
(* others, is one of the versions that the host has had, unmixed: copies   *)
(* go from node to node and entries take the place of others.              *)
Integrity ==
    \A i \in Nodes : \A e \in srvcs[i] : e.srvci \in announced

(* No bucket holds more than bucket_sz entries, nor the same service of    *)
(* the same host twice.                                                    *)
BucketSound ==
    \A i \in Nodes :
      /\ \A j \in Nodes : Cardinality(Bucket(srvcs[i], BucketOf[j])) =< BucketSz
      /\ \A e, f \in srvcs[i] : SameService(e, f.srvci) => e = f

(* However busy its host is, a service that a node has an entry for is     *)
(* found: the nice values that hosts compute stay below min_nice.          *)
Findable ==
    \A i \in Nodes : \A e \in srvcs[i] : GetService(srvcs[i], e.srvci.hash) # {}

(* A response that would be accepted (only its nonce is compared) is one   *)
(* to the query that the ticket was made for, from the node that was       *)
(* asked.                                                                  *)
AnswersMatch ==
    \A i \in Nodes : \A m \in net, t \in tickets[i] :
        Nonce(m.msg) = t.nonce /\ Reaches(m, i) /\ Unpack(Find(m.msg, "y")) = "r" =>
            DhtId(m.msg) = RspId[t.kind] /\ t.nonce.to \in AddrsOf(m.from)

(* What a table says about a real node is true: its addresses lead to it.  *)
(* A node has one info of another at most and none of itself, and its own  *)
(* addresses are its own.                                                  *)
Truthful ==
    \A i \in Nodes :
      /\ addrs[i] \subseteq AddrsOf(i)
      /\ \A e \in Peers(i) : e.id # i /\ e.addrs # {} /\ e.addrs \subseteq AddrsOf(e.id)
      /\ \A e, f \in Peers(i) : e.id = f.id => e = f

(* Every message that is under way is read back by be_decode as it was     *)
(* written by be_encode, and no part of it is taken for a message, wherever *)
(* it ends.  (That a part would be refused in good order is not claimed:   *)
(* the parser meets its assertion there or frees what was never set.)      *)
WireFaithful ==
    \A m \in net :
        LET data == be_encode(m.msg)
        IN  /\ be_decode(data) = Got(m.msg)
            /\ \A part \in Parts(data) : be_decode(part).st # "ok"

(* Once the host changes nothing any more, its neighbour at the other end  *)
(* of the link has the present version of its services again and again,    *)
(* although old announcements may arrive late or twice.                    *)
Aired ==
    \A l \in AirLinks :
        []<>(Knows(l[1], l[2]) => own[l[1]] \subseteq {e.srvci : e \in srvcs[l[2]]})

(* The two ends of a link, one of which knew the address of the other, end *)
(* up in each other's tables, whatever is lost, duplicated, overdue or     *)
(* restarted before; and who asks a neighbour for nodes learns all of the  *)
(* neighbour's.                                                            *)
Converges ==
    \A l \in Links :
        <>[]/\ Knows(l[2], l[3])
            /\ l[1] = "find_closest_nodes" =>
                 \A e \in Peers(l[3]) : e.id # l[2] => Knows(l[2], e.id)
=============================================================================
