-------------------------------- MODULE Dht --------------------------------
(***************************************************************************)
(* The messages of the DHT protocol: what vdht.c puts into the bencoded    *)
(* dictionary of each message and what it reads out of it again.           *)
(*                                                                         *)
(* A be_node is a byte string, a list or a dictionary.  The content of a   *)
(* byte string (an id, a nonce, a node info, a service info) is one value: *)
(* the structs are copied bytewise.  How the dictionary itself becomes a   *)
(* datagram is the subject of module Bencode.                              *)
(***************************************************************************)

(* be_create_str, be_create_buf; be_create_list, be_add_list;              *)
(* be_create_dict, be_add_keypair                                          *)
Str(s)  == [type |-> "str",  s |-> s]
List(l) == [type |-> "list", l |-> l]
Dict(d) == [type |-> "dict", d |-> d]

(* be_find_node and be_unpack_buf                                          *)
Find(node, key) == node.d[key]
Unpack(node)    == node.s

Query(name, nonce, args) ==
    Dict([t |-> Str(nonce), y |-> Str("q"), q |-> Str(name), a |-> Dict(args)])

Response(name, nonce, args) ==
    Dict([t |-> Str(nonce), y |-> Str("r"), r |-> Str(name), a |-> Dict(args)])

-----------------------------------------------------------------------------
(* The encoders                                                            *)

EncPing(n, src) == Query("ping", n, [id |-> Str(src)])

EncPingRsp(n, src, nodei) ==
    Response("ping", n, [id |-> Str(src), node |-> Str(nodei)])

EncFindNode(n, src, target) ==
    Query("find_node", n, [id |-> Str(src), target |-> Str(target)])

EncFindNodeRsp(n, src, nodei) ==
    Response("find_node", n, [id |-> Str(src), node |-> Str(nodei)])

EncFindClosestNodes(n, src, target) ==
    Query("find_closest_nodes", n, [id |-> Str(src), target |-> Str(target)])

EncFindClosestNodesRsp(n, src, closest) ==
    Response("find_closest_nodes", n,
             [id |-> Str(src), nodes |-> List([k \in DOMAIN closest |-> Str(closest[k])])])

EncReflex(n, src) == Query("reflex", n, [id |-> Str(src)])

EncReflexRsp(n, src, addr) ==
    Response("reflex", n, [id |-> Str(src), m |-> Str(addr)])

EncProbe(n, src, target) ==
    Query("probe", n, [id |-> Str(src), target |-> Str(target)])

EncProbeRsp(n, src) == Response("probe", n, [id |-> Str(src)])

EncPostService(n, src, srvci) ==
    Query("post_service", n, [id |-> Str(src), service |-> Str(srvci)])

EncFindService(n, src, hash) ==
    Query("find_service", n, [id |-> Str(src), target |-> Str(hash)])

EncFindServiceRsp(n, src, srvci) ==
    Response("find_service", n, [id |-> Str(src), service |-> Str(srvci)])

-----------------------------------------------------------------------------
(* The decoders                                                            *)

(* The tables of the names: vdht_get_queryId and vdht_get_rspId            *)
QueryId == [ping |-> "ping", find_node |-> "find_node",
            find_closest_nodes |-> "find_closest_nodes", reflex |-> "reflex",
            probe |-> "probe", post_service |-> "post_service",
            find_service |-> "find_service"]

RspId == [ping |-> "ping_rsp", find_node |-> "find_node_rsp",
          find_closest_nodes |-> "find_closest_nodes_rsp", reflex |-> "reflex_rsp",
          probe |-> "probe_rsp", find_service |-> "find_service_rsp"]

(* _aux_unpack_dhtId: which handler a message is for                       *)
DhtId(msg) ==
    IF Unpack(Find(msg, "y")) = "q" THEN QueryId[Unpack(Find(msg, "q"))]
    ELSE RspId[Unpack(Find(msg, "r"))]

(* The parts that the decoders of the messages read                        *)
Nonce(msg)    == Unpack(Find(msg, "t"))
Arg(msg, key) == Unpack(Find(Find(msg, "a"), key))

DecPing(msg)             == [id |-> Arg(msg, "id")]
DecPingRsp(msg)          == [node |-> Arg(msg, "node")]   \* the sender is not read
DecFindNode(msg)         == [id |-> Arg(msg, "id"), target |-> Arg(msg, "target")]
DecFindNodeRsp(msg)      == [id |-> Arg(msg, "id"), node |-> Arg(msg, "node")]
DecFindClosestNodes(msg) == [id |-> Arg(msg, "id"), target |-> Arg(msg, "target")]

DecFindClosestNodesRsp(msg) ==
    LET nodes == Find(Find(msg, "a"), "nodes").l
    IN  [id |-> Arg(msg, "id"), closest |-> [k \in DOMAIN nodes |-> Unpack(nodes[k])]]

DecReflex(msg)         == [id |-> Arg(msg, "id")]
DecReflexRsp(msg)      == [id |-> Arg(msg, "id"), addr |-> Arg(msg, "m")]
DecProbe(msg)          == [id |-> Arg(msg, "id"), target |-> Arg(msg, "target")]
DecProbeRsp(msg)       == [id |-> Arg(msg, "id")]
DecPostService(msg)    == [id |-> Arg(msg, "id"), srvci |-> Arg(msg, "service")]
DecFindService(msg)    == [id |-> Arg(msg, "id"), hash |-> Arg(msg, "target")]
DecFindServiceRsp(msg) == [id |-> Arg(msg, "id"), srvci |-> Arg(msg, "service")]
=============================================================================
