----------------------------- MODULE MCOverlay -----------------------------
(* Instances of Overlay.                                                   *)
EXTENDS Overlay

CONSTANTS a, b, c, la, h1, h2, e1, e2

(* Discovery: a and b know each other, and c knows the address of b.       *)
JoinProps == [i \in Nodes |->
    CASE i = a -> {"ping_rsp"}
      [] i = b -> {"ping", "ping_rsp", "find_closest_nodes_rsp"}
      [] i = c -> {"ping", "ping_rsp", "find_closest_nodes"}]
JoinBoots == [i \in Nodes |-> IF i = c THEN {b} ELSE {}]
JoinKnown == [i \in Nodes |-> CASE i = a -> {b} [] i = b -> {a} [] i = c -> {}]
JoinLinks == {<<"ping", b, c>>, <<"ping", c, b>>, <<"find_closest_nodes", c, b>>}
Itself    == [i \in Nodes |-> i]
None      == [i \in Nodes |-> {}]
JoinBucketOf == [i \in Nodes |-> 1]

(* Services: a, behind a NAT, and b have some, c looks for them.  Those of *)
(* b do not fit into one bucket.                                           *)
ShareLan   == [i \in Nodes |-> IF i = a THEN la ELSE i]
ShareProps == [i \in Nodes |->
    CASE i = a -> {"ping", "post_service", "find_node_rsp"}
      [] i = b -> {"post_service", "find_service_rsp", "find_node_rsp"}
      [] i = c -> {"find_service", "find_node"}]
ShareKnown == [i \in Nodes |-> CASE i = a -> {b} [] i = b -> {a, c} [] i = c -> {b}]

OfferOf(h, x) == [hash |-> h, proto |-> "udp", entry |-> [addr |-> x, type |-> 0]]

ShareOffers == [i \in Nodes |->
    CASE i = a -> {OfferOf(h1, e1), OfferOf(h1, e2)}
      [] i = b -> {OfferOf(h1, e1), OfferOf(h2, e2)}
      [] i = c -> {}]
ShareWants    == [i \in Nodes |-> IF i = c THEN {h1} ELSE {}]
ShareBucketOf == [i \in Nodes |-> IF i = a THEN 1 ELSE 2]
ShareRatios   == {<<10, 10, 10, 10, 10>>}
ShareAirLinks == {<<a, b>>}
=============================================================================
