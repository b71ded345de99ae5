------------------------------ MODULE SrvcInfo ------------------------------
(***************************************************************************)
(* Service infos (vsrvcInfo of vnodeId.c) and the services that a host's   *)
(* clients have posted (node->services of vnode.c).                        *)
(*                                                                         *)
(* The addresses of a service are a set of [addr, type] entries, one per   *)
(* address: their order is a matter of presentation.  A host's services    *)
(* are a set of infos, one per hash.                                       *)
(***************************************************************************)
EXTENDS Naturals, FiniteSets

CONSTANT MaxSrvcAddrs  \* VSRVCINFO_MAX_ADDRS

ASSUME SrvcInfoAssumption == MaxSrvcAddrs \in Nat \ {0}

(* vsrvcInfo_add_addr: a full info takes nothing more, not even the new    *)
(* type of an address it has.                                              *)
AddSrvcAddr(addrs, e) ==
    IF Cardinality(addrs) >= MaxSrvcAddrs THEN addrs
    ELSE {x \in addrs : x.addr # e.addr} \cup {e}

(* vsrvcInfo_del_addr                                                      *)
DelSrvcAddr(addrs, a) == {x \in addrs : x.addr # a}

(* vsrvcInfo_init and the first address                                    *)
NewSrvc(host, hash, nice, proto, e) ==
    [host |-> host, hash |-> hash, nice |-> nice, proto |-> proto, addrs |-> {e}]

-----------------------------------------------------------------------------
Posted(services, hash) == {s \in services : s.hash = hash}

(* _vnode_srvc_post with one entry: a new service, or one more address of  *)
(* a posted one unless that speaks another protocol                        *)
SrvcPost(services, host, hash, nice, proto, e) ==
    IF Posted(services, hash) = {} THEN services \cup {NewSrvc(host, hash, nice, proto, e)}
    ELSE {IF s.hash = hash /\ s.proto = proto THEN [s EXCEPT !.addrs = AddSrvcAddr(@, e)] ELSE s :
            s \in services}

(* _vnode_srvc_unpost: a service without addresses goes.                   *)
SrvcUnpost(services, hash, a) ==
    {s \in {IF s.hash = hash THEN [s EXCEPT !.addrs = DelSrvcAddr(@, a)] ELSE s : s \in services} :
       s.addrs # {}}

(* _vnode_srvc_unpost_ext                                                  *)
SrvcUnpostExt(services, hash) == services \ Posted(services, hash)
=============================================================================
