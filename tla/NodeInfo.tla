------------------------------ MODULE NodeInfo ------------------------------
(***************************************************************************)
(* The values the routing table is made of: vnodeInfo (a DHT node's id,    *)
(* version, weight and address list) and vnodeConn (the pair of addresses  *)
(* used to talk to it), with the operations of vnodeId.c on them.          *)
(*                                                                         *)
(* An address list is a sequence of [addr, type] entries.  The type is the *)
(* low byte of vsockaddr_in.type (VSOCKADDR_TYPE); the NEED_* bits above   *)
(* it belong to the local node's own list and are not modelled here.       *)
(***************************************************************************)
EXTENDS Integers, Sequences, SequencesExt

CONSTANTS UnknownVer,  \* the version of a made-up (fake) node
          MaxAddrs     \* VNODEINFO_MAX_ADDRS

ASSUME MaxAddrsAssumption == MaxAddrs \in Nat \ {0}

(* enum VSOCKADDR_*: the smaller the value the better the address.         *)
Local     == 0
Upnp      == 1
Reflexive == 2
Relay     == 3
Unknown   == 4

AddrTypes == Local .. Unknown
Priorities == 0 .. 2 * Unknown

(* vnodeInfo_is_fake                                                       *)
IsFake(n) == n.ver = UnknownVer

(* vnodeInfo_has_addr                                                      *)
HasAddr(addrs, a) == \E i \in DOMAIN addrs : addrs[i].addr = a

(* What add_addr makes of every list it builds: no address is in it twice, *)
(* and the addresses are sorted by their types.                            *)
NoAddrTwice(s) == \A i, j \in DOMAIN s : i < j => s[i].addr # s[j].addr
ByType(s)      == \A i, j \in DOMAIN s : i < j => s[i].type =< s[j].type

(* Mutant: a new address goes to the end, whatever its type.               *)
AddAddr_Append(addrs, e) ==
    IF Len(addrs) >= MaxAddrs \/ HasAddr(addrs, e.addr) THEN addrs
    ELSE Append(addrs, e)

(***************************************************************************)
(* vnodeInfo_add_addr.  A full list is left alone (the call fails); a      *)
(* known address takes the new type unless that is UNKNOWN; a new one is   *)
(* put behind the last entry whose type is not larger.                     *)
(***************************************************************************)
AddAddr(addrs, e) ==
    IF Len(addrs) >= MaxAddrs THEN addrs
    ELSE IF HasAddr(addrs, e.addr)
    THEN [i \in DOMAIN addrs |->
            IF addrs[i].addr = e.addr /\ e.type # Unknown THEN e ELSE addrs[i]]
    ELSE LET NotLarger == {i \in DOMAIN addrs : addrs[i].type =< e.type}
         IN  InsertAt(addrs, 1 + Max({0} \cup NotLarger), e)

AddAll(addrs, more) == FoldLeft(AddAddr, addrs, more)

(* The address part of vnodeInfo_copy: the list is built up from nothing.  *)
CopyAddrs(src) == AddAll(<< >>, src)

(* vnodeInfo_copy into a fresh vnodeInfo                                   *)
Copy(src) == [src EXCEPT !.addrs = CopyAddrs(src.addrs)]

(***************************************************************************)
(* vnodeInfo_merge on the address lists:                                   *)
(*  - a fake source only contributes the addresses that are new;           *)
(*  - a list of another length replaces the old one;                       *)
(*  - otherwise the addresses are overwritten position by position, each   *)
(*    position keeping the type it had in the destination.                 *)
(***************************************************************************)
NewAddrs(dest, src) ==
    FoldLeft(LAMBDA new, e : IF HasAddr(dest, e.addr) THEN new ELSE Append(new, e),
             << >>, src)

MergeAddrs(dest, src, fake) ==
    IF fake THEN AddAll(dest, NewAddrs(dest, src))
    ELSE IF Len(dest) # Len(src) THEN CopyAddrs(src)
    ELSE [i \in DOMAIN src |-> [addr |-> src[i].addr, type |-> dest[i].type]]

(* vnodeInfo_merge: infos of different nodes are not merged; a real source *)
(* also brings its version and weight.                                     *)
Merge(dest, src) ==
    IF dest.id # src.id THEN dest
    ELSE [IF IsFake(src) THEN dest ELSE src EXCEPT
            !.addrs = MergeAddrs(dest.addrs, src.addrs, IsFake(src))]

(* Whether vnodeInfo_merge returns a positive value.  When the addresses   *)
(* of a fake source do not all fit it fails, with those that fit added.    *)
MergeUpdates(dest, src) ==
    LET d == dest.addrs
        s == src.addrs
        new == NewAddrs(d, s)
    IN  /\ dest.id = src.id
        /\ IF IsFake(src)
           THEN new # << >> /\ Len(d) + Len(new) =< MaxAddrs
           ELSE Len(d) # Len(s) \/ \E i \in DOMAIN s : d[i].addr # s[i].addr

(* vnodeInfo_worst_addr: the last, that is the least preferred, address.   *)
WorstAddr(addrs) == addrs[Len(addrs)].addr

-----------------------------------------------------------------------------
(* vnodeConn_set: a connection between two typed addresses                 *)
Conn(local, remote) ==
    [laddr |-> local.addr, raddr |-> remote.addr,
     priority |-> local.type + remote.type]

(* vnodeConn_set_raw: nothing is known about the two addresses             *)
RawConn(laddr, raddr) ==
    [laddr |-> laddr, raddr |-> raddr, priority |-> Unknown + Unknown]

(* Mutant: the latest connection wins.                                     *)
AdjustConn_Latest(old, neo) == neo

(* vnodeConn_adjust: keep the old connection only if it is strictly better *)
AdjustConn(old, neo) == IF neo.priority > old.priority THEN old ELSE neo

=============================================================================
