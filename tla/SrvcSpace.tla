----------------------------- MODULE SrvcSpace -----------------------------
(***************************************************************************)
(* The service routing space of vroute_srvc.c that keeps the service infos *)
(* of other hosts, and the nice value of vnode_nice.c that decides between *)
(* them.                                                                   *)
(*                                                                         *)
(* The array of a bucket is a set; its order only decides between entries  *)
(* that are equally old, or equally nice, and here any of those may be     *)
(* taken.                                                                  *)
(***************************************************************************)
EXTENDS SrvcInfo

CONSTANTS
    BucketOf,      \* BucketOf[i]: vsrvcId_bucket of the host id i
    BucketSz,      \* space->bucket_sz
    MaxAge         \* ages from here on are all alike

ASSUME SrvcSpaceAssumption == /\ BucketSz \in Nat \ {0}
                              /\ MaxAge \in Nat \ {0}

-----------------------------------------------------------------------------
(* An entry of the space is a service info and the time since it came.     *)
Entry(srvci, age) == [srvci |-> srvci, age |-> age]

Bucket(space, b) == {e \in space : BucketOf[e.srvci.host] = b}

(* The entry of the same service of the same host                          *)
SameService(e, srvci) == e.srvci.host = srvci.host /\ e.srvci.hash = srvci.hash

(* The entries that the walk over a bucket may end up with for a           *)
(* replacement: none that came in this very second                         *)
Oldest(bucket) == {e \in bucket : e.age > 0 /\ \A f \in bucket : f.age =< e.age}

(* Mutant: a full bucket takes one more.                                   *)
AddService_NoLimit(space, srvci) ==
    LET bucket == Bucket(space, BucketOf[srvci.host])
        same   == {e \in bucket : SameService(e, srvci)}
    IN  {(space \ same) \cup {Entry(srvci, 0)}}

(* Mutant: the copy into an old entry leaves out the hash.                 *)
AddService_Mixed(space, srvci) ==
    LET bucket == Bucket(space, BucketOf[srvci.host])
        old    == {e \in bucket : SameService(e, srvci)}
        gone   == IF old # {} THEN old ELSE Oldest(bucket)
    IN  IF old = {} /\ Cardinality(bucket) < BucketSz THEN {space \cup {Entry(srvci, 0)}}
        ELSE IF gone = {} THEN {space}
        ELSE {(space \ {e}) \cup {Entry([srvci EXCEPT !.hash = e.srvci.hash], 0)} : e \in gone}

(* Mutant: a known service is not updated.                                 *)
AddService_Once(space, srvci) ==
    {IF \E e \in space : SameService(e, srvci) THEN space ELSE space \cup {Entry(srvci, 0)}}

(* _vroute_srvc_space_add_service: the spaces that adding may lead to.  A  *)
(* known service is updated; otherwise a full bucket gives up its oldest   *)
(* entry, or discards the new one when all of them are from this second.   *)
AddService(space, srvci) ==
    LET bucket == Bucket(space, BucketOf[srvci.host])
        same   == {e \in bucket : SameService(e, srvci)}
        full   == Cardinality(bucket) >= BucketSz
        gone   == IF same # {} THEN same ELSE Oldest(bucket)
    IN  IF same = {} /\ ~full THEN {space \cup {Entry(srvci, 0)}}
        ELSE IF gone = {} THEN {space}
        ELSE {(space \ {e}) \cup {Entry(srvci, 0)} : e \in gone}

(* min_nice of _vroute_srvc_space_get_service                              *)
NiceLimit == 100

(* _vroute_srvc_space_get_service: the infos that it may return, none when *)
(* there is no such service                                                *)
GetService(space, hash) ==
    LET found == {e.srvci : e \in {f \in space : f.srvci.hash = hash /\ f.srvci.nice < NiceLimit}}
    IN  {s \in found : \A r \in found : s.nice =< r.nice}

(* A second passes.                                                        *)
Aged(space) == {[e EXCEPT !.age = IF @ < MaxAge THEN @ + 1 ELSE @] : e \in space}

-----------------------------------------------------------------------------
(* The weights of vnode_nice_init: cpu, memory, io, upload, download       *)
Factor   == <<7, 6, 3, 3, 2>>
Criteria == <<8, 8, 4, 8, 5>>

Share(ratio, k) == (IF ratio[k] < Criteria[k] THEN ratio[k] ELSE 10) * Factor[k]

(* Mutant: the sum is not scaled down.                                     *)
NiceOf_Unscaled(ratio) ==
    Share(ratio, 1) + Share(ratio, 2) + Share(ratio, 3) + Share(ratio, 4) + Share(ratio, 5)

(* _vnode_nice_get_nice for the used tenths of the five resources          *)
NiceOf(ratio) ==
    (Share(ratio, 1) + Share(ratio, 2) + Share(ratio, 3) + Share(ratio, 4) + Share(ratio, 5))
        \div 10
=============================================================================
