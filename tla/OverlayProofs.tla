--------------------------- MODULE OverlayProofs ---------------------------
(***************************************************************************)
(* Proofs about the overlay, for any number of nodes, services and         *)
(* messages under way.                                                     *)
(***************************************************************************)
EXTENDS Overlay, BencodeProofs

-----------------------------------------------------------------------------
(* The service routing space, for buckets of any size                      *)

IsEntry(e) == e = Entry(e.srvci, e.age) /\ e.age \in 0 .. MaxAge

Bounded(space) ==
    IsFiniteSet(space) /\ \A b : Cardinality(Bucket(space, b)) =< BucketSz

Unique(space) == \A e, f \in space : SameService(e, f.srvci) => e = f

Sound(space) == (\A e \in space : IsEntry(e)) /\ Bounded(space) /\ Unique(space)

-----------------------------------------------------------------------------
(* The fields of an entry                                                  *)
LEMMA EntryFields ==
    ASSUME NEW srvci, NEW age
    PROVE  Entry(srvci, age).srvci = srvci /\ Entry(srvci, age).age = age
BY DEF Entry

(* The empty space that vroute_srvc_space_init makes                       *)
LEMMA EmptySound == Sound({})
<1>1. \A b : Bucket({}, b) = {}
  BY DEF Bucket
<1> QED
  BY <1>1, FS_EmptySet, SrvcSpaceAssumption DEF Sound, Bounded, Unique

(* A space is finite in every bucket.                                      *)
LEMMA BucketFinite ==
    ASSUME NEW space, IsFiniteSet(space), NEW b
    PROVE  IsFiniteSet(Bucket(space, b)) /\ Cardinality(Bucket(space, b)) \in Nat
BY FS_Subset, FS_CardinalityType DEF Bucket

(* One more element                                                        *)
LEMMA AddBound ==
    ASSUME NEW B, IsFiniteSet(B), NEW x
    PROVE  /\ Cardinality(B) \in Nat /\ Cardinality(B \cup {x}) \in Nat
           /\ Cardinality(B \cup {x}) =< Cardinality(B) + 1
<1>1. Cardinality(B \cup {x}) = IF x \in B THEN Cardinality(B) ELSE Cardinality(B) + 1
  BY FS_AddElement
<1>2. Cardinality(B) \in Nat
  BY FS_CardinalityType
<1> QED
  BY <1>1, <1>2

(* Another element in place of one                                         *)
LEMMA SwapBound ==
    ASSUME NEW B, IsFiniteSet(B), NEW x \in B, NEW y
    PROVE  /\ Cardinality((B \ {x}) \cup {y}) \in Nat
           /\ Cardinality((B \ {x}) \cup {y}) =< Cardinality(B)
<1>1. IsFiniteSet(B \ {x}) /\ Cardinality(B \ {x}) = Cardinality(B) - 1
  BY FS_RemoveElement
<1>2. Cardinality(B) \in Nat
  BY FS_CardinalityType
<1>3. /\ Cardinality((B \ {x}) \cup {y}) \in Nat
      /\ Cardinality((B \ {x}) \cup {y}) =< Cardinality(B \ {x}) + 1
  BY <1>1, AddBound
<1> QED
  BY <1>1, <1>2, <1>3

(* What _vroute_srvc_space_add_service leaves in a space, besides the new  *)
(* service, was there before.                                              *)
LEMMA AddServiceAdds ==
    ASSUME NEW space, NEW srvci, NEW S \in AddService(space, srvci)
    PROVE  \A e \in S : e \in space \/ e = Entry(srvci, 0)
BY DEF AddService

(* _vroute_srvc_space_add_service adds an entry only where there is room,  *)
(* and only for a service that is not there yet.                           *)
LEMMA AddServiceSound ==
    ASSUME NEW space, NEW srvci, Sound(space), NEW S \in AddService(space, srvci)
    PROVE  Sound(S)
<1> DEFINE host   == srvci.host
           bucket == Bucket(space, BucketOf[host])
           same   == {e \in bucket : SameService(e, srvci)}
           new    == Entry(srvci, 0)
<1>1. new.srvci = srvci /\ new.age = 0 /\ IsEntry(new)
  BY SrvcSpaceAssumption, EntryFields DEF IsEntry
<1>2. \A e \in S : IsEntry(e)
  BY <1>1, AddServiceAdds DEF Sound
<1>3. \A e \in space : SameService(e, srvci) => e \in same
  BY DEF Bucket, SameService
<1>4. CASE same = {} /\ ~(Cardinality(bucket) >= BucketSz)
  <2>1. S = space \cup {new}
    BY <1>4 DEF AddService
  <2>2. Unique(S)
    <3> SUFFICES ASSUME NEW e \in S, NEW f \in S, SameService(e, f.srvci)
                 PROVE  e = f
      BY DEF Unique
    <3>1. CASE e \in space /\ f \in space
      BY <3>1 DEF Sound, Unique
    <3>2. CASE e = new /\ f = new
      BY <3>2
    <3>3. CASE e \in space /\ f = new
      BY <3>3, <1>1, <1>3, <1>4
    <3>4. CASE e = new /\ f \in space
      <4>1. SameService(f, srvci)
        BY <3>4, <1>1 DEF SameService
      <4> QED
        BY <4>1, <3>4, <1>3, <1>4
    <3> QED
      BY <2>1, <3>1, <3>2, <3>3, <3>4
  <2>3. Bounded(S)
    <3>1. IsFiniteSet(S)
      BY <2>1, FS_AddElement DEF Sound, Bounded
    <3>2. ASSUME NEW b
          PROVE  Cardinality(Bucket(S, b)) =< BucketSz
      <4>1. CASE b # BucketOf[host]
        <5>1. Bucket(S, b) = Bucket(space, b)
          BY <2>1, <4>1, <1>1 DEF Bucket
        <5> QED
          BY <5>1 DEF Sound, Bounded
      <4>2. CASE b = BucketOf[host]
        <5>1. Bucket(S, b) = bucket \cup {new}
          BY <2>1, <4>2, <1>1 DEF Bucket
        <5>2. IsFiniteSet(bucket) /\ Cardinality(bucket) \in Nat
          BY BucketFinite DEF Sound, Bounded
        <5> HIDE DEF bucket, new
        <5>3. /\ Cardinality(bucket \cup {new}) \in Nat
              /\ Cardinality(bucket \cup {new}) =< Cardinality(bucket) + 1
          BY <5>2, AddBound
        <5> QED
          BY <5>1, <5>2, <5>3, <1>4, SrvcSpaceAssumption
      <4> QED
        BY <4>1, <4>2
    <3> QED
      BY <3>1, <3>2 DEF Bounded
  <2> QED
    BY <1>2, <2>2, <2>3 DEF Sound
<1>5. CASE ~(same = {} /\ ~(Cardinality(bucket) >= BucketSz))
  <2> DEFINE gone == IF same # {} THEN same ELSE Oldest(bucket)
  <2>1. CASE gone = {}
    <3>1. S = space
      BY <1>5, <2>1 DEF AddService
    <3> QED
      BY <3>1
  <2>2. CASE gone # {}
    <3>1. PICK old \in gone : S = (space \ {old}) \cup {new}
      BY <1>5, <2>2 DEF AddService
    <3>2. old \in bucket /\ old \in space
      BY <3>1 DEF Oldest, Bucket
    <3>3. BucketOf[old.srvci.host] = BucketOf[host]
      BY <3>2 DEF Bucket
    <3>4. \A e \in space \ {old} : ~SameService(e, srvci)
      <4> SUFFICES ASSUME NEW e \in space \ {old}, SameService(e, srvci)
                   PROVE  FALSE
        OBVIOUS
      <4>1. e \in same /\ old \in same
        BY <1>3, <3>1
      <4>2. SameService(e, old.srvci)
        BY <4>1 DEF SameService
      <4> QED
        BY <4>2, <3>2 DEF Sound, Unique
    <3>5. Unique(S)
      <4> SUFFICES ASSUME NEW e \in S, NEW f \in S, SameService(e, f.srvci)
                   PROVE  e = f
        BY DEF Unique
      <4>1. CASE e \in space \ {old} /\ f \in space \ {old}
        BY <4>1 DEF Sound, Unique
      <4>2. CASE e = new /\ f = new
        BY <4>2
      <4>3. CASE e \in space \ {old} /\ f = new
        BY <4>3, <1>1, <3>4
      <4>4. CASE e = new /\ f \in space \ {old}
        <5>1. SameService(f, srvci)
          BY <4>4, <1>1 DEF SameService
        <5> QED
          BY <5>1, <4>4, <3>4
      <4> QED
        BY <3>1, <4>1, <4>2, <4>3, <4>4
    <3>6. IsFiniteSet(space \ {old}) /\ IsFiniteSet(S)
      BY <3>1, FS_RemoveElement, FS_AddElement DEF Sound, Bounded
    <3>7. ASSUME NEW b
          PROVE  Cardinality(Bucket(S, b)) =< BucketSz
      <4>1. CASE b # BucketOf[host]
        <5>1. Bucket(S, b) = Bucket(space, b)
          BY <3>1, <3>3, <4>1, <1>1 DEF Bucket
        <5> QED
          BY <5>1 DEF Sound, Bounded
      <4>2. CASE b = BucketOf[host]
        <5>1. Bucket(S, b) = (bucket \ {old}) \cup {new}
          BY <3>1, <4>2, <1>1 DEF Bucket
        <5>2. IsFiniteSet(bucket) /\ Cardinality(bucket) \in Nat /\ Cardinality(bucket) =< BucketSz
          BY BucketFinite DEF Sound, Bounded
        <5> HIDE DEF bucket, new
        <5>3. /\ Cardinality((bucket \ {old}) \cup {new}) \in Nat
              /\ Cardinality((bucket \ {old}) \cup {new}) =< Cardinality(bucket)
          BY <5>2, <3>2, SwapBound
        <5> QED
          BY <5>1, <5>2, <5>3, SrvcSpaceAssumption
      <4> QED
        BY <4>1, <4>2
    <3> QED
      BY <1>2, <3>5, <3>6, <3>7 DEF Sound, Bounded
  <2> QED
    BY <2>1, <2>2
<1> QED
  BY <1>4, <1>5

-----------------------------------------------------------------------------
Older(e) == [e EXCEPT !.age = IF @ < MaxAge THEN @ + 1 ELSE @]

(* Growing older leaves the service alone.                                 *)
LEMMA OlderSame ==
    ASSUME NEW e, IsEntry(e)
    PROVE  IsEntry(Older(e)) /\ Older(e).srvci = e.srvci
BY SrvcSpaceAssumption DEF Older, IsEntry, Entry

(* The ages of the entries do not matter to a space's soundness.           *)
LEMMA AgedSound ==
    ASSUME NEW space, Sound(space)
    PROVE  Sound(Aged(space))
<1>1. Aged(space) = {Older(e) : e \in space}
  BY DEF Aged, Older
<1>2. \A e \in space : IsEntry(e) /\ IsEntry(Older(e)) /\ Older(e).srvci = e.srvci
  BY OlderSame DEF Sound
<1>3. ASSUME NEW T \in SUBSET space
      PROVE  /\ IsFiniteSet({Older(e) : e \in T})
             /\ Cardinality({Older(e) : e \in T}) =< Cardinality(T)
  <2> DEFINE img == {Older(e) : e \in T}
             f   == [e \in T |-> Older(e)]
  <2>1. f \in Surjection(T, img)
    BY DEF Surjection
  <2>2. IsFiniteSet(T)
    BY FS_Subset DEF Sound, Bounded
  <2> HIDE DEF f, img
  <2>3. IsFiniteSet(img) /\ Cardinality(img) =< Cardinality(T)
    BY <2>1, <2>2, FS_Surjection
  <2> QED
    BY <2>3 DEF img
<1>4. ASSUME NEW b
      PROVE  Cardinality(Bucket(Aged(space), b)) =< BucketSz
  <2> DEFINE T == Bucket(space, b)
  <2>1. Bucket(Aged(space), b) = {Older(e) : e \in T}
    BY <1>1, <1>2 DEF Bucket
  <2>2. T \in SUBSET space
    BY DEF Bucket
  <2>3. Cardinality(T) \in Nat /\ Cardinality(T) =< BucketSz
    BY BucketFinite DEF Sound, Bounded
  <2> HIDE DEF T
  <2>4. /\ IsFiniteSet({Older(e) : e \in T})
        /\ Cardinality({Older(e) : e \in T}) =< Cardinality(T)
    BY <1>3, <2>2
  <2>5. Cardinality({Older(e) : e \in T}) \in Nat
    BY <2>4, FS_CardinalityType
  <2> QED
    BY <2>1, <2>3, <2>4, <2>5, SrvcSpaceAssumption
<1>5. IsFiniteSet(Aged(space))
  BY <1>1, <1>3
<1>6. Unique(Aged(space))
  <2> SUFFICES ASSUME NEW e \in space, NEW f \in space, SameService(Older(e), Older(f).srvci)
               PROVE  Older(e) = Older(f)
    BY <1>1 DEF Unique
  <2>1. SameService(e, f.srvci)
    BY <1>2 DEF SameService
  <2> QED
    BY <2>1 DEF Sound, Unique
<1> QED
  BY <1>1, <1>2, <1>4, <1>5, <1>6 DEF Sound, Bounded

(* The services of a space are those that were there a second ago.         *)
LEMMA AgedSame ==
    ASSUME NEW space, Sound(space), NEW e \in Aged(space)
    PROVE  \E f \in space : e.srvci = f.srvci
<1>1. PICK f \in space : e = Older(f)
  BY DEF Aged, Older
<1> QED
  BY <1>1, OlderSame DEF Sound

-----------------------------------------------------------------------------
(* _vroute_srvc_space_get_service finds some info of a service that it has *)
(* entries of, as long as their nice values are below its min_nice.        *)
LEMMA GetServiceFinds ==
    ASSUME NEW space, NEW e \in space,
           \A f \in space : f.srvci.nice \in 0 .. NiceLimit - 1
    PROVE  GetService(space, e.srvci.hash) # {}
<1> DEFINE found == {f.srvci : f \in {g \in space : g.srvci.hash = e.srvci.hash /\ g.srvci.nice < NiceLimit}}
           nices == {s.nice : s \in found}
<1>1. e.srvci \in found
  BY DEF NiceLimit
<1>2. nices \subseteq Nat /\ nices # {}
  BY <1>1 DEF NiceLimit
<1>3. PICK n \in nices : \A k \in nices : n =< k
  BY <1>2, LeastNumber
<1>4. PICK s \in found : s.nice = n
  BY <1>3
<1>5. \A r \in found : s.nice =< r.nice
  BY <1>3, <1>4
<1> QED
  BY <1>4, <1>5 DEF GetService

(* What _vroute_srvc_space_get_service returns is of an entry.             *)
LEMMA GetServiceOf ==
    ASSUME NEW space, NEW hash, NEW s \in GetService(space, hash)
    PROVE  \E e \in space : s = e.srvci
BY DEF GetService

(* A resource contributes ten times its weight at most.                    *)
LEMMA ShareBound ==
    ASSUME NEW ratio \in [1 .. 5 -> 0 .. 10], NEW k \in 1 .. 5
    PROVE  Share(ratio, k) \in 0 .. 70
<1>1. Factor[k] \in 0 .. 7
  BY DEF Factor
<1>2. ratio[k] \in 0 .. 10
  OBVIOUS
<1>3. \A x \in 0 .. 10, y \in 0 .. 7 : x * y \in 0 .. 70
  OBVIOUS
<1> QED
  BY <1>1, <1>2, <1>3 DEF Share

(* The nice value of _vnode_nice_get_nice stays below the min_nice of      *)
(* _vroute_srvc_space_get_service whatever the load is.                    *)
LEMMA NiceBound ==
    ASSUME NEW ratio \in [1 .. 5 -> 0 .. 10]
    PROVE  NiceOf(ratio) \in 0 .. NiceLimit - 1
<1>1. /\ Share(ratio, 1) \in 0 .. 70 /\ Share(ratio, 2) \in 0 .. 70
      /\ Share(ratio, 3) \in 0 .. 70 /\ Share(ratio, 4) \in 0 .. 70
      /\ Share(ratio, 5) \in 0 .. 70
  BY ShareBound
<1>2. PICK p \in 0 .. 70, q \in 0 .. 70, r \in 0 .. 70, s \in 0 .. 70, t \in 0 .. 70 :
        /\ p = Share(ratio, 1) /\ q = Share(ratio, 2) /\ r = Share(ratio, 3)
        /\ s = Share(ratio, 4) /\ t = Share(ratio, 5)
  BY <1>1
<1>3. NiceOf(ratio) = (p + q + r + s + t) \div 10
  BY <1>2 DEF NiceOf
<1>4. (p + q + r + s + t) \div 10 \in 0 .. 35
  OBVIOUS
<1> QED
  BY <1>3, <1>4 DEF NiceLimit

-----------------------------------------------------------------------------
IsRsp(msg) == Unpack(Find(msg, "y")) = "r"

-----------------------------------------------------------------------------
(* What the decoders of vdht.c find in the messages of its encoders        *)

(* _vdht_enc_ping and _vdht_dec_ping                                       *)
LEMMA PingMsg ==
    ASSUME NEW n, NEW src
    PROVE  LET msg == EncPing(n, src)
           IN  /\ DhtId(msg) = "ping" /\ Nonce(msg) = n /\ ~IsRsp(msg)
               /\ DecPing(msg).id = src
BY DEF EncPing, Query, DhtId, Nonce, IsRsp, Unpack, Find, Str, Dict,
       QueryId, DecPing, Arg

(* _vdht_enc_ping_rsp and _vdht_dec_ping_rsp                               *)
LEMMA PingRspMsg ==
    ASSUME NEW n, NEW src, NEW nodei
    PROVE  LET msg == EncPingRsp(n, src, nodei)
           IN  /\ DhtId(msg) = "ping_rsp" /\ Nonce(msg) = n /\ IsRsp(msg)
               /\ DecPingRsp(msg).node = nodei
BY DEF EncPingRsp, Response, DhtId, Nonce, IsRsp, Unpack, Find, Str, Dict,
       RspId, DecPingRsp, Arg

(* _vdht_enc_find_node and _vdht_dec_find_node                             *)
LEMMA FindNodeMsg ==
    ASSUME NEW n, NEW src, NEW target
    PROVE  LET msg == EncFindNode(n, src, target)
           IN  /\ DhtId(msg) = "find_node" /\ Nonce(msg) = n /\ ~IsRsp(msg)
               /\ DecFindNode(msg).target = target
BY DEF EncFindNode, Query, DhtId, Nonce, IsRsp, Unpack, Find, Str, Dict,
       QueryId, DecFindNode, Arg

(* _vdht_enc_find_node_rsp and _vdht_dec_find_node_rsp                     *)
LEMMA FindNodeRspMsg ==
    ASSUME NEW n, NEW src, NEW nodei
    PROVE  LET msg == EncFindNodeRsp(n, src, nodei)
           IN  /\ DhtId(msg) = "find_node_rsp" /\ Nonce(msg) = n /\ IsRsp(msg)
               /\ DecFindNodeRsp(msg).node = nodei
BY DEF EncFindNodeRsp, Response, DhtId, Nonce, IsRsp, Unpack, Find, Str, Dict,
       RspId, DecFindNodeRsp, Arg

(* _vdht_enc_find_closest_nodes and _vdht_dec_find_closest_nodes           *)
LEMMA FindClosestNodesMsg ==
    ASSUME NEW n, NEW src, NEW target
    PROVE  LET msg == EncFindClosestNodes(n, src, target)
           IN  /\ DhtId(msg) = "find_closest_nodes" /\ Nonce(msg) = n /\ ~IsRsp(msg)
               /\ DecFindClosestNodes(msg).target = target
BY DEF EncFindClosestNodes, Query, DhtId, Nonce, IsRsp, Unpack, Find, Str, Dict,
       QueryId, DecFindClosestNodes, Arg

(* _vdht_enc_find_closest_nodes_rsp and _vdht_dec_find_closest_nodes_rsp   *)
LEMMA FindClosestNodesRspMsg ==
    ASSUME NEW n, NEW src, NEW closest
    PROVE  LET msg == EncFindClosestNodesRsp(n, src, closest)
           IN  /\ DhtId(msg) = "find_closest_nodes_rsp" /\ Nonce(msg) = n /\ IsRsp(msg)
               /\ DecFindClosestNodesRsp(msg).closest = [k \in DOMAIN closest |-> closest[k]]
BY DEF EncFindClosestNodesRsp, Response, DhtId, Nonce, IsRsp, Unpack, Find, Str, Dict,
       RspId, DecFindClosestNodesRsp, Arg, List

(* _vdht_enc_reflex and _vdht_dec_reflex                                   *)
LEMMA ReflexMsg ==
    ASSUME NEW n, NEW src
    PROVE  LET msg == EncReflex(n, src)
           IN  /\ DhtId(msg) = "reflex" /\ Nonce(msg) = n /\ ~IsRsp(msg)
               /\ DecReflex(msg).id = src
BY DEF EncReflex, Query, DhtId, Nonce, IsRsp, Unpack, Find, Str, Dict,
       QueryId, DecReflex, Arg

(* _vdht_enc_reflex_rsp and _vdht_dec_reflex_rsp                           *)
LEMMA ReflexRspMsg ==
    ASSUME NEW n, NEW src, NEW addr
    PROVE  LET msg == EncReflexRsp(n, src, addr)
           IN  /\ DhtId(msg) = "reflex_rsp" /\ Nonce(msg) = n /\ IsRsp(msg)
               /\ DecReflexRsp(msg).addr = addr
BY DEF EncReflexRsp, Response, DhtId, Nonce, IsRsp, Unpack, Find, Str, Dict,
       RspId, DecReflexRsp, Arg

(* _vdht_enc_probe and _vdht_dec_probe                                     *)
LEMMA ProbeMsg ==
    ASSUME NEW n, NEW src, NEW target
    PROVE  LET msg == EncProbe(n, src, target)
           IN  /\ DhtId(msg) = "probe" /\ Nonce(msg) = n /\ ~IsRsp(msg)
               /\ DecProbe(msg).target = target
BY DEF EncProbe, Query, DhtId, Nonce, IsRsp, Unpack, Find, Str, Dict,
       QueryId, DecProbe, Arg

(* _vdht_enc_probe_rsp and _vdht_dec_probe_rsp                             *)
LEMMA ProbeRspMsg ==
    ASSUME NEW n, NEW src
    PROVE  LET msg == EncProbeRsp(n, src)
           IN  /\ DhtId(msg) = "probe_rsp" /\ Nonce(msg) = n /\ IsRsp(msg)
               /\ DecProbeRsp(msg).id = src
BY DEF EncProbeRsp, Response, DhtId, Nonce, IsRsp, Unpack, Find, Str, Dict,
       RspId, DecProbeRsp, Arg

(* _vdht_enc_post_service and _vdht_dec_post_service                       *)
LEMMA PostServiceMsg ==
    ASSUME NEW n, NEW src, NEW srvci
    PROVE  LET msg == EncPostService(n, src, srvci)
           IN  /\ DhtId(msg) = "post_service" /\ Nonce(msg) = n /\ ~IsRsp(msg)
               /\ DecPostService(msg).srvci = srvci
BY DEF EncPostService, Query, DhtId, Nonce, IsRsp, Unpack, Find, Str, Dict,
       QueryId, DecPostService, Arg

(* _vdht_enc_find_service and _vdht_dec_find_service                       *)
LEMMA FindServiceMsg ==
    ASSUME NEW n, NEW src, NEW hash
    PROVE  LET msg == EncFindService(n, src, hash)
           IN  /\ DhtId(msg) = "find_service" /\ Nonce(msg) = n /\ ~IsRsp(msg)
               /\ DecFindService(msg).hash = hash
BY DEF EncFindService, Query, DhtId, Nonce, IsRsp, Unpack, Find, Str, Dict,
       QueryId, DecFindService, Arg

(* _vdht_enc_find_service_rsp and _vdht_dec_find_service_rsp               *)
LEMMA FindServiceRspMsg ==
    ASSUME NEW n, NEW src, NEW srvci
    PROVE  LET msg == EncFindServiceRsp(n, src, srvci)
           IN  /\ DhtId(msg) = "find_service_rsp" /\ Nonce(msg) = n /\ IsRsp(msg)
               /\ DecFindServiceRsp(msg).srvci = srvci
BY DEF EncFindServiceRsp, Response, DhtId, Nonce, IsRsp, Unpack, Find, Str, Dict,
       RspId, DecFindServiceRsp, Arg

-----------------------------------------------------------------------------
(* The inductive invariant                                                 *)

RspIds == {"ping_rsp", "find_node_rsp", "find_closest_nodes_rsp", "reflex_rsp",
           "probe_rsp", "find_service_rsp"}

(* What one node may say about another                                     *)
TrueInfo(e) ==
    /\ e \in Infos /\ e.id \in Nodes
    /\ e.addrs # {} /\ e.addrs \subseteq AddrsOf(e.id)

(* No two infos of the same node                                           *)
OneEach(S) == \A e, f \in S : e.id # NoId /\ e.id = f.id => e = f

(* A query goes where its nonce says, and a response comes from there.     *)
HeaderOK(m) ==
    /\ m.from \in Nodes /\ m.to \in Addresses
    /\ Nonce(m.msg) \in Nonces /\ DhtId(m.msg) \in AllIds
    /\ IsRsp(m.msg) <=> DhtId(m.msg) \in RspIds
    /\ IF IsRsp(m.msg) THEN Nonce(m.msg).to \in AddrsOf(m.from) ELSE Nonce(m.msg).to = m.to

(* The nodes listed in a response to find_closest_nodes                    *)
Listed(msg) ==
    LET closest == DecFindClosestNodesRsp(msg).closest IN {closest[k] : k \in DOMAIN closest}

ListOK(S) == IsFiniteSet(S) /\ OneEach(S) /\ \A e \in S : TrueInfo(e)

(* What messages say is true; A are the services announced so far.         *)
BodyOK(m, A) ==
    LET id == DhtId(m.msg)
    IN  /\ id = "ping_rsp" => TrueInfo(DecPingRsp(m.msg).node)
        /\ id = "find_node_rsp" => TrueInfo(DecFindNodeRsp(m.msg).node)
        /\ id = "find_closest_nodes_rsp" => ListOK(Listed(m.msg))
        /\ id = "reflex_rsp" => DecReflexRsp(m.msg).addr = m.to /\ m.to \in Nodes
        /\ id = "post_service" => DecPostService(m.msg).srvci \in A
        /\ id = "find_service_rsp" => DecFindServiceRsp(m.msg).srvci \in A

NetOK(N, A) == \A m \in N : HeaderOK(m) /\ BodyOK(m, A)

TableOK(i, T) ==
    /\ T \in SUBSET Infos /\ IsFiniteSet(T) /\ OneEach(T)
    /\ \A e \in T : /\ e.addrs # {}
                    /\ e.id # NoId => TrueInfo(e) /\ e.id # i

(* All that is under way with the nonce of a ticket belongs to its query.  *)
Match(N, tk) ==
    \A i \in Nodes : \A t \in tk[i] :
        /\ t.nonce.by = i
        /\ \A m \in N : Nonce(m.msg) = t.nonce => DhtId(m.msg) \in {t.kind, RspId[t.kind]}

IsSrvc(s) ==
    /\ s = [host |-> s.host, hash |-> s.hash, nice |-> s.nice, proto |-> s.proto, addrs |-> s.addrs]
    /\ s.host \in Nodes /\ s.hash \in Hashes /\ s.nice \in 0 .. NiceLimit - 1

TableInv  == table \in [Nodes -> SUBSET Infos] /\ \A i \in Nodes : TableOK(i, table[i])
AddrInv   == /\ addrs \in [Nodes -> SUBSET Addresses]
             /\ \A i \in Nodes : addrs[i] # {} /\ addrs[i] \subseteq AddrsOf(i)
TicketInv == tickets \in [Nodes -> SUBSET Tickets] /\ Match(net, tickets)
SrvcInv   == /\ srvcs \in [Nodes -> SUBSET [srvci : announced, age : 0 .. MaxAge]]
             /\ \A i \in Nodes : Sound(srvcs[i])
OwnInv    == /\ own \in [Nodes -> SUBSET announced]
             /\ \A s \in announced : IsSrvc(s)
             /\ nice \in [Nodes -> 0 .. NiceLimit - 1]
             /\ changes \in 0 .. MaxChanges

IInv == NetOK(net, announced) /\ TableInv /\ AddrInv /\ TicketInv /\ SrvcInv /\ OwnInv

-----------------------------------------------------------------------------
(* The names of the messages                                               *)
LEMMA Names ==
    /\ DOMAIN RspId = {"ping", "find_node", "find_closest_nodes", "reflex", "probe", "find_service"}
    /\ \A q \in DOMAIN RspId : RspId[q] \in RspIds /\ q \notin RspIds
    /\ DOMAIN RspId \cup RspIds \cup {"post_service"} \subseteq AllIds
BY DEF RspId, RspIds, AllIds, QueryId

(* A node's datagrams come from its address.                               *)
LEMMA DatagramFields ==
    ASSUME NEW i, NEW a, NEW msg
    PROVE  /\ Datagram(i, a, msg).from = i /\ Datagram(i, a, msg).to = a
           /\ Datagram(i, a, msg).msg = msg
BY DEF Datagram

(* The addresses of the nodes are addresses.                               *)
LEMMA AddrsOfNodes == \A i \in Nodes : AddrsOf(i) \subseteq Addresses /\ i \in AddrsOf(i)
BY DEF AddrsOf, Addresses

(* The nonces of queries                                                   *)
LEMMA QueryNonces ==
    ASSUME NEW i \in Nodes, NEW a \in Addresses, NEW k \in Numbers, NEW nth \in 1 .. 3
    PROVE  LET n == QueryNonce(i, a, k, nth)
           IN  n \in Nonces /\ n.by = i /\ n.to = a /\ n.no = k /\ n.nth = nth
BY DEF QueryNonce, Nonces

(* vpeer_init picks one of the addresses.                                  *)
LEMMA ConnAddrs ==
    ASSUME NEW i, NEW T, TableOK(i, T), NEW e \in T
    PROVE  ConnAddr(e) \in Addresses
<1>1. e.addrs # {} /\ e.addrs \subseteq Addresses
  BY DEF TableOK, Infos
<1> QED
  BY <1>1 DEF ConnAddr

(* What becomes of the network                                             *)
LEMMA Carried ==
    ASSUME NEW msgs, Carry(msgs), NEW A, NetOK(msgs, A)
    PROVE  net' \subseteq msgs /\ NetOK(net', A)
BY DEF Carry, NetOK

(* Sending truthful messages keeps the network truthful.                   *)
LEMMA SentOK ==
    ASSUME NEW out, Send(out), NEW A, NetOK(net, A), NetOK(out, A)
    PROVE  net' \subseteq net \cup out /\ NetOK(net', A)
<1>1. NetOK(net \cup out, A)
  BY DEF NetOK
<1> QED
  BY <1>1, Carried DEF Send

(* What was true of the services announced so far stays true.              *)
LEMMA NetGrows ==
    ASSUME NEW N, NEW A, NetOK(N, A), NEW B, A \subseteq B
    PROVE  NetOK(N, B)
BY DEF NetOK, BodyOK

(* _vroute_node_space_add_node keeps a table truthful if the infos that it *)
(* is given are.                                                           *)
LEMMA AddNodesOK ==
    ASSUME NEW i \in Nodes, TableInv, NEW S, IsFiniteSet(S), OneEach(S),
           \A e \in S : TrueInfo(e) \/ \E a \in Addresses : e = FakeInfo(a),
           NEW T \in AddNodes(i, S)
    PROVE  TableOK(i, T)
<1> DEFINE new  == {n \in S : n.id # i}
           kept == {e \in table[i] : e.id = NoId \/ \A n \in new : n.id # e.id}
           all  == kept \cup new
<1>1. TableOK(i, table[i])
  BY DEF TableInv
<1>2. T \subseteq all
  BY DEF AddNodes
<1>3. \A e \in S : /\ e \in Infos /\ e.addrs # {}
                   /\ e.id # NoId => TrueInfo(e)
  BY DEF TrueInfo, FakeInfo, Info, Infos
<1>4. IsFiniteSet(T)
  <2>1. IsFiniteSet(kept) /\ IsFiniteSet(new)
    BY <1>1, FS_Subset DEF TableOK
  <2>2. IsFiniteSet(all)
    BY <2>1, FS_Union
  <2> QED
    BY <2>2, <1>2, FS_Subset
<1>5. OneEach(T)
  <2> SUFFICES ASSUME NEW e \in all, NEW f \in all, e.id # NoId, e.id = f.id
               PROVE  e = f
    BY <1>2 DEF OneEach
  <2>1. CASE e \in kept /\ f \in kept
    BY <2>1, <1>1 DEF TableOK, OneEach
  <2>2. CASE e \in new /\ f \in new
    BY <2>2 DEF OneEach
  <2> QED
    BY <2>1, <2>2
<1>6. \A e \in all : /\ e \in Infos /\ e.addrs # {}
                     /\ e.id # NoId => TrueInfo(e) /\ e.id # i
  BY <1>1, <1>3 DEF TableOK
<1> QED
  BY <1>2, <1>4, <1>5, <1>6 DEF TableOK

(* A new table in one place                                                *)
LEMMA TableUpdate ==
    ASSUME TableInv, NEW i \in Nodes, NEW T, TableOK(i, T), table' = [table EXCEPT ![i] = T]
    PROVE  TableInv'
<1>1. T \in SUBSET Infos
  BY DEF TableOK
<1>2. \A j \in Nodes : TableOK(j, table'[j])
  BY DEF TableInv
<1> QED
  BY <1>1, <1>2 DEF TableInv, TableOK, Infos, Addresses, TrueInfo, AddrsOf, OneEach

(* _vroute_join_node and the ping of an unknown sender add a made-up info. *)
LEMMA FakeTable ==
    ASSUME TableInv, NEW i \in Nodes, NEW a \in Addresses, NEW T \in AddNodes(i, {FakeInfo(a)})
    PROVE  TableOK(i, T)
<1>1. IsFiniteSet({FakeInfo(a)})
  BY FS_Singleton
<1>2. OneEach({FakeInfo(a)})
  BY DEF OneEach
<1> QED
  BY <1>1, <1>2, AddNodesOK

(* A response adds the info of a node.                                     *)
LEMMA TrueTable ==
    ASSUME TableInv, NEW i \in Nodes, NEW e, TrueInfo(e), NEW T \in AddNodes(i, {e})
    PROVE  TableOK(i, T)
<1>1. IsFiniteSet({e})
  BY FS_Singleton
<1>2. OneEach({e})
  BY DEF OneEach
<1> QED
  BY <1>1, <1>2, AddNodesOK

-----------------------------------------------------------------------------
(* Messages that may be sent                                               *)

(* Queries that only ask                                                   *)
LEMMA QueryOK ==
    ASSUME NEW i \in Nodes, NEW a \in Addresses, NEW msg, NEW A,
           Nonce(msg) \in Nonces, Nonce(msg).to = a, ~IsRsp(msg),
           DhtId(msg) \in DOMAIN RspId
    PROVE  HeaderOK(Datagram(i, a, msg)) /\ BodyOK(Datagram(i, a, msg), A)
BY Names, DatagramFields DEF HeaderOK, BodyOK, RspIds

(* _vdht_enc_post_service with a service that was announced                *)
LEMMA PostServiceOK ==
    ASSUME NEW i \in Nodes, NEW a \in Addresses, NEW n \in Nonces, n.to = a, NEW A, NEW srvci \in A
    PROVE  LET m == Datagram(i, a, EncPostService(n, i, srvci))
           IN  HeaderOK(m) /\ BodyOK(m, A)
<1> DEFINE msg == EncPostService(n, i, srvci)
<1>1. DhtId(msg) = "post_service" /\ Nonce(msg) = n /\ ~IsRsp(msg) /\ DecPostService(msg).srvci = srvci
  BY PostServiceMsg
<1> HIDE DEF msg
<1> QED
  BY <1>1, Names, DatagramFields DEF HeaderOK, BodyOK, RspIds, msg

(* The header of a response to the query m                                 *)
LEMMA RspHeader ==
    ASSUME NEW i \in Nodes, NEW m, HeaderOK(m), ~IsRsp(m.msg), Reaches(m, i),
           NEW msg, Nonce(msg) = Nonce(m.msg), IsRsp(msg), DhtId(msg) \in RspIds
    PROVE  HeaderOK(Datagram(i, m.from, msg))
<1>1. m.from \in Addresses
  BY AddrsOfNodes DEF HeaderOK
<1>2. Nonce(m.msg).to \in AddrsOf(i)
  BY DEF HeaderOK, Reaches, AddrsOf
<1> QED
  BY <1>1, <1>2, Names, DatagramFields DEF HeaderOK

-----------------------------------------------------------------------------
(* Tickets                                                                 *)

(* Tickets go, and responses to queries that are under way come.           *)
LEMMA MatchReply ==
    ASSUME NEW N, NEW tk, Match(N, tk), \A i \in Nodes : tk[i] \subseteq Tickets,
           NEW tl, \A i \in Nodes : tl[i] \subseteq tk[i],
           NEW M, \A r \in M : r \in N \/ \E m \in N :
                      /\ Nonce(r.msg) = Nonce(m.msg)
                      /\ DhtId(m.msg) \in DOMAIN RspId /\ DhtId(r.msg) = RspId[DhtId(m.msg)]
    PROVE  Match(M, tl)
<1> SUFFICES ASSUME NEW i \in Nodes, NEW t \in tl[i]
             PROVE  /\ t.nonce.by = i
                    /\ \A r \in M : Nonce(r.msg) = t.nonce => DhtId(r.msg) \in {t.kind, RspId[t.kind]}
  BY DEF Match
<1>1. t \in tk[i] /\ t \in Tickets
  OBVIOUS
<1>2. t.kind \in DOMAIN RspId
  BY <1>1 DEF Tickets
<1>3. ASSUME NEW r \in M, Nonce(r.msg) = t.nonce
      PROVE  DhtId(r.msg) \in {t.kind, RspId[t.kind]}
  <2>1. CASE r \in N
    BY <2>1, <1>1, <1>3 DEF Match
  <2>2. CASE r \notin N
    <3>1. PICK m \in N : /\ Nonce(r.msg) = Nonce(m.msg)
                         /\ DhtId(m.msg) \in DOMAIN RspId /\ DhtId(r.msg) = RspId[DhtId(m.msg)]
      BY <2>2
    <3>2. DhtId(m.msg) \in {t.kind, RspId[t.kind]}
      BY <3>1, <1>1, <1>3 DEF Match
    <3>3. DhtId(m.msg) = t.kind
      BY <3>1, <3>2, <1>2, Names
    <3> QED
      BY <3>1, <3>3
  <2> QED
    BY <2>1, <2>2
<1> QED
  BY <1>1, <1>3 DEF Match

(* ADD_CHECK_TOKEN                                                         *)
LEMMA TokensOK ==
    ASSUME NEW i \in Nodes, NEW kind \in DOMAIN RspId, NEW A \in SUBSET Addresses,
           NEW k \in Numbers, NEW nth \in 1 .. 3
    PROVE  \A t \in Tokens(i, kind, A, k, nth) :
             /\ t \in Tickets /\ t.kind = kind
             /\ t.nonce.by = i /\ t.nonce.no = k /\ t.nonce.nth = nth
<1>1. \A a \in A : LET n == QueryNonce(i, a, k, nth)
                  IN  n \in Nonces /\ n.by = i /\ n.no = k /\ n.nth = nth
  BY QueryNonces
<1> QED
  BY <1>1 DEF Tokens, Tickets

-----------------------------------------------------------------------------
(* What a step leaves alone                                                *)

(* The parts of the invariant about variables that do not change           *)
LEMMA Unaltered ==
    ASSUME IInv
    PROVE  /\ UNCHANGED table => TableInv'
           /\ UNCHANGED addrs => AddrInv'
           /\ UNCHANGED <<srvcs, announced>> => SrvcInv'
           /\ UNCHANGED hostVars => OwnInv'
<1>1. UNCHANGED table => TableInv'
  BY DEF IInv, TableInv
<1>2. UNCHANGED addrs => AddrInv'
  BY DEF IInv, AddrInv
<1>3. UNCHANGED <<srvcs, announced>> => SrvcInv'
  BY DEF IInv, SrvcInv
<1>4. UNCHANGED hostVars => OwnInv'
  BY DEF IInv, OwnInv, hostVars
<1> QED
  BY <1>1, <1>2, <1>3, <1>4

(* A step that sends nothing, and at most uses up tickets                  *)
LEMMA Quiet ==
    ASSUME IInv, Send({}), tickets' \in [Nodes -> SUBSET Tickets],
           \A j \in Nodes : tickets'[j] \subseteq tickets[j]
    PROVE  NetOK(net', announced) /\ TicketInv'
<1>1. net' \subseteq net /\ NetOK(net', announced)
  <2>1. NetOK({}, announced)
    BY DEF NetOK
  <2> QED
    BY <2>1, SentOK DEF IInv
<1>2. Match(net, tickets) /\ \A j \in Nodes : tickets[j] \subseteq Tickets
  BY DEF IInv, TicketInv
<1>3. Match(net', tickets')
  BY <1>1, <1>2, MatchReply
<1> QED
  BY <1>1, <1>3 DEF TicketInv

(* DO_CHECK_TOKEN                                                          *)
LEMMA Checked ==
    ASSUME IInv, NEW i \in Nodes, NEW m, CheckToken(i, m)
    PROVE  /\ tickets' \in [Nodes -> SUBSET Tickets]
           /\ \A j \in Nodes : tickets'[j] \subseteq tickets[j]
<1>1. Punched(i, m) \subseteq tickets[i]
  BY DEF Punched
<1> QED
  BY <1>1 DEF IInv, TicketInv, CheckToken

(* A step that does not touch the tickets                                  *)
LEMMA Kept ==
    ASSUME IInv, UNCHANGED tickets
    PROVE  /\ tickets' \in [Nodes -> SUBSET Tickets]
           /\ \A j \in Nodes : tickets'[j] \subseteq tickets[j]
BY DEF IInv, TicketInv

(* A step that answers a query                                             *)
LEMMA Replied ==
    ASSUME IInv, NEW i \in Nodes, NEW m \in net, Reaches(m, i),
           DhtId(m.msg) \in DOMAIN RspId, NEW msg, IsRsp(msg), Nonce(msg) = Nonce(m.msg),
           DhtId(msg) = RspId[DhtId(m.msg)], BodyOK(Datagram(i, m.from, msg), announced),
           NEW out \in SUBSET {Datagram(i, m.from, msg)}, Send(out), UNCHANGED tickets
    PROVE  NetOK(net', announced) /\ TicketInv'
<1>1. HeaderOK(m) /\ ~IsRsp(m.msg)
  BY Names DEF IInv, NetOK, HeaderOK
<1>2. HeaderOK(Datagram(i, m.from, msg))
  BY <1>1, RspHeader, Names
<1>3. NetOK(out, announced)
  BY <1>2 DEF NetOK
<1>4. net' \subseteq net \cup out /\ NetOK(net', announced)
  BY <1>3, SentOK DEF IInv
<1>5. Match(net, tickets) /\ \A j \in Nodes : tickets[j] \subseteq Tickets /\ tickets'[j] \subseteq tickets[j]
  BY DEF IInv, TicketInv
<1>6. \A r \in net' : r \in net \/ /\ Nonce(r.msg) = Nonce(m.msg)
                                   /\ DhtId(m.msg) \in DOMAIN RspId /\ DhtId(r.msg) = RspId[DhtId(m.msg)]
  BY <1>4, DatagramFields
<1>7. Match(net', tickets')
  BY <1>5, <1>6, MatchReply
<1> QED
  BY <1>4, <1>7 DEF IInv, TicketInv

-----------------------------------------------------------------------------
(* The handlers of vroute.c                                                *)

(* A node's own info                                                       *)
LEMMA OwnInfo ==
    ASSUME IInv, NEW i \in Nodes
    PROVE  TrueInfo(Info(i, addrs[i]))
BY DEF IInv, AddrInv, TrueInfo, Info, Infos

(* The neighbours' infos                                                   *)
LEMMA PeerInfo ==
    ASSUME IInv, NEW i \in Nodes, NEW e \in Peers(i)
    PROVE  TrueInfo(e)
BY DEF IInv, TableInv, TableOK, Peers

(* _vroute_cb_ping                                                         *)
LEMMA CbPingOK ==
    ASSUME IInv, NEW i \in Nodes, NEW m \in net, Reaches(m, i), DhtId(m.msg) = "ping", CbPing(i, m)
    PROVE  IInv'
<1> DEFINE msg == EncPingRsp(Nonce(m.msg), i, Info(i, addrs[i]))
<1>1. /\ DhtId(msg) = "ping_rsp" /\ Nonce(msg) = Nonce(m.msg) /\ IsRsp(msg)
      /\ DecPingRsp(msg).node = Info(i, addrs[i])
  BY PingRspMsg
<1>2. TableInv'
  <2>1. PICK T \in IF Knows(i, DecPing(m.msg).id) THEN {table[i]} ELSE AddNodes(i, {FakeInfo(m.from)}) :
          table' = [table EXCEPT ![i] = T]
    BY DEF CbPing
  <2>2. m.from \in Addresses
    BY AddrsOfNodes DEF IInv, NetOK, HeaderOK
  <2>3. TableOK(i, T)
    BY <2>1, <2>2, FakeTable DEF IInv, TableInv
  <2> QED
    BY <2>1, <2>3, TableUpdate DEF IInv
<1>3. NetOK(net', announced) /\ TicketInv'
  <2>1. PICK out \in SUBSET {Datagram(i, m.from, msg)} : Send(out)
    BY DEF CbPing, Reply
  <2> HIDE DEF msg
  <2>2. BodyOK(Datagram(i, m.from, msg), announced)
    BY <1>1, OwnInfo, DatagramFields DEF BodyOK
  <2>3. DhtId(m.msg) \in DOMAIN RspId /\ DhtId(msg) = RspId[DhtId(m.msg)]
    BY <1>1 DEF RspId
  <2>4. UNCHANGED tickets
    BY DEF CbPing
  <2> QED
    BY <1>1, <2>1, <2>2, <2>3, <2>4, Replied
<1> QED
  BY <1>2, <1>3, Unaltered DEF IInv, CbPing, hostVars

(* _vroute_cb_ping_rsp                                                     *)
LEMMA CbPingRspOK ==
    ASSUME IInv, NEW i \in Nodes, NEW m \in net, DhtId(m.msg) = "ping_rsp", CbPingRsp(i, m)
    PROVE  IInv'
<1>1. TableInv'
  <2>1. PICK T \in AddNodes(i, {DecPingRsp(m.msg).node}) : table' = [table EXCEPT ![i] = T]
    BY DEF CbPingRsp
  <2>2. TrueInfo(DecPingRsp(m.msg).node)
    BY DEF IInv, NetOK, BodyOK
  <2>3. TableOK(i, T)
    BY <2>1, <2>2, TrueTable DEF IInv
  <2> QED
    BY <2>1, <2>3, TableUpdate DEF IInv
<1>2. NetOK(net', announced) /\ TicketInv'
  BY Checked, Quiet DEF CbPingRsp
<1> QED
  BY <1>1, <1>2, Unaltered DEF IInv, CbPingRsp, hostVars

(* _vroute_cb_find_node: at most one neighbour has the id.                 *)
LEMMA CbFindNodeOK ==
    ASSUME IInv, NEW i \in Nodes, NEW m \in net, Reaches(m, i), DhtId(m.msg) = "find_node",
           CbFindNode(i, m)
    PROVE  IInv'
<1> DEFINE found  == {e \in Peers(i) : e.id = DecFindNode(m.msg).target}
           msg(e) == EncFindNodeRsp(Nonce(m.msg), i, e)
           out    == UNION {Reply(i, m, "find_node_rsp", msg(e)) : e \in found}
<1>1. Send(out) /\ UNCHANGED tickets
  BY DEF CbFindNode
<1>2. CASE found = {}
  <2>1. Send({})
    BY <1>1, <1>2
  <2> QED
    BY <2>1, <1>1, Kept, Quiet, Unaltered DEF IInv, CbFindNode, hostVars
<1>3. CASE found # {}
  <2>1. PICK e \in found : TRUE
    BY <1>3
  <2>2. found = {e}
    BY <2>1 DEF IInv, TableInv, TableOK, OneEach, Peers
  <2>3. out \in SUBSET {Datagram(i, m.from, msg(e))}
    BY <2>2 DEF Reply
  <2>4. /\ DhtId(msg(e)) = "find_node_rsp" /\ Nonce(msg(e)) = Nonce(m.msg) /\ IsRsp(msg(e))
        /\ DecFindNodeRsp(msg(e)).node = e
    BY FindNodeRspMsg
  <2>5. TrueInfo(e)
    BY <2>1, PeerInfo
  <2> HIDE DEF msg, out, found
  <2>6. BodyOK(Datagram(i, m.from, msg(e)), announced)
    BY <2>4, <2>5, DatagramFields DEF BodyOK
  <2>7. DhtId(m.msg) \in DOMAIN RspId /\ DhtId(msg(e)) = RspId[DhtId(m.msg)]
    BY <2>4 DEF RspId
  <2>8. NetOK(net', announced) /\ TicketInv'
    BY <1>1, <2>3, <2>4, <2>6, <2>7, Replied
  <2> QED
    BY <2>8, Unaltered DEF IInv, CbFindNode, hostVars
<1> QED
  BY <1>2, <1>3

(* _vroute_cb_find_node_rsp                                                *)
LEMMA CbFindNodeRspOK ==
    ASSUME IInv, NEW i \in Nodes, NEW m \in net, DhtId(m.msg) = "find_node_rsp", CbFindNodeRsp(i, m)
    PROVE  IInv'
<1>1. TableInv'
  <2>1. PICK T \in AddNodes(i, {DecFindNodeRsp(m.msg).node}) : table' = [table EXCEPT ![i] = T]
    BY DEF CbFindNodeRsp
  <2>2. TrueInfo(DecFindNodeRsp(m.msg).node)
    BY DEF IInv, NetOK, BodyOK
  <2>3. TableOK(i, T)
    BY <2>1, <2>2, TrueTable DEF IInv
  <2> QED
    BY <2>1, <2>3, TableUpdate DEF IInv
<1>2. NetOK(net', announced) /\ TicketInv'
  BY Checked, Quiet DEF CbFindNodeRsp
<1> QED
  BY <1>1, <1>2, Unaltered DEF IInv, CbFindNodeRsp, hostVars

(* The infos in a response to find_closest_nodes are those of neighbours.  *)
LEMMA ListingOf ==
    ASSUME NEW S, IsFiniteSet(S)
    PROVE  Listing(S) \in [1 .. Cardinality(S) -> S]
<1>1. ExistsBijection(1 .. Cardinality(S), S)
  BY FS_CardinalityType
<1>2. \E l \in [1 .. Cardinality(S) -> S] : \A e \in S : \E k \in DOMAIN l : l[k] = e
  BY <1>1 DEF ExistsBijection, Bijection, Surjection
<1> QED
  BY <1>2 DEF Listing

(* _vroute_cb_find_closest_nodes                                           *)
LEMMA CbFindClosestNodesOK ==
    ASSUME IInv, NEW i \in Nodes, NEW m \in net, Reaches(m, i), DhtId(m.msg) = "find_closest_nodes",
           CbFindClosestNodes(i, m)
    PROVE  IInv'
<1> DEFINE closest == {e \in Peers(i) : e.id # DecFindClosestNodes(m.msg).target}
           list    == Listing(closest)
           msg     == EncFindClosestNodesRsp(Nonce(m.msg), i, list)
<1>1. IsFiniteSet(closest) /\ OneEach(closest) /\ \A e \in closest : TrueInfo(e)
  <2>1. TableOK(i, table[i]) /\ closest \subseteq table[i]
    BY DEF IInv, TableInv, Peers
  <2> QED
    BY <2>1, FS_Subset DEF TableOK, OneEach, Peers
<1>2. list \in [1 .. Cardinality(closest) -> closest]
  BY <1>1, ListingOf
<1>3. PICK out \in SUBSET {Datagram(i, m.from, msg)} : Send(out)
  BY DEF CbFindClosestNodes, Reply
<1> HIDE DEF closest, list
<1>4. /\ DhtId(msg) = "find_closest_nodes_rsp" /\ Nonce(msg) = Nonce(m.msg) /\ IsRsp(msg)
      /\ DecFindClosestNodesRsp(msg).closest = [k \in DOMAIN list |-> list[k]]
  BY FindClosestNodesRspMsg
<1> HIDE DEF msg
<1>5. Listed(msg) \subseteq closest
  BY <1>2, <1>4 DEF Listed
<1>6. ListOK(Listed(msg))
  BY <1>1, <1>5, FS_Subset DEF ListOK, OneEach
<1>7. BodyOK(Datagram(i, m.from, msg), announced)
  BY <1>4, <1>6, DatagramFields DEF BodyOK
<1>8. DhtId(m.msg) \in DOMAIN RspId /\ DhtId(msg) = RspId[DhtId(m.msg)]
  BY <1>4 DEF RspId
<1>9. NetOK(net', announced) /\ TicketInv'
  BY <1>3, <1>4, <1>7, <1>8, Replied DEF CbFindClosestNodes
<1> QED
  BY <1>9, Unaltered DEF IInv, CbFindClosestNodes, hostVars

(* _vroute_cb_find_closest_nodes_rsp                                       *)
LEMMA CbFindClosestNodesRspOK ==
    ASSUME IInv, NEW i \in Nodes, NEW m \in net, DhtId(m.msg) = "find_closest_nodes_rsp",
           CbFindClosestNodesRsp(i, m)
    PROVE  IInv'
<1>1. TableInv'
  <2>1. PICK T \in AddNodes(i, Listed(m.msg)) : table' = [table EXCEPT ![i] = T]
    BY DEF CbFindClosestNodesRsp, Listed
  <2>2. ListOK(Listed(m.msg))
    BY DEF IInv, NetOK, BodyOK
  <2>3. TableOK(i, T)
    BY <2>1, <2>2, AddNodesOK DEF IInv, ListOK
  <2> QED
    BY <2>1, <2>3, TableUpdate DEF IInv
<1>2. NetOK(net', announced) /\ TicketInv'
  BY Checked, Quiet DEF CbFindClosestNodesRsp
<1> QED
  BY <1>1, <1>2, Unaltered DEF IInv, CbFindClosestNodesRsp, hostVars

(* _vroute_cb_reflex                                                       *)
LEMMA CbReflexOK ==
    ASSUME IInv, NEW i \in Nodes, NEW m \in net, Reaches(m, i), DhtId(m.msg) = "reflex",
           CbReflex(i, m)
    PROVE  IInv'
<1> DEFINE msg == EncReflexRsp(Nonce(m.msg), i, m.from)
<1>1. /\ DhtId(msg) = "reflex_rsp" /\ Nonce(msg) = Nonce(m.msg) /\ IsRsp(msg)
      /\ DecReflexRsp(msg).addr = m.from
  BY ReflexRspMsg
<1>2. Send({Datagram(i, m.from, msg)}) /\ UNCHANGED tickets
  BY DEF CbReflex
<1> HIDE DEF msg
<1>3. BodyOK(Datagram(i, m.from, msg), announced)
  BY <1>1, DatagramFields DEF IInv, NetOK, HeaderOK, BodyOK
<1>4. DhtId(m.msg) \in DOMAIN RspId /\ DhtId(msg) = RspId[DhtId(m.msg)]
  BY <1>1 DEF RspId
<1>5. NetOK(net', announced) /\ TicketInv'
  BY <1>1, <1>2, <1>3, <1>4, Replied
<1> QED
  BY <1>5, Unaltered DEF IInv, CbReflex, hostVars

(* _vroute_cb_reflex_rsp: the address told is the one the response went to.*)
LEMMA CbReflexRspOK ==
    ASSUME IInv, NEW i \in Nodes, NEW m \in net, Reaches(m, i), DhtId(m.msg) = "reflex_rsp",
           CbReflexRsp(i, m)
    PROVE  IInv'
<1>1. AddrInv'
  <2>1. DecReflexRsp(m.msg).addr \in AddrsOf(i)
    BY DEF IInv, NetOK, BodyOK, Reaches, AddrsOf
  <2>2. addrs' = [addrs EXCEPT ![i] = @ \cup {DecReflexRsp(m.msg).addr}]
    BY DEF CbReflexRsp
  <2> QED
    BY <2>1, <2>2, AddrsOfNodes DEF IInv, AddrInv
<1>2. NetOK(net', announced) /\ TicketInv'
  BY Checked, Quiet DEF CbReflexRsp
<1> QED
  BY <1>1, <1>2, Unaltered DEF IInv, CbReflexRsp, hostVars

(* _vroute_cb_probe                                                        *)
LEMMA CbProbeOK ==
    ASSUME IInv, NEW i \in Nodes, NEW m \in net, Reaches(m, i), DhtId(m.msg) = "probe",
           CbProbe(i, m)
    PROVE  IInv'
<1> DEFINE msg == EncProbeRsp(Nonce(m.msg), i)
<1>1. DhtId(msg) = "probe_rsp" /\ Nonce(msg) = Nonce(m.msg) /\ IsRsp(msg)
  BY ProbeRspMsg
<1>2. Send({Datagram(i, m.from, msg)}) /\ UNCHANGED tickets
  BY DEF CbProbe
<1> HIDE DEF msg
<1>3. BodyOK(Datagram(i, m.from, msg), announced)
  BY <1>1, DatagramFields DEF BodyOK
<1>4. DhtId(m.msg) \in DOMAIN RspId /\ DhtId(msg) = RspId[DhtId(m.msg)]
  BY <1>1 DEF RspId
<1>5. NetOK(net', announced) /\ TicketInv'
  BY <1>1, <1>2, <1>3, <1>4, Replied
<1> QED
  BY <1>5, Unaltered DEF IInv, CbProbe, hostVars

(* _vroute_cb_probe_rsp                                                    *)
LEMMA CbProbeRspOK ==
    ASSUME IInv, NEW i \in Nodes, NEW m \in net, CbProbeRsp(i, m)
    PROVE  IInv'
<1>1. NetOK(net', announced) /\ TicketInv'
  BY Checked, Quiet DEF CbProbeRsp
<1> QED
  BY <1>1, Unaltered DEF IInv, CbProbeRsp, hostVars

(* A service info that was announced is taken into a service space.        *)
LEMMA SrvcUpdate ==
    ASSUME IInv, NEW i \in Nodes, NEW srvci \in announced, NEW S \in AddService(srvcs[i], srvci),
           srvcs' = [srvcs EXCEPT ![i] = S], UNCHANGED announced
    PROVE  SrvcInv'
<1>1. Sound(S)
  BY AddServiceSound DEF IInv, SrvcInv
<1>2. Entry(srvci, 0) \in [srvci : announced, age : 0 .. MaxAge]
  BY SrvcSpaceAssumption DEF Entry
<1>3. S \subseteq [srvci : announced, age : 0 .. MaxAge]
  BY <1>2, AddServiceAdds DEF IInv, SrvcInv
<1> QED
  BY <1>1, <1>3 DEF IInv, SrvcInv

(* _vroute_cb_post_service                                                 *)
LEMMA CbPostServiceOK ==
    ASSUME IInv, NEW i \in Nodes, NEW m \in net, DhtId(m.msg) = "post_service", CbPostService(i, m)
    PROVE  IInv'
<1>1. SrvcInv'
  <2>1. PICK S \in AddService(srvcs[i], DecPostService(m.msg).srvci) : srvcs' = [srvcs EXCEPT ![i] = S]
    BY DEF CbPostService
  <2>2. DecPostService(m.msg).srvci \in announced
    BY DEF IInv, NetOK, BodyOK
  <2> QED
    BY <2>1, <2>2, SrvcUpdate DEF CbPostService, hostVars
<1>2. NetOK(net', announced) /\ TicketInv'
  BY Kept, Quiet DEF CbPostService
<1> QED
  BY <1>1, <1>2, Unaltered DEF IInv, CbPostService, hostVars

(* _vroute_cb_find_service                                                 *)
LEMMA CbFindServiceOK ==
    ASSUME IInv, NEW i \in Nodes, NEW m \in net, Reaches(m, i), DhtId(m.msg) = "find_service",
           CbFindService(i, m)
    PROVE  IInv'
<1> DEFINE found == GetService(srvcs[i], DecFindService(m.msg).hash)
<1>1. CASE Send({})
  <2>1. NetOK(net', announced) /\ TicketInv'
    BY <1>1, Kept, Quiet DEF CbFindService
  <2> QED
    BY <2>1, Unaltered DEF IInv, CbFindService, hostVars
<1>2. ASSUME NEW s \in found,
             Send(Reply(i, m, "find_service_rsp", EncFindServiceRsp(Nonce(m.msg), i, s)))
      PROVE  IInv'
  <2> DEFINE msg == EncFindServiceRsp(Nonce(m.msg), i, s)
  <2>1. s \in announced
    BY GetServiceOf DEF IInv, SrvcInv
  <2>2. PICK out \in SUBSET {Datagram(i, m.from, msg)} : Send(out)
    BY <1>2 DEF Reply
  <2>3. /\ DhtId(msg) = "find_service_rsp" /\ Nonce(msg) = Nonce(m.msg) /\ IsRsp(msg)
        /\ DecFindServiceRsp(msg).srvci = s
    BY FindServiceRspMsg
  <2> HIDE DEF msg
  <2>4. BodyOK(Datagram(i, m.from, msg), announced)
    BY <2>1, <2>3, DatagramFields DEF BodyOK
  <2>5. DhtId(m.msg) \in DOMAIN RspId /\ DhtId(msg) = RspId[DhtId(m.msg)]
    BY <2>3 DEF RspId
  <2>6. NetOK(net', announced) /\ TicketInv'
    BY <2>2, <2>3, <2>4, <2>5, Replied DEF CbFindService
  <2> QED
    BY <2>6, Unaltered DEF IInv, CbFindService, hostVars
<1> QED
  BY <1>1, <1>2 DEF CbFindService

-----------------------------------------------------------------------------
(* Steps that send queries                                                 *)

(* A query of node i for which the number k was drawn                      *)
Asked(m, i, k, nth, id) ==
    /\ HeaderOK(m) /\ BodyOK(m, announced) /\ DhtId(m.msg) = id
    /\ Nonce(m.msg).by = i /\ Nonce(m.msg).no = k /\ Nonce(m.msg).nth = nth

(* _vroute_dht_ping                                                        *)
LEMMA PingAsked ==
    ASSUME NEW i \in Nodes, NEW a \in Addresses, NEW k \in Numbers, NEW nth \in 1 .. 3
    PROVE  Asked(Datagram(i, a, EncPing(QueryNonce(i, a, k, nth), i)), i, k, nth, "ping")
BY PingMsg, QueryNonces, QueryOK, Names, DatagramFields DEF Asked

(* _vroute_dht_find_node                                                   *)
LEMMA FindNodeAsked ==
    ASSUME NEW i \in Nodes, NEW a \in Addresses, NEW k \in Numbers, NEW nth \in 1 .. 3, NEW target
    PROVE  Asked(Datagram(i, a, EncFindNode(QueryNonce(i, a, k, nth), i, target)), i, k, nth, "find_node")
BY FindNodeMsg, QueryNonces, QueryOK, Names, DatagramFields DEF Asked

(* _vroute_dht_find_closest_nodes                                          *)
LEMMA FindClosestNodesAsked ==
    ASSUME NEW i \in Nodes, NEW a \in Addresses, NEW k \in Numbers, NEW nth \in 1 .. 3, NEW target
    PROVE  Asked(Datagram(i, a, EncFindClosestNodes(QueryNonce(i, a, k, nth), i, target)),
                 i, k, nth, "find_closest_nodes")
BY FindClosestNodesMsg, QueryNonces, QueryOK, Names, DatagramFields DEF Asked

(* _vroute_dht_reflex                                                      *)
LEMMA ReflexAsked ==
    ASSUME NEW i \in Nodes, NEW a \in Addresses, NEW k \in Numbers, NEW nth \in 1 .. 3
    PROVE  Asked(Datagram(i, a, EncReflex(QueryNonce(i, a, k, nth), i)), i, k, nth, "reflex")
BY ReflexMsg, QueryNonces, QueryOK, Names, DatagramFields DEF Asked

(* _vroute_dht_probe                                                       *)
LEMMA ProbeAsked ==
    ASSUME NEW i \in Nodes, NEW a \in Addresses, NEW k \in Numbers, NEW nth \in 1 .. 3, NEW target
    PROVE  Asked(Datagram(i, a, EncProbe(QueryNonce(i, a, k, nth), i, target)), i, k, nth, "probe")
BY ProbeMsg, QueryNonces, QueryOK, Names, DatagramFields DEF Asked

(* _vroute_dht_find_service                                                *)
LEMMA FindServiceAsked ==
    ASSUME NEW i \in Nodes, NEW a \in Addresses, NEW k \in Numbers, NEW nth \in 1 .. 3, NEW hash
    PROVE  Asked(Datagram(i, a, EncFindService(QueryNonce(i, a, k, nth), i, hash)), i, k, nth, "find_service")
BY FindServiceMsg, QueryNonces, QueryOK, Names, DatagramFields DEF Asked

(* _vroute_dht_post_service                                                *)
LEMMA PostServiceAsked ==
    ASSUME NEW i \in Nodes, NEW a \in Addresses, NEW k \in Numbers, NEW nth \in 1 .. 3,
           NEW srvci \in announced
    PROVE  Asked(Datagram(i, a, EncPostService(QueryNonce(i, a, k, nth), i, srvci)), i, k, nth, "post_service")
BY PostServiceMsg, QueryNonces, PostServiceOK, DatagramFields DEF Asked

(* A step in which node i sends the queries out and makes the tickets new  *)
(* for them, with the number k; N and T stay of what was there.            *)
Asking(i, N, T, k, new, out) ==
    /\ N \in SUBSET net /\ T \in SUBSET tickets[i] /\ k \in Numbers
    /\ (new = {} /\ out = {}) \/ k \in Unused(i, T, N)
    /\ \A t \in new : t \in Tickets /\ t.nonce.by = i /\ t.nonce.no = k
    /\ \A m \in out : Asked(m, i, k, Nonce(m.msg).nth, DhtId(m.msg))
    /\ \A t \in new, m \in out : Nonce(m.msg).nth = t.nonce.nth => DhtId(m.msg) = t.kind
    /\ tickets' = [tickets EXCEPT ![i] = T \cup new]
    /\ Carry(N \cup out)

(* vnonce_make has kept the nonces of such a step apart from those of the  *)
(* other tickets and of the messages under way.                            *)
LEMMA Queried ==
    ASSUME IInv, NEW i \in Nodes, NEW N, NEW T, NEW k, NEW new, NEW out, Asking(i, N, T, k, new, out)
    PROVE  NetOK(net', announced) /\ TicketInv'
<1> USE DEF Asking
<1>1. NetOK(N \cup out, announced)
  BY DEF IInv, NetOK, Asked
<1>2. net' \subseteq N \cup out /\ NetOK(net', announced)
  BY <1>1, Carried
<1>3. /\ tickets \in [Nodes -> SUBSET Tickets] /\ Match(net, tickets)
      /\ tickets' \in [Nodes -> SUBSET Tickets]
  BY DEF IInv, TicketInv
<1>4. Match(N, tickets)
  BY <1>3 DEF Match
<1>5. tickets'[i] = T \cup new /\ \A j \in Nodes : j # i => tickets'[j] = tickets[j]
  BY <1>3
<1>6. CASE new = {} /\ out = {}
  <2>1. net' \subseteq N /\ \A j \in Nodes : tickets'[j] \subseteq tickets[j]
    BY <1>2, <1>5, <1>6
  <2>2. Match(net', tickets')
    BY <1>3, <1>4, <2>1 DEF Match
  <2> QED
    BY <1>2, <1>3, <2>2 DEF TicketInv
<1>7. CASE k \in Unused(i, T, N)
  <2>1. \A m \in out : Nonce(m.msg).by = i /\ Nonce(m.msg).no = k
    BY DEF Asked
  <2>2. \A t \in new, m \in out : Nonce(m.msg) = t.nonce => DhtId(m.msg) = t.kind
    OBVIOUS
  <2>3. Match(net', tickets')
    <3> SUFFICES ASSUME NEW j \in Nodes, NEW t \in tickets'[j]
                 PROVE  /\ t.nonce.by = j
                        /\ \A m \in net' : Nonce(m.msg) = t.nonce => DhtId(m.msg) \in {t.kind, RspId[t.kind]}
      BY DEF Match
    <3>1. CASE t \in tickets[j] /\ (j # i \/ t \in T)
      <4>1. t.nonce.by = j
        BY <1>3, <3>1 DEF Match
      <4>2. ASSUME NEW m \in net', Nonce(m.msg) = t.nonce
            PROVE  DhtId(m.msg) \in {t.kind, RspId[t.kind]}
        <5>1. CASE m \in N
          BY <5>1, <4>2, <3>1, <1>4 DEF Match
        <5>2. CASE m \in out
          <6>1. j = i /\ t.nonce.no = k
            BY <5>2, <4>1, <4>2, <2>1
          <6> QED
            BY <6>1, <3>1, <1>7 DEF Unused
        <5> QED
          BY <5>1, <5>2, <1>2
      <4> QED
        BY <4>1, <4>2
    <3>2. CASE j = i /\ t \in new
      <4>1. t.nonce.by = i /\ t.nonce.no = k
        BY <3>2
      <4>2. ASSUME NEW m \in net', Nonce(m.msg) = t.nonce
            PROVE  DhtId(m.msg) = t.kind
        <5>1. CASE m \in N
          BY <5>1, <4>1, <4>2, <1>7 DEF Unused
        <5>2. CASE m \in out
          BY <5>2, <4>2, <3>2, <2>2
        <5> QED
          BY <5>1, <5>2, <1>2
      <4> QED
        BY <3>2, <4>1, <4>2
    <3> QED
      BY <1>5, <3>1, <3>2
  <2> QED
    BY <1>2, <1>3, <2>3 DEF TicketInv
<1> QED
  BY <1>6, <1>7

(* The neighbours' addresses                                               *)
LEMMA TargetsOK ==
    ASSUME IInv, NEW i \in Nodes, NEW cap, NEW E \in SUBSET table[i]
    PROVE  Targets(i, cap, E) \subseteq Addresses /\ \A e \in E : ConnAddr(e) \in Addresses
BY ConnAddrs DEF IInv, TableInv, Targets

(* The number for the queries to the addresses A                           *)
LEMMA FreshNumber ==
    ASSUME NEW i \in Nodes, NEW A, NEW k \in Fresh(i, A), NEW T \in SUBSET tickets[i]
    PROVE  k \in Numbers /\ (A # {} => k \in Unused(i, T, net))
BY DEF Fresh, Unused

(* _vroute_tick: the two kinds of queries differ in their nonces.          *)
LEMMA TickOK ==
    ASSUME IInv, NEW i \in Nodes, NEW P, NEW F, NEW R, Tick(i, P, F, R)
    PROVE  IInv'
<1> DEFINE p    == Targets(i, "ping", P)
           f    == Targets(i, "find_closest_nodes", F)
           T    == tickets[i] \ R
<1>1. PICK k \in Fresh(i, p \cup f) :
        /\ tickets' = [tickets EXCEPT ![i] = T \cup Tokens(i, "ping", p, k, 1)
                                              \cup Tokens(i, "find_closest_nodes", f, k, 2)]
        /\ Send({Datagram(i, a, EncPing(QueryNonce(i, a, k, 1), i)) : a \in p}
                \cup {Datagram(i, a, EncFindClosestNodes(QueryNonce(i, a, k, 2), i, i)) : a \in f})
  BY DEF Tick
<1> DEFINE new1 == Tokens(i, "ping", p, k, 1)
           new2 == Tokens(i, "find_closest_nodes", f, k, 2)
           out1 == {Datagram(i, a, EncPing(QueryNonce(i, a, k, 1), i)) : a \in p}
           out2 == {Datagram(i, a, EncFindClosestNodes(QueryNonce(i, a, k, 2), i, i)) : a \in f}
<1>2. p \subseteq Addresses /\ f \subseteq Addresses
  BY TargetsOK DEF Tick, Peers
<1>3. k \in Numbers /\ (p \cup f # {} => k \in Unused(i, T, net))
  BY <1>1, FreshNumber
<1>4. p \cup f = {} => new1 \cup new2 = {} /\ out1 \cup out2 = {}
  BY DEF Tokens
<1> HIDE DEF p, f, T
<1>5. /\ \A t \in new1 : t \in Tickets /\ t.kind = "ping" /\ t.nonce.by = i /\ t.nonce.no = k /\ t.nonce.nth = 1
      /\ \A t \in new2 : /\ t \in Tickets /\ t.kind = "find_closest_nodes"
                          /\ t.nonce.by = i /\ t.nonce.no = k /\ t.nonce.nth = 2
  <2>1. "ping" \in DOMAIN RspId /\ "find_closest_nodes" \in DOMAIN RspId /\ 1 \in 1 .. 3 /\ 2 \in 1 .. 3
    BY Names
  <2> QED
    BY <1>2, <1>3, <2>1, TokensOK
<1>6. /\ \A m \in out1 : Asked(m, i, k, 1, "ping")
      /\ \A m \in out2 : Asked(m, i, k, 2, "find_closest_nodes")
  BY <1>2, <1>3, PingAsked, FindClosestNodesAsked
<1> DEFINE new == new1 \cup new2
           out == out1 \cup out2
<1>7. tickets' = [tickets EXCEPT ![i] = T \cup new] /\ Carry(net \cup out)
  BY <1>1 DEF Send
<1>8. T \in SUBSET tickets[i]
  BY DEF T
<1> HIDE DEF new1, new2, out1, out2
<1>9. /\ \A t \in new : t \in Tickets /\ t.nonce.by = i /\ t.nonce.no = k
      /\ \A m \in out : Asked(m, i, k, Nonce(m.msg).nth, DhtId(m.msg))
      /\ \A t \in new, m \in out : Nonce(m.msg).nth = t.nonce.nth => DhtId(m.msg) = t.kind
  BY <1>5, <1>6 DEF Asked
<1>10. (new = {} /\ out = {}) \/ k \in Unused(i, T, net)
  BY <1>3, <1>4
<1> HIDE DEF new, out
<1>11. Asking(i, net, T, k, new, out)
  BY <1>3, <1>7, <1>8, <1>9, <1>10 DEF Asking
<1>12. NetOK(net', announced) /\ TicketInv'
  BY <1>11, Queried
<1> QED
  BY <1>12, Unaltered DEF IInv, Tick, hostVars

(* _vnode_tick: the three kinds of queries differ in their nonces.         *)
LEMMA NodeTickOK ==
    ASSUME IInv, NEW i \in Nodes, NEW eaddrs, NEW Q, NodeTick(i, eaddrs, Q)
    PROVE  IInv'
<1> DEFINE r == IF eaddrs /\ NeedReflex(i) THEN {ConnAddr(e) : e \in table[i]} \cap Nodes ELSE {}
           q == {ConnAddr(e) : e \in Q}
           s == IF own[i] = {} THEN {} ELSE Targets(i, "post_service", Peers(i))
           T == tickets[i]
<1>1. PICK k \in Fresh(i, r \cup q \cup s) :
        /\ tickets' = [tickets EXCEPT ![i] = T \cup Tokens(i, "reflex", r, k, 1) \cup Tokens(i, "probe", q, k, 2)]
        /\ Send(     {Datagram(i, a, EncReflex(QueryNonce(i, a, k, 1), i)) : a \in r}
                \cup {Datagram(i, ConnAddr(e), EncProbe(QueryNonce(i, ConnAddr(e), k, 2), i, e.id)) : e \in Q}
                \cup AirService(i, s, k))
  BY DEF NodeTick
<1> DEFINE new1 == Tokens(i, "reflex", r, k, 1)
           new2 == Tokens(i, "probe", q, k, 2)
           out1 == {Datagram(i, a, EncReflex(QueryNonce(i, a, k, 1), i)) : a \in r}
           out2 == {Datagram(i, ConnAddr(e), EncProbe(QueryNonce(i, ConnAddr(e), k, 2), i, e.id)) : e \in Q}
           out3 == AirService(i, s, k)
<1>2. /\ r \subseteq Addresses /\ q \subseteq Addresses /\ s \subseteq Addresses
      /\ \A e \in Q : ConnAddr(e) \in Addresses
  <2>1. Q \subseteq Peers(i) /\ Peers(i) \subseteq table[i]
    BY DEF NodeTick, Peers
  <2> QED
    BY <2>1, TargetsOK
<1>3. k \in Numbers /\ (r \cup q \cup s # {} => k \in Unused(i, T, net))
  <2> DEFINE A == r \cup q \cup s
  <2>1. k \in Fresh(i, A)
    BY <1>1
  <2> HIDE DEF A
  <2>2. k \in Numbers /\ (A # {} => k \in Unused(i, T, net))
    BY <2>1, FreshNumber
  <2> QED
    BY <2>2 DEF A
<1>4. r \cup q \cup s = {} => new1 \cup new2 = {} /\ out1 \cup out2 \cup out3 = {}
  BY DEF Tokens, AirService
<1>5. own[i] \subseteq announced
  BY DEF IInv, OwnInv
<1> HIDE DEF r, q, s, T
<1>6. /\ \A t \in new1 : t \in Tickets /\ t.kind = "reflex" /\ t.nonce.by = i /\ t.nonce.no = k /\ t.nonce.nth = 1
      /\ \A t \in new2 : t \in Tickets /\ t.kind = "probe" /\ t.nonce.by = i /\ t.nonce.no = k /\ t.nonce.nth = 2
  BY <1>2, <1>3, TokensOK, Names
<1>7. \A m \in out1 : Asked(m, i, k, 1, "reflex")
  BY <1>2, <1>3, ReflexAsked
<1>8. \A m \in out2 : Asked(m, i, k, 2, "probe")
  BY <1>2, <1>3, ProbeAsked
<1>9. \A m \in out3 : Asked(m, i, k, 3, "post_service")
  BY <1>2, <1>3, <1>5, PostServiceAsked DEF AirService
<1> DEFINE new == new1 \cup new2
           out == out1 \cup out2 \cup out3
<1>10. tickets' = [tickets EXCEPT ![i] = T \cup new] /\ Carry(net \cup out)
  BY <1>1 DEF Send
<1>11. T \in SUBSET tickets[i]
  BY DEF T
<1> HIDE DEF new1, new2, out1, out2, out3
<1>12. /\ \A t \in new : t \in Tickets /\ t.nonce.by = i /\ t.nonce.no = k
       /\ \A m \in out : Asked(m, i, k, Nonce(m.msg).nth, DhtId(m.msg))
       /\ \A t \in new, m \in out : Nonce(m.msg).nth = t.nonce.nth => DhtId(m.msg) = t.kind
  BY <1>6, <1>7, <1>8, <1>9 DEF Asked
<1>13. (new = {} /\ out = {}) \/ k \in Unused(i, T, net)
  BY <1>3, <1>4
<1> HIDE DEF new, out
<1>14. Asking(i, net, T, k, new, out)
  BY <1>3, <1>10, <1>11, <1>12, <1>13 DEF Asking
<1>15. NetOK(net', announced) /\ TicketInv'
  BY <1>14, Queried
<1> QED
  BY <1>15, Unaltered DEF IInv, NodeTick, hostVars

(* _vroute_probe_service                                                   *)
LEMMA ProbeServiceOK ==
    ASSUME IInv, NEW i \in Nodes, NEW h, ProbeService(i, h)
    PROVE  IInv'
<1> DEFINE q == Targets(i, "find_service", Peers(i))
           T == tickets[i]
<1>1. PICK k \in Fresh(i, q) :
        /\ tickets' = [tickets EXCEPT ![i] = T \cup Tokens(i, "find_service", q, k, 1)]
        /\ Send({Datagram(i, a, EncFindService(QueryNonce(i, a, k, 1), i, h)) : a \in q})
  BY DEF ProbeService
<1> DEFINE new == Tokens(i, "find_service", q, k, 1)
           out == {Datagram(i, a, EncFindService(QueryNonce(i, a, k, 1), i, h)) : a \in q}
<1>2. q \subseteq Addresses
  <2>1. Peers(i) \subseteq table[i]
    BY DEF Peers
  <2> QED
    BY <2>1, TargetsOK
<1>3. k \in Numbers /\ (q # {} => k \in Unused(i, T, net))
  BY <1>1, FreshNumber
<1>4. q = {} => new = {} /\ out = {}
  BY DEF Tokens
<1> HIDE DEF q, T
<1>5. \A t \in new : /\ t \in Tickets /\ t.kind = "find_service"
                     /\ t.nonce.by = i /\ t.nonce.no = k /\ t.nonce.nth = 1
  BY <1>2, <1>3, TokensOK, Names
<1>6. \A m \in out : Asked(m, i, k, 1, "find_service")
  BY <1>2, <1>3, FindServiceAsked
<1>7. tickets' = [tickets EXCEPT ![i] = T \cup new] /\ Carry(net \cup out) /\ T \in SUBSET tickets[i]
  BY <1>1 DEF Send, T
<1> HIDE DEF new, out
<1>8. /\ \A t \in new : t \in Tickets /\ t.nonce.by = i /\ t.nonce.no = k
      /\ \A m \in out : Asked(m, i, k, Nonce(m.msg).nth, DhtId(m.msg))
      /\ \A t \in new, m \in out : Nonce(m.msg).nth = t.nonce.nth => DhtId(m.msg) = t.kind
  BY <1>5, <1>6 DEF Asked
<1>9. Asking(i, net, T, k, new, out)
  BY <1>3, <1>4, <1>7, <1>8 DEF Asking
<1>10. NetOK(net', announced) /\ TicketInv'
  BY <1>9, Queried
<1> QED
  BY <1>10, Unaltered DEF IInv, ProbeService, hostVars

(* _vroute_cb_find_service_rsp, with the queries it makes                  *)
LEMMA CbFindServiceRspOK ==
    ASSUME IInv, NEW i \in Nodes, NEW m \in net, DhtId(m.msg) = "find_service_rsp",
           CbFindServiceRsp(i, m)
    PROVE  IInv'
<1> DEFINE s == DecFindServiceRsp(m.msg).srvci
           q == IF Knows(i, s.host) THEN {} ELSE Targets(i, "find_node", Peers(i))
           T == Punched(i, m)
<1>1. T \in SUBSET tickets[i]
  BY DEF Punched
<1>2. q \subseteq Addresses
  <2>1. Peers(i) \subseteq table[i]
    BY DEF Peers
  <2> QED
    BY <2>1, TargetsOK
<1>3. SrvcInv'
  <2>1. PICK S \in AddService(srvcs[i], s) : srvcs' = [srvcs EXCEPT ![i] = S]
    BY DEF CbFindServiceRsp
  <2>2. s \in announced
    BY DEF IInv, NetOK, BodyOK
  <2> QED
    BY <2>1, <2>2, SrvcUpdate DEF CbFindServiceRsp, hostVars
<1>4. CASE Send({}) /\ tickets' = [tickets EXCEPT ![i] = T]
  <2>1. tickets' \in [Nodes -> SUBSET Tickets] /\ \A j \in Nodes : tickets'[j] \subseteq tickets[j]
    BY <1>1, <1>4 DEF IInv, TicketInv
  <2>2. NetOK(net', announced) /\ TicketInv'
    BY <1>4, <2>1, Quiet
  <2> QED
    BY <1>3, <2>2, Unaltered DEF IInv, CbFindServiceRsp, hostVars
<1>5. ASSUME NEW left \in {net, net \ {m}}, NEW k \in Unused(i, T, left),
             tickets' = [tickets EXCEPT ![i] = T \cup Tokens(i, "find_node", q, k, 1)],
             Carry(left \cup {Datagram(i, a, EncFindNode(QueryNonce(i, a, k, 1), i, s.host)) : a \in q})
      PROVE  IInv'
  <2> DEFINE target == s.host
             new == Tokens(i, "find_node", q, k, 1)
             out == {Datagram(i, a, EncFindNode(QueryNonce(i, a, k, 1), i, target)) : a \in q}
  <2> HIDE DEF q, T, target
  <2>1. k \in Numbers /\ left \in SUBSET net
    BY <1>5 DEF Unused
  <2>2. \A t \in new : /\ t \in Tickets /\ t.kind = "find_node"
                       /\ t.nonce.by = i /\ t.nonce.no = k /\ t.nonce.nth = 1
    BY <1>2, <2>1, TokensOK, Names
  <2>3. \A r \in out : Asked(r, i, k, 1, "find_node")
    BY <1>2, <2>1, FindNodeAsked
  <2>4. tickets' = [tickets EXCEPT ![i] = T \cup new] /\ Carry(left \cup out)
    BY <1>5 DEF target
  <2> HIDE DEF new, out
  <2>5. Asking(i, left, T, k, new, out)
    BY <1>1, <1>5, <2>1, <2>2, <2>3, <2>4 DEF Asking, Asked
  <2>6. NetOK(net', announced) /\ TicketInv'
    BY <2>5, Queried
  <2> QED
    BY <1>3, <2>6, Unaltered DEF IInv, CbFindServiceRsp, hostVars
<1>6. \/ Send({}) /\ tickets' = [tickets EXCEPT ![i] = T]
      \/ \E left \in {net, net \ {m}} : \E k \in Unused(i, T, left) :
           /\ tickets' = [tickets EXCEPT ![i] = T \cup Tokens(i, "find_node", q, k, 1)]
           /\ Carry(left \cup {Datagram(i, a, EncFindNode(QueryNonce(i, a, k, 1), i, s.host)) : a \in q})
  BY DEF CbFindServiceRsp
<1> QED
  BY <1>4, <1>5, <1>6

(* _aux_route_msg_cb                                                       *)
LEMMA ReceiveOK ==
    ASSUME IInv, NEW i \in Nodes, NEW m \in net, Receive(i, m)
    PROVE  IInv'
BY CbPingOK, CbPingRspOK, CbFindNodeOK, CbFindNodeRspOK, CbFindClosestNodesOK,
   CbFindClosestNodesRspOK, CbReflexOK, CbReflexRspOK, CbProbeOK, CbProbeRspOK,
   CbPostServiceOK, CbFindServiceOK, CbFindServiceRspOK DEF Receive

-----------------------------------------------------------------------------
(* The other steps                                                         *)

(* _vroute_join_node                                                       *)
LEMMA JoinNodeOK ==
    ASSUME IInv, NEW i \in Nodes, NEW a \in Boots[i], JoinNode(i, a)
    PROVE  IInv'
<1>1. a \in Addresses
  BY OverlayAssumption, AddrsOfNodes
<1>2. PICK T \in AddNodes(i, {FakeInfo(a)}) : table' = [table EXCEPT ![i] = T]
  BY DEF JoinNode
<1>3. TableOK(i, T)
  BY <1>1, <1>2, FakeTable DEF IInv
<1>4. TableInv'
  BY <1>2, <1>3, TableUpdate DEF IInv
<1>5. NetOK(net', announced) /\ TicketInv'
  BY DEF IInv, TicketInv, JoinNode
<1> QED
  BY <1>4, <1>5, Unaltered DEF IInv, JoinNode, hostVars

(* The services of a host change.                                          *)
LEMMA AnnounceOK ==
    ASSUME IInv, NEW i \in Nodes, NEW S, \A s \in S : IsSrvc(s), Announce(i, S), Change,
           nice' \in [Nodes -> 0 .. NiceLimit - 1], UNCHANGED <<net, table, addrs, tickets, srvcs>>
    PROVE  IInv'
<1>1. announced' = announced \cup S /\ own' = [own EXCEPT ![i] = S]
  BY DEF Announce
<1>2. NetOK(net', announced')
  BY <1>1, NetGrows DEF IInv
<1>3. TicketInv'
  BY DEF IInv, TicketInv
<1>4. SrvcInv'
  BY <1>1 DEF IInv, SrvcInv
<1>5. changes' \in 0 .. MaxChanges
  BY OverlayAssumption DEF IInv, OwnInv, Change
<1>6. OwnInv'
  BY <1>1, <1>5 DEF IInv, OwnInv
<1> QED
  BY <1>2, <1>3, <1>4, <1>6, Unaltered DEF IInv

(* A service info is still one after a change of its addresses or nice.    *)
LEMMA SrvcChanged ==
    ASSUME NEW s, IsSrvc(s), NEW A, NEW n \in 0 .. NiceLimit - 1
    PROVE  IsSrvc([s EXCEPT !.addrs = A]) /\ IsSrvc([s EXCEPT !.nice = n])
BY DEF IsSrvc

(* _vnode_srvc_post                                                        *)
LEMMA PostOK ==
    ASSUME IInv, NEW i \in Nodes, NEW o \in Offers[i], Post(i, o.hash, o.proto, o.entry)
    PROVE  IInv'
<1> DEFINE S == SrvcPost(own[i], i, o.hash, nice[i], o.proto, o.entry)
<1>1. o.hash \in Hashes /\ nice[i] \in 0 .. NiceLimit - 1 /\ \A s \in own[i] : IsSrvc(s)
  BY OverlayAssumption DEF IInv, OwnInv
<1>2. IsSrvc(NewSrvc(i, o.hash, nice[i], o.proto, o.entry))
  BY <1>1 DEF IsSrvc, NewSrvc
<1>3. \A s \in own[i] : IsSrvc([s EXCEPT !.addrs = AddSrvcAddr(@, o.entry)])
  BY <1>1, SrvcChanged
<1>4. \A s \in S : IsSrvc(s)
  BY <1>1, <1>2, <1>3 DEF SrvcPost
<1> QED
  BY <1>4, AnnounceOK DEF Post, IInv, OwnInv

(* _vnode_srvc_unpost                                                      *)
LEMMA UnpostOK ==
    ASSUME IInv, NEW i \in Nodes, NEW h, NEW a, Unpost(i, h, a)
    PROVE  IInv'
<1> DEFINE S == SrvcUnpost(own[i], h, a)
<1>1. nice[i] \in 0 .. NiceLimit - 1 /\ \A s \in own[i] : IsSrvc(s)
  BY DEF IInv, OwnInv
<1>2. \A s \in own[i] : IsSrvc([s EXCEPT !.addrs = DelSrvcAddr(@, a)])
  BY <1>1, SrvcChanged
<1>3. \A s \in S : IsSrvc(s)
  BY <1>1, <1>2 DEF SrvcUnpost
<1> QED
  BY <1>3, AnnounceOK DEF Unpost, IInv, OwnInv

(* _vnode_srvc_unpost_ext                                                  *)
LEMMA UnpostExtOK ==
    ASSUME IInv, NEW i \in Nodes, NEW h, UnpostExt(i, h)
    PROVE  IInv'
<1>1. \A s \in SrvcUnpostExt(own[i], h) : IsSrvc(s)
  BY DEF IInv, OwnInv, SrvcUnpostExt
<1> QED
  BY <1>1, AnnounceOK DEF UnpostExt, IInv, OwnInv

(* _vnode_renice                                                           *)
LEMMA ReniceOK ==
    ASSUME IInv, NEW i \in Nodes, NEW ratio \in Ratios, Renice(i, ratio)
    PROVE  IInv'
<1>1. NiceOf(ratio) \in 0 .. NiceLimit - 1
  BY OverlayAssumption, NiceBound
<1>2. \A s \in own[i] : IsSrvc([s EXCEPT !.nice = NiceOf(ratio)])
  BY <1>1, SrvcChanged DEF IInv, OwnInv
<1>3. nice' \in [Nodes -> 0 .. NiceLimit - 1]
  BY <1>1 DEF IInv, OwnInv, Renice
<1> QED
  BY <1>2, <1>3, AnnounceOK DEF Renice

(* The daemon is started again; messages to it are still under way.        *)
LEMMA RestartOK ==
    ASSUME IInv, NEW i \in Nodes, NEW T, Restart(i, T)
    PROVE  IInv'
<1>1. TableInv'
  <2>1. TableOK(i, table[i]) /\ T \subseteq table[i]
    BY DEF IInv, TableInv, Restart, Peers
  <2>2. TableOK(i, T)
    BY <2>1, FS_Subset DEF TableOK, OneEach
  <2> QED
    BY <2>2, TableUpdate DEF IInv, Restart
<1>2. AddrInv'
  BY AddrsOfNodes DEF IInv, AddrInv, Restart, AddrsOf
<1>3. TicketInv'
  <2>1. /\ tickets' \in [Nodes -> SUBSET Tickets] /\ net' = net
        /\ \A j \in Nodes : tickets'[j] \subseteq tickets[j]
    BY DEF IInv, TicketInv, Restart
  <2>2. Match(net', tickets')
    BY <2>1 DEF IInv, TicketInv, Match
  <2> QED
    BY <2>1, <2>2 DEF TicketInv
<1>4. SrvcInv'
  BY EmptySound DEF IInv, SrvcInv, Restart
<1>5. changes' \in 0 .. MaxChanges
  BY OverlayAssumption DEF IInv, OwnInv, Restart, Change
<1>6. OwnInv'
  BY <1>5 DEF IInv, OwnInv, Restart, NiceLimit
<1>7. NetOK(net', announced')
  BY DEF IInv, Restart
<1> QED
  BY <1>1, <1>2, <1>3, <1>4, <1>6, <1>7 DEF IInv

(* Datagrams are lost.                                                     *)
LEMMA LoseOK ==
    ASSUME IInv, Lose
    PROVE  IInv'
<1>1. NetOK(net', announced) /\ TicketInv'
  BY Kept, Quiet DEF Lose
<1> QED
  BY <1>1, Unaltered DEF IInv, Lose, hostVars

(* A second passes.                                                        *)
LEMMA PassOK ==
    ASSUME IInv, Pass
    PROVE  IInv'
<1>1. SrvcInv'
  <2> SUFFICES ASSUME NEW i \in Nodes
               PROVE  /\ Aged(srvcs[i]) \subseteq [srvci : announced, age : 0 .. MaxAge]
                      /\ Sound(Aged(srvcs[i]))
    BY DEF SrvcInv, Pass, hostVars
  <2>1. Sound(srvcs[i]) /\ srvcs[i] \subseteq [srvci : announced, age : 0 .. MaxAge]
    BY DEF IInv, SrvcInv
  <2>2. Sound(Aged(srvcs[i]))
    BY <2>1, AgedSound
  <2>3. ASSUME NEW e \in Aged(srvcs[i])
        PROVE  e \in [srvci : announced, age : 0 .. MaxAge]
    <3>1. e.srvci \in announced
      BY <2>1, AgedSame
    <3>2. e = Entry(e.srvci, e.age) /\ e.age \in 0 .. MaxAge
      BY <2>2 DEF Sound, IsEntry
    <3> QED
      BY <3>1, <3>2 DEF Entry
  <2> QED
    BY <2>2, <2>3
<1>2. NetOK(net', announced) /\ TicketInv'
  BY DEF IInv, TicketInv, Pass
<1> QED
  BY <1>1, <1>2, Unaltered DEF IInv, Pass, hostVars

-----------------------------------------------------------------------------
(* The table of a daemon that starts                                       *)
LEMMA InitTable ==
    ASSUME NEW i \in Nodes
    PROVE  TableOK(i, {Info(j, {Lan[j]}) : j \in Known[i]})
<1> DEFINE T == {Info(j, {Lan[j]}) : j \in Known[i]}
           f == [j \in Known[i] |-> Info(j, {Lan[j]})]
<1>1. Known[i] \subseteq Nodes \ {i}
  BY OverlayAssumption
<1>2. IsFiniteSet(Known[i])
  BY <1>1, OverlayAssumption, FS_Subset
<1>3. f \in Surjection(Known[i], T)
  BY DEF Surjection
<1>4. \A e \in T : TrueInfo(e) /\ e.id # i
  BY <1>1, AddrsOfNodes DEF TrueInfo, Info, Infos, AddrsOf
<1>5. OneEach(T)
  BY DEF OneEach, Info
<1> HIDE DEF f, T
<1>6. IsFiniteSet(T)
  BY <1>2, <1>3, FS_Surjection
<1>7. TableOK(i, T)
  BY <1>4, <1>5, <1>6 DEF TableOK, TrueInfo
<1> QED
  BY <1>7 DEF T

(* The invariant holds when the daemons start.                             *)
LEMMA InitOK == Init => IInv
<1> SUFFICES ASSUME Init PROVE IInv
  OBVIOUS
<1>1. NetOK(net, announced)
  BY DEF Init, NetOK
<1>2. TableInv
  <2>1. \A i \in Nodes : table[i] = {Info(j, {Lan[j]}) : j \in Known[i]}
    BY DEF Init
  <2>2. \A i \in Nodes : TableOK(i, table[i])
    BY <2>1, InitTable
  <2>3. table \in [Nodes -> SUBSET Infos]
    BY <2>2 DEF Init, TableOK
  <2> QED
    BY <2>2, <2>3 DEF TableInv
<1>3. AddrInv
  BY AddrsOfNodes DEF Init, AddrInv, AddrsOf
<1>4. TicketInv
  BY DEF Init, TicketInv, Match
<1>5. SrvcInv
  BY EmptySound DEF Init, SrvcInv
<1>6. OwnInv
  BY OverlayAssumption DEF Init, OwnInv, NiceLimit
<1> QED
  BY <1>1, <1>2, <1>3, <1>4, <1>5, <1>6 DEF IInv

(* Every step keeps the invariant.                                         *)
LEMMA StepOK == IInv /\ [Next]_vars => IInv'
<1> SUFFICES ASSUME IInv, [Next]_vars PROVE IInv'
  OBVIOUS
<1>1. CASE UNCHANGED vars
  BY <1>1, Unaltered DEF IInv, TicketInv, vars, hostVars
<1>2. ASSUME NEW i \in Nodes, NEW a \in Boots[i], JoinNode(i, a) PROVE IInv'
  BY <1>2, JoinNodeOK
<1>3. ASSUME NEW i \in Nodes, NEW P, NEW F, NEW R, Tick(i, P, F, R) PROVE IInv'
  BY <1>3, TickOK
<1>4. ASSUME NEW i \in Nodes, NEW eaddrs, NEW Q, NodeTick(i, eaddrs, Q) PROVE IInv'
  BY <1>4, NodeTickOK
<1>5. ASSUME NEW i \in Nodes, NEW h, ProbeService(i, h) PROVE IInv'
  BY <1>5, ProbeServiceOK
<1>6. ASSUME NEW i \in Nodes, NEW o \in Offers[i], Post(i, o.hash, o.proto, o.entry) PROVE IInv'
  BY <1>6, PostOK
<1>7. ASSUME NEW i \in Nodes, NEW h, NEW a, UnpostExt(i, h) \/ Unpost(i, h, a) PROVE IInv'
  BY <1>7, UnpostExtOK, UnpostOK
<1>8. ASSUME NEW i \in Nodes, NEW ratio \in Ratios, Renice(i, ratio) PROVE IInv'
  BY <1>8, ReniceOK
<1>9. ASSUME NEW i \in Nodes, NEW T, Restart(i, T) PROVE IInv'
  BY <1>9, RestartOK
<1>10. ASSUME NEW i \in Nodes, NEW m \in net, Receive(i, m) PROVE IInv'
  BY <1>10, ReceiveOK
<1> QED
  BY <1>1, <1>2, <1>3, <1>4, <1>5, <1>6, <1>7, <1>8, <1>9, <1>10, LoseOK, PassOK DEF Next

(* The messages under way, the tables, the tickets and the services that   *)
(* the nodes keep are consistent with one another in every reachable       *)
(* state, whatever the network does and whoever is restarted.              *)
THEOREM Invariant == Spec => []IInv
BY InitOK, StepOK, PTL DEF Spec

(* Every variable holds values of its type, and every message can be read. *)
THEOREM TypeCorrect == Spec => []TypeOK
<1>1. IInv => TypeOK
  <2> SUFFICES ASSUME IInv PROVE TypeOK
    OBVIOUS
  <2>1. \A m \in net : /\ m.from \in Nodes /\ m.to \in Addresses
                       /\ Nonce(m.msg) \in Nonces /\ DhtId(m.msg) \in AllIds
    BY DEF IInv, NetOK, HeaderOK
  <2>2. \A i \in Nodes : \A e \in srvcs[i] : e.age \in 0 .. MaxAge
    BY DEF IInv, SrvcInv
  <2>3. \A s \in announced : s.host \in Nodes /\ s.hash \in Hashes /\ s.nice \in Nat
    BY DEF IInv, OwnInv, IsSrvc, NiceLimit
  <2> QED
    BY <2>1, <2>2, <2>3 DEF TypeOK, IInv, TableInv, AddrInv, TicketInv, OwnInv
<1> QED
  BY <1>1, Invariant, PTL

(* What a node knows of a service is a version that its host has had,      *)
(* through any number of hands.                                            *)
THEOREM ServicesIntact == Spec => []Integrity
<1>1. IInv => Integrity
  BY DEF IInv, SrvcInv, Integrity
<1> QED
  BY <1>1, Invariant, PTL

(* The buckets of every service space keep within bucket_sz and hold every *)
(* service of a host once.                                                 *)
THEOREM BucketsSound == Spec => []BucketSound
<1>1. IInv => BucketSound
  BY DEF IInv, SrvcInv, BucketSound, Sound, Bounded, Unique
<1> QED
  BY <1>1, Invariant, PTL

(* _vroute_srvc_space_get_service finds every service that there is an     *)
(* entry of.                                                               *)
THEOREM ServicesFindable == Spec => []Findable
<1>1. IInv => Findable
  <2> SUFFICES ASSUME IInv, NEW i \in Nodes, NEW e \in srvcs[i]
               PROVE  GetService(srvcs[i], e.srvci.hash) # {}
    BY DEF Findable
  <2>1. \A f \in srvcs[i] : f.srvci.nice \in 0 .. NiceLimit - 1
    BY DEF IInv, SrvcInv, OwnInv, IsSrvc
  <2> QED
    BY <2>1, GetServiceFinds
<1> QED
  BY <1>1, Invariant, PTL

(* The check of the nonce alone (DO_CHECK_TOKEN) accepts a response only   *)
(* for the query it answers and from the node that was asked.              *)
THEOREM AnswersMatched == Spec => []AnswersMatch
<1>1. IInv => AnswersMatch
  <2> SUFFICES ASSUME IInv, NEW i \in Nodes, NEW m \in net, NEW t \in tickets[i],
                      Nonce(m.msg) = t.nonce, IsRsp(m.msg)
               PROVE  DhtId(m.msg) = RspId[t.kind] /\ t.nonce.to \in AddrsOf(m.from)
    BY DEF AnswersMatch, IsRsp
  <2>1. t.kind \in DOMAIN RspId
    BY DEF IInv, TicketInv, Tickets
  <2>2. DhtId(m.msg) \in {t.kind, RspId[t.kind]}
    BY DEF IInv, TicketInv, Match
  <2>3. DhtId(m.msg) \in RspIds /\ Nonce(m.msg).to \in AddrsOf(m.from)
    BY DEF IInv, NetOK, HeaderOK
  <2> QED
    BY <2>1, <2>2, <2>3, Names
<1> QED
  BY <1>1, Invariant, PTL

(* Routing tables and own infos never name an address that is not the      *)
(* node's, nor a node twice, nor the node itself.                          *)
THEOREM TablesTruthful == Spec => []Truthful
<1>1. IInv => Truthful
  BY DEF IInv, AddrInv, TableInv, TableOK, TrueInfo, OneEach, Peers, Truthful
<1> QED
  BY <1>1, Invariant, PTL

-----------------------------------------------------------------------------
(* What is under way was written by the encoders of vdht.c.                *)
AllWritten(N) == \A m \in N : Written(m.msg)

(* The keys of the arguments                                               *)
LEMMA ArgKeys == {"id", "target", "node", "nodes", "m", "service"} \subseteq Keys
<1>1. /\ KeyOrder[6] = "id" /\ KeyOrder[7] = "target" /\ KeyOrder[8] = "node"
      /\ KeyOrder[9] = "nodes" /\ KeyOrder[10] = "m" /\ KeyOrder[11] = "service"
  BY DEF KeyOrder
<1> QED
  BY <1>1 DEF Keys

LEMMA ArgsWritten ==
    ASSUME NEW src, NEW x
    PROVE  /\ AreArgs([id |-> Str(src)]) /\ AreArgs([id |-> Str(src), target |-> Str(x)])
           /\ AreArgs([id |-> Str(src), node |-> Str(x)]) /\ AreArgs([id |-> Str(src), m |-> Str(x)])
           /\ AreArgs([id |-> Str(src), service |-> Str(x)])
BY ArgKeys DEF AreArgs, IsDict, IsArg, IsStr

(* Messages whose arguments are byte strings                               *)
LEMMA PlainWritten ==
    ASSUME NEW n, NEW src, NEW x
    PROVE  /\ Written(EncPing(n, src)) /\ Written(EncPingRsp(n, src, x))
           /\ Written(EncFindNode(n, src, x)) /\ Written(EncFindNodeRsp(n, src, x))
           /\ Written(EncFindClosestNodes(n, src, x))
           /\ Written(EncReflex(n, src)) /\ Written(EncReflexRsp(n, src, x))
           /\ Written(EncProbe(n, src, x)) /\ Written(EncProbeRsp(n, src))
           /\ Written(EncPostService(n, src, x))
           /\ Written(EncFindService(n, src, x)) /\ Written(EncFindServiceRsp(n, src, x))
<1>1. \A name, args : AreArgs(args) => Written(Query(name, n, args)) /\ Written(Response(name, n, args))
  BY DEF Written
<1> QED
  BY <1>1, ArgsWritten
  DEF EncPing, EncPingRsp, EncFindNode, EncFindNodeRsp, EncFindClosestNodes, EncReflex, EncReflexRsp,
      EncProbe, EncProbeRsp, EncPostService, EncFindService, EncFindServiceRsp

(* The message with a list                                                 *)
LEMMA ListWritten ==
    ASSUME NEW n, NEW src, NEW closest, IsSeq(closest)
    PROVE  Written(EncFindClosestNodesRsp(n, src, closest))
<1> DEFINE l    == [k \in DOMAIN closest |-> Str(closest[k])]
           args == [id |-> Str(src), nodes |-> List(l)]
<1>1. Len(closest) \in Nat /\ DOMAIN closest = 1 .. Len(closest)
  BY DEF IsSeq
<1>2. IsSeq(l)
  <2>1. l \in Seq({l[k] : k \in DOMAIN closest})
    BY <1>1
  <2> QED
    BY <2>1 DEF IsSeq
<1>3. Len(l) = Len(closest) /\ \A k \in 1 .. Len(l) : IsStr(l[k])
  BY <1>1 DEF IsStr
<1> HIDE DEF l
<1>4. AreArgs(args)
  BY <1>2, <1>3, ArgKeys DEF AreArgs, IsDict, IsArg, IsStr
<1> QED
  BY <1>4 DEF Written, EncFindClosestNodesRsp, l

(* Encoded messages join what is under way.                                *)
LEMMA SentWritten ==
    ASSUME AllWritten(net), NEW out, Send(out), AllWritten(out)
    PROVE  AllWritten(net')
BY DEF AllWritten, Send, Carry

(* A message in its datagram                                               *)
LEMMA DatagramWritten ==
    ASSUME NEW i, NEW a, NEW msg, Written(msg)
    PROVE  Written(Datagram(i, a, msg).msg)
BY DEF Datagram

(* A response, if it is sent                                               *)
LEMMA ReplyWritten ==
    ASSUME NEW i, NEW m, NEW cap, NEW msg, Written(msg)
    PROVE  AllWritten(Reply(i, m, cap, msg))
BY DatagramWritten DEF Reply, AllWritten

(* The handlers that answer                                                *)
LEMMA AnswersWritten ==
    ASSUME IInv, AllWritten(net), NEW i \in Nodes, NEW m \in net,
           \/ CbPing(i, m) \/ CbFindNode(i, m) \/ CbFindClosestNodes(i, m) \/ CbReflex(i, m)
           \/ CbProbe(i, m) \/ CbFindService(i, m)
    PROVE  AllWritten(net')
<1>1. AllWritten({})
  BY DEF AllWritten
<1>2. CASE CbPing(i, m)
  BY <1>2, PlainWritten, ReplyWritten, SentWritten DEF CbPing
<1>3. CASE CbFindNode(i, m)
  <2> DEFINE found == {e \in Peers(i) : e.id = DecFindNode(m.msg).target}
             out(e) == Reply(i, m, "find_node_rsp", EncFindNodeRsp(Nonce(m.msg), i, e))
  <2>1. Send(UNION {out(e) : e \in found})
    BY <1>3 DEF CbFindNode
  <2>2. \A e \in found : AllWritten(out(e))
    BY PlainWritten, ReplyWritten
  <2> HIDE DEF found, out
  <2>3. AllWritten(UNION {out(e) : e \in found})
    BY <2>2 DEF AllWritten
  <2> QED
    BY <2>1, <2>3, SentWritten
<1>4. CASE CbFindClosestNodes(i, m)
  <2> DEFINE closest == {e \in Peers(i) : e.id # DecFindClosestNodes(m.msg).target}
             msg     == EncFindClosestNodesRsp(Nonce(m.msg), i, Listing(closest))
  <2>1. IsFiniteSet(closest)
    <3>1. IsFiniteSet(table[i]) /\ closest \subseteq table[i]
      BY DEF IInv, TableInv, TableOK, Peers
    <3> QED
      BY <3>1, FS_Subset
  <2>2. Send({}) \/ Send(Reply(i, m, "find_closest_nodes_rsp", msg))
    BY <1>4 DEF CbFindClosestNodes
  <2> HIDE DEF closest
  <2>3. Listing(closest) \in [1 .. Cardinality(closest) -> closest] /\ Cardinality(closest) \in Nat
    BY <2>1, ListingOf, FS_CardinalityType
  <2>4. IsSeq(Listing(closest))
    <3>1. Listing(closest) \in Seq(closest)
      BY <2>3
    <3> QED
      BY <3>1 DEF IsSeq
  <2>5. Written(msg)
    BY <2>4, ListWritten
  <2> HIDE DEF msg
  <2> QED
    BY <1>1, <2>2, <2>5, ReplyWritten, SentWritten
<1>5. CASE CbReflex(i, m)
  <2> DEFINE out == {Datagram(i, m.from, EncReflexRsp(Nonce(m.msg), i, m.from))}
  <2>1. AllWritten(out)
    BY PlainWritten, DatagramWritten DEF AllWritten
  <2> QED
    BY <1>5, <2>1, SentWritten DEF CbReflex
<1>6. CASE CbProbe(i, m)
  <2> DEFINE out == {Datagram(i, m.from, EncProbeRsp(Nonce(m.msg), i))}
  <2>1. AllWritten(out)
    BY PlainWritten, DatagramWritten DEF AllWritten
  <2> QED
    BY <1>6, <2>1, SentWritten DEF CbProbe
<1>7. CASE CbFindService(i, m)
  <2>1. Send({}) \/ \E s : Send(Reply(i, m, "find_service_rsp", EncFindServiceRsp(Nonce(m.msg), i, s)))
    BY <1>7 DEF CbFindService
  <2> QED
    BY <1>1, <2>1, PlainWritten, ReplyWritten, SentWritten
<1> QED
  BY <1>2, <1>3, <1>4, <1>5, <1>6, <1>7

(* _vroute_cb_find_service_rsp, which may ask for the host                 *)
LEMMA FindServiceRspWritten ==
    ASSUME AllWritten(net), NEW i \in Nodes, NEW m \in net, CbFindServiceRsp(i, m)
    PROVE  AllWritten(net')
<1> DEFINE h == DecFindServiceRsp(m.msg).srvci.host
           q == IF Knows(i, h) THEN {} ELSE Targets(i, "find_node", Peers(i))
<1>1. Send({}) \/ \E left \in {net, net \ {m}} : \E k :
          Carry(left \cup {Datagram(i, a, EncFindNode(QueryNonce(i, a, k, 1), i, h)) : a \in q})
  BY DEF CbFindServiceRsp
<1> HIDE DEF h, q
<1>2. CASE Send({})
  BY <1>2, SentWritten DEF AllWritten
<1>3. ASSUME NEW left \in {net, net \ {m}}, NEW k,
             Carry(left \cup {Datagram(i, a, EncFindNode(QueryNonce(i, a, k, 1), i, h)) : a \in q})
      PROVE  AllWritten(net')
  <2> DEFINE out == {Datagram(i, a, EncFindNode(QueryNonce(i, a, k, 1), i, h)) : a \in q}
  <2>1. AllWritten(out)
    BY PlainWritten, DatagramWritten DEF AllWritten
  <2>2. left \subseteq net /\ Carry(left \cup out)
    BY <1>3
  <2> HIDE DEF out
  <2> QED
    BY <2>1, <2>2 DEF AllWritten, Carry
<1> QED
  BY <1>1, <1>2, <1>3

(* _aux_route_msg_cb                                                       *)
LEMMA ReceiveWritten ==
    ASSUME IInv, AllWritten(net), NEW i \in Nodes, NEW m \in net, Receive(i, m)
    PROVE  AllWritten(net')
<1>1. CASE \/ CbPing(i, m) \/ CbFindNode(i, m) \/ CbFindClosestNodes(i, m) \/ CbReflex(i, m)
           \/ CbProbe(i, m) \/ CbFindService(i, m)
  BY <1>1, AnswersWritten
<1>2. CASE CbFindServiceRsp(i, m)
  BY <1>2, FindServiceRspWritten
<1>3. CASE \/ CbPingRsp(i, m) \/ CbFindNodeRsp(i, m) \/ CbFindClosestNodesRsp(i, m)
           \/ CbReflexRsp(i, m) \/ CbProbeRsp(i, m) \/ CbPostService(i, m)
  <2>1. Send({})
    BY <1>3 DEF CbPingRsp, CbFindNodeRsp, CbFindClosestNodesRsp, CbReflexRsp, CbProbeRsp, CbPostService
  <2> QED
    BY <2>1, SentWritten DEF AllWritten
<1> QED
  BY <1>1, <1>2, <1>3 DEF Receive

(* The queries of a tick, of vnode.c and of a client                       *)
LEMMA QueriesWritten ==
    ASSUME AllWritten(net), NEW i \in Nodes,
           \/ \E P, F, R : Tick(i, P, F, R) \/ \E eaddrs, Q : NodeTick(i, eaddrs, Q)
           \/ \E h : ProbeService(i, h)
    PROVE  AllWritten(net')
<1>1. ASSUME NEW P, NEW F, NEW R, Tick(i, P, F, R) PROVE AllWritten(net')
  <2> DEFINE p == Targets(i, "ping", P)
             f == Targets(i, "find_closest_nodes", F)
  <2>1. PICK k : Send({Datagram(i, a, EncPing(QueryNonce(i, a, k, 1), i)) : a \in p}
                     \cup {Datagram(i, a, EncFindClosestNodes(QueryNonce(i, a, k, 2), i, i)) : a \in f})
    BY <1>1 DEF Tick
  <2> HIDE DEF p, f
  <2> DEFINE out == {Datagram(i, a, EncPing(QueryNonce(i, a, k, 1), i)) : a \in p}
                     \cup {Datagram(i, a, EncFindClosestNodes(QueryNonce(i, a, k, 2), i, i)) : a \in f}
  <2>2. AllWritten(out)
    BY PlainWritten, DatagramWritten DEF AllWritten
  <2> QED
    BY <2>1, <2>2, SentWritten
<1>2. ASSUME NEW eaddrs, NEW Q, NodeTick(i, eaddrs, Q) PROVE AllWritten(net')
  <2> DEFINE r == IF eaddrs /\ NeedReflex(i) THEN {ConnAddr(e) : e \in table[i]} \cap Nodes ELSE {}
             s == IF own[i] = {} THEN {} ELSE Targets(i, "post_service", Peers(i))
  <2>1. PICK k : Send({Datagram(i, a, EncReflex(QueryNonce(i, a, k, 1), i)) : a \in r}
                     \cup {Datagram(i, ConnAddr(e), EncProbe(QueryNonce(i, ConnAddr(e), k, 2), i, e.id)) : e \in Q}
                     \cup AirService(i, s, k))
    BY <1>2 DEF NodeTick
  <2> HIDE DEF r, s
  <2> DEFINE out == {Datagram(i, a, EncReflex(QueryNonce(i, a, k, 1), i)) : a \in r}
                     \cup {Datagram(i, ConnAddr(e), EncProbe(QueryNonce(i, ConnAddr(e), k, 2), i, e.id)) : e \in Q}
                     \cup AirService(i, s, k)
  <2>2. AllWritten(out)
    BY PlainWritten, DatagramWritten DEF AllWritten, AirService
  <2> QED
    BY <2>1, <2>2, SentWritten
<1>3. ASSUME NEW h, ProbeService(i, h) PROVE AllWritten(net')
  <2> DEFINE q == Targets(i, "find_service", Peers(i))
  <2>1. PICK k : Send({Datagram(i, a, EncFindService(QueryNonce(i, a, k, 1), i, h)) : a \in q})
    BY <1>3 DEF ProbeService
  <2> HIDE DEF q
  <2> DEFINE out == {Datagram(i, a, EncFindService(QueryNonce(i, a, k, 1), i, h)) : a \in q}
  <2>2. AllWritten(out)
    BY PlainWritten, DatagramWritten DEF AllWritten
  <2> QED
    BY <2>1, <2>2, SentWritten
<1> QED
  BY <1>1, <1>2, <1>3

(* Every step sends what the encoders wrote, or nothing.                   *)
LEMMA StepWritten == IInv /\ AllWritten(net) /\ [Next]_vars => AllWritten(net')
<1> SUFFICES ASSUME IInv, AllWritten(net), [Next]_vars PROVE AllWritten(net')
  OBVIOUS
<1>1. CASE UNCHANGED net
  BY <1>1
<1>2. CASE Lose
  BY <1>2, SentWritten DEF Lose, AllWritten
<1>3. ASSUME NEW i \in Nodes, NEW m \in net, Receive(i, m) PROVE AllWritten(net')
  BY <1>3, ReceiveWritten
<1>4. ASSUME NEW i \in Nodes,
             \/ \E P, F, R : Tick(i, P, F, R) \/ \E eaddrs, Q : NodeTick(i, eaddrs, Q)
             \/ \E h : ProbeService(i, h)
      PROVE  AllWritten(net')
  BY <1>4, QueriesWritten
<1>5. ASSUME NEW i \in Nodes,
             \/ \E a : JoinNode(i, a) \/ \E o : Post(i, o.hash, o.proto, o.entry)
             \/ \E h : (UnpostExt(i, h) \/ \E a : Unpost(i, h, a))
             \/ \E ratio : Renice(i, ratio) \/ \E T : Restart(i, T)
      PROVE  UNCHANGED net
  BY <1>5 DEF JoinNode, Post, UnpostExt, Unpost, Renice, Restart
<1>6. Pass => UNCHANGED net
  BY DEF Pass
<1>7. UNCHANGED vars => UNCHANGED net
  BY DEF vars
<1> QED
  BY <1>1, <1>2, <1>3, <1>4, <1>5, <1>6, <1>7 DEF Next

(* Every message under way is read by be_decode as be_encode wrote it, and *)
(* no part of one is taken for a message.                                  *)
THEOREM MessagesArrive == Spec => []WireFaithful
<1>1. Init => AllWritten(net)
  BY DEF Init, AllWritten
<1>2. AllWritten(net) => WireFaithful
  <2>1. Aborted.st # "ok" /\ Undefined.st # "ok"
    BY DEF Aborted, Undefined
  <2> QED
    BY <2>1, ReadBack DEF AllWritten, WireFaithful
<1>3. IInv /\ AllWritten(net) /\ [Next]_vars => AllWritten(net)'
  BY StepWritten DEF AllWritten
<1> QED
  BY <1>1, <1>2, <1>3, Invariant, PTL DEF Spec
=============================================================================
