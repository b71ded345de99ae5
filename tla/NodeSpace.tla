----------------------------- MODULE NodeSpace -----------------------------
(***************************************************************************)
(* The node routing space of vroute_node.c: the table of known DHT nodes   *)
(* ("peers"), kept in buckets, pinged by the ticker, fed by the message    *)
(* handlers of vroute.c and saved to a database between runs.              *)
(*                                                                         *)
(* Every operation runs under route->lock, so each one is one action.      *)
(* The module makes no assumption on the messages that arrive: the network *)
(* offers any vnodeInfo of NodeInfos, and what this node itself told       *)
(* others, in any order and as often as it likes.                          *)
(*                                                                         *)
(* Time.  The code keeps tick_ts, the time of the last ping or message,    *)
(* and compares it with next_tmo.  next_tmo only changes together with     *)
(* tick_ts, so the only thing the comparison can tell is whether the age   *)
(* now - tick_ts has reached next_tmo: "age" counts up to next_tmo and     *)
(* stays there.  A bucket's ts is kept in the same way, up to MaxNextTmo.  *)
(***************************************************************************)
EXTENDS NodeInfo, FiniteSets

CONSTANTS
    Ids,           \* node ids
    MyId,          \* the id of the local node
    Vers,          \* node versions, UnknownVer among them
    MyVer,         \* the version of the local node
    AddrLists,     \* the address lists that occur
    NodeInfos,     \* the vnodeInfos that messages carry
    Buckets,       \* bucket numbers (0 .. NBUCKETS - 1)
    BucketOf,      \* vnodeId_bucket(myid, .)
    ZAddr,         \* the local DHT address (space->zaddr)
    LocalAddrs,    \* own typed addresses that connectivity is probed from
    BucketSz,      \* space->bucket_sz
    InitNextTmo,   \* space->init_next_tmo
    NextTmoStep,   \* space->next_tmo_step
    MaxNextTmo,    \* space->max_next_tmo
    MaxPingTms,    \* space->max_ping_tms
    MaxProbeTms,   \* space->max_probe_tms
    MaxTries       \* where the model stops counting ntry_pings

Infos  == [id : Ids, ver : Vers, weight : Int, addrs : AddrLists]
Addrs  == {ZAddr} \cup {l.addr : l \in LocalAddrs}
             \cup UNION {{s[i].addr : i \in DOMAIN s} : s \in AddrLists}
Conns  == [laddr : Addrs, raddr : Addrs, priority : Priorities]

ASSUME IdsAssumption == /\ MyId \in Ids
                        /\ BucketOf \in [Ids -> Buckets]
                        /\ MyVer \in Vers \ {UnknownVer}
                        /\ UnknownVer \in Vers
                        /\ NodeInfos \subseteq Infos

ASSUME TmoAssumption == /\ InitNextTmo \in Nat \ {0}
                        /\ NextTmoStep \in Nat \ {0}
                        /\ MaxNextTmo \in Nat
                        /\ InitNextTmo =< MaxNextTmo

ASSUME LimitAssumption == /\ BucketSz \in Nat \ {0}
                          /\ MaxPingTms \in Nat
                          /\ MaxProbeTms \in Nat
                          /\ MaxTries \in Nat
                          /\ MaxTries > MaxPingTms

(* The address lists that occur are not empty and copying or merging them  *)
(* gives lists that occur.                                                 *)
ASSUME AddrAssumption ==
    /\ \A s \in AddrLists : s # << >> /\ s \in Seq([addr : Addrs, type : AddrTypes])
    /\ \A s \in AddrLists : CopyAddrs(s) \in AddrLists
    /\ \A s, t \in AddrLists, fake \in BOOLEAN : MergeAddrs(s, t, fake) \in AddrLists
    /\ LocalAddrs \subseteq [addr : Addrs, type : AddrTypes]

(* A message carries the vnodeInfo struct of its sender, whose list        *)
(* vnodeInfo_add_addr built: it fits, and has no address twice.            *)
ASSUME InfosAssumption ==
    \A n \in NodeInfos : Len(n.addrs) =< MaxAddrs /\ NoAddrTwice(n.addrs)

VARIABLES
    peers,    \* peers[b]: the peers of bucket b, in varray order
    refresh,  \* refresh[b]: time since bucket b was refreshed (bucket[b].ts)
    db,       \* the rows of the table dht_peer: [id, ver, addrs]
    mode,     \* "off", "load" (inside _vroute_load) or "run" (vnode's mode)
    rows,     \* the rows a running load has still to deliver
    probing   \* the probes under way: [id, conn] of the CONN_PROBE tickets

vars == <<peers, refresh, db, mode, rows, probing>>

-----------------------------------------------------------------------------
(* space->max_next_tmo_unreachable                                         *)
MaxNextTmoUnreachable == 4 * MaxNextTmo

(* The literals of vpeer_update ("means bad node") and add_node (max_try). *)
BadPings == 2
MaxTry   == 3

vminimum(x, y) == IF x >= y THEN y ELSE x

PeersOf(ps) == {ps[i] : i \in DOMAIN ps}
AllPeers    == UNION {PeersOf(peers[b]) : b \in Buckets}
IdsOf(ps)   == {p.nodei.id : p \in PeersOf(ps)}
InTable(id) == id \in IdsOf(peers[BucketOf[id]])

(* The test "next_tmo >= max_next_tmo_unreachable" of all the callbacks.   *)
Unreachable(p) == p.next_tmo >= MaxNextTmoUnreachable

Due(p) == p.age >= p.next_tmo

Peer == [nodei : Infos, conn : Conns, age : 0 .. MaxNextTmoUnreachable,
         next_tmo : InitNextTmo .. MaxNextTmoUnreachable,
         ntry_pings : 0 .. MaxTries, ntry_probes : 0 .. MaxProbeTms]

-----------------------------------------------------------------------------
(* Peers: vpeer_init, vpeer_update and the ping callback                   *)

vpeer_init(n) ==
    LET nodei == Copy(n)
    IN  [nodei       |-> nodei,
         conn        |-> RawConn(ZAddr, WorstAddr(nodei.addrs)),
         age         |-> 0,
         next_tmo    |-> InitNextTmo,
         ntry_pings  |-> 0,
         ntry_probes |-> 0]

(* Mutant: a bad node that answers keeps its long interval.                *)
PingAnswered_KeepTmo(p) ==
    [p EXCEPT !.next_tmo = IF p.ntry_pings > BadPings THEN @
                           ELSE vminimum(p.next_tmo + NextTmoStep, MaxNextTmo),
              !.ntry_pings = 0,
              !.age = 0]

(* VADD_BY_PING_RSP: a bad node starts again, a good one is pinged less.   *)
PingAnswered(p) ==
    [p EXCEPT !.next_tmo = IF p.ntry_pings > BadPings THEN InitNextTmo
                           ELSE vminimum(p.next_tmo + NextTmoStep, MaxNextTmo),
              !.ntry_pings = 0,
              !.age = 0]

(* Mutant: the probes are counted anew whenever the node is heard of.      *)
vpeer_update_ProbesAgain(p, n, flag) ==
    LET q == IF flag = "ping_rsp" THEN PingAnswered(p) ELSE p
        nodei == Merge(p.nodei, n)
    IN  [q EXCEPT !.nodei = nodei,
                  !.conn = IF MergeUpdates(p.nodei, n)
                           THEN RawConn(ZAddr, WorstAddr(nodei.addrs)) ELSE @,
                  !.ntry_probes = 0]

(* Mutant: the flag is not looked at.                                      *)
vpeer_update_AnyFlag(p, n, flag) ==
    [PingAnswered(p) EXCEPT !.nodei = Merge(p.nodei, n)]

vpeer_update(p, n, flag) ==
    LET q == IF flag = "ping_rsp" THEN PingAnswered(p) ELSE p
        nodei == Merge(p.nodei, n)
    IN  IF MergeUpdates(p.nodei, n)
        THEN [q EXCEPT !.nodei = nodei,
                       !.conn = RawConn(ZAddr, WorstAddr(nodei.addrs)),
                       !.ntry_probes = 0]
        ELSE [q EXCEPT !.nodei = nodei]

(* Mutant: the growing interval is not capped.                             *)
PingPeer_NoCap(p) ==
    IF ~Due(p) \/ (p.ntry_pings > MaxPingTms /\ IsFake(p.nodei))
    THEN p
    ELSE [p EXCEPT !.ntry_pings = vminimum(@ + 1, MaxTries),
                   !.age = 0,
                   !.next_tmo = IF p.ntry_pings + 1 > MaxPingTms
                                THEN @ + NextTmoStep ELSE @]

(* _aux_space_ping_nodei_cb                                                *)
PingPeer(p) ==
    IF ~Due(p) \/ (p.ntry_pings > MaxPingTms /\ IsFake(p.nodei))
    THEN p
    ELSE [p EXCEPT !.ntry_pings = vminimum(@ + 1, MaxTries),
                   !.age = 0,
                   !.next_tmo = IF p.ntry_pings + 1 > MaxPingTms
                                THEN vminimum(@ + NextTmoStep, MaxNextTmoUnreachable)
                                ELSE @]

(* kick_node on the peer it finds                                          *)
KickPeer(p) ==
    [p EXCEPT !.age = 0,
              !.next_tmo = IF p.ntry_pings > 1 THEN InitNextTmo ELSE @]

(* adjust_connectivity on the peer it finds                                *)
AdjustPeer(p, conn) == [p EXCEPT !.conn = AdjustConn(@, conn)]

-----------------------------------------------------------------------------
(***************************************************************************)
(* _aux_space_find_worst_nodei_cb over the bucket ps, for a newcomer n     *)
(* that is not in it.  The scan keeps the largest number of pings seen and *)
(* the smallest weight among the others; whatever last improved one of the *)
(* two is the "worst" peer.  The result is its position, 0 if there is     *)
(* none.                                                                   *)
(***************************************************************************)
MostTried(ps, k) ==
    /\ ps[k].ntry_pings > MaxTry
    /\ \A j \in 1 .. k - 1 : ps[j].ntry_pings < ps[k].ntry_pings

Lightest(ps, n, k) ==
    /\ ps[k].nodei.weight < n.weight
    /\ \A j \in 1 .. k - 1 :
         MostTried(ps, j) \/ ps[k].nodei.weight < ps[j].nodei.weight

FindWorst(ps, n) ==
    LET marked == {k \in DOMAIN ps : MostTried(ps, k) \/ Lightest(ps, n, k)}
    IN  IF marked = {} THEN 0
        ELSE CHOOSE k \in marked : \A j \in marked : j =< k

(* Mutants: the size check is one off, in either direction.                *)
AddToBucket_TooMany(ps, n, flag) ==
    IF n.id \in IdsOf(ps)
    THEN [i \in DOMAIN ps |-> IF ps[i].nodei.id = n.id
                              THEN vpeer_update(ps[i], n, flag) ELSE ps[i]]
    ELSE IF Len(ps) =< BucketSz THEN Append(ps, vpeer_init(n)) ELSE ps

AddToBucket_TooFew(ps, n, flag) ==
    IF n.id \in IdsOf(ps)
    THEN [i \in DOMAIN ps |-> IF ps[i].nodei.id = n.id
                              THEN vpeer_update(ps[i], n, flag) ELSE ps[i]]
    ELSE IF Len(ps) < BucketSz - 1 THEN Append(ps, vpeer_init(n)) ELSE ps

(***************************************************************************)
(* The body of add_node on the bucket ps: update the peer if it is known;  *)
(* else, in a full bucket, update the worst peer, if there is one; else    *)
(* append it if there is room.                                             *)
(***************************************************************************)
AddToBucket(ps, n, flag) ==
    IF n.id \in IdsOf(ps)
    THEN [i \in DOMAIN ps |-> IF ps[i].nodei.id = n.id
                              THEN vpeer_update(ps[i], n, flag) ELSE ps[i]]
    ELSE IF Len(ps) < BucketSz
    THEN Append(ps, vpeer_init(n))
    ELSE [i \in DOMAIN ps |-> IF i = FindWorst(ps, n)
                              THEN vpeer_update(ps[i], n, flag) ELSE ps[i]]

(* Whether add_node sets "updated", and with it the bucket's ts            *)
Updates(ps, n) ==
    IF n.id \in IdsOf(ps)
    THEN \E p \in PeersOf(ps) : MergeUpdates(p.nodei, n)
    ELSE Len(ps) < BucketSz

(* A node of our own version gets one weight more in the table ...         *)
Weighed(n) == IF n.ver = MyVer THEN [n EXCEPT !.weight = @ + 1] ELSE n

(* Mutant: the table's weight is passed on.                                *)
Reported_AsKept(n) == n

(* ... which find_node takes off again from what it reports.               *)
Reported(n) == IF n.ver = MyVer THEN [n EXCEPT !.weight = @ - 1] ELSE n

(* _vroute_node_space_find_node: everything it can answer                  *)
FindNode(id) ==
    {Reported(Copy(p.nodei)) :
        p \in {q \in PeersOf(peers[BucketOf[id]]) : q.nodei.id = id}}

(* Mutant: the bucket is computed from the wrong id.                       *)
add_node_MyBucket(tab, n, flag) ==
    /\ n.id # MyId
    /\ peers' = [tab EXCEPT ![BucketOf[MyId]] =
                   AddToBucket(tab[BucketOf[MyId]], Weighed(n), flag)]
    /\ refresh' = [refresh EXCEPT ![BucketOf[MyId]] =
                     IF Updates(tab[BucketOf[MyId]], n) THEN 0 ELSE @]

(* _vroute_node_space_add_node on the table tab; for the local node's own  *)
(* id it does nothing.                                                     *)
add_node(tab, n, flag) ==
    /\ n.id # MyId
    /\ peers' = [tab EXCEPT ![BucketOf[n.id]] =
                   AddToBucket(tab[BucketOf[n.id]], Weighed(n), flag)]
    /\ refresh' = [refresh EXCEPT ![BucketOf[n.id]] =
                     IF Updates(tab[BucketOf[n.id]], n) THEN 0 ELSE @]

(* _vroute_node_space_kick_node: the table after a message of node id,     *)
(* which may be unknown                                                    *)
Kicked(id) ==
    [peers EXCEPT ![BucketOf[id]] =
       [i \in DOMAIN @ |-> IF @[i].nodei.id = id THEN KickPeer(@[i]) ELSE @[i]]]

-----------------------------------------------------------------------------
(* Actions of the message handlers                                         *)

(* A made-up node: _vroute_join_node, or a @ping from an unknown sender.   *)
JoinNode(n) ==
    /\ mode # "load"
    /\ IsFake(n) /\ n.id \notin UNION {IdsOf(peers[b]) : b \in Buckets}
    /\ add_node(peers, n, "other")
    /\ UNCHANGED <<db, mode, rows, probing>>

(* A @find_node response of the node from names n.  A @find_closest_nodes  *)
(* response names several: one after the other, as in as many responses.   *)
LearnNode(from, n) ==
    /\ mode # "load"
    /\ add_node(Kicked(from), n, "other")
    /\ UNCHANGED <<db, mode, rows, probing>>

(* A @ping response: the sender describes itself.                          *)
PingRsp(n) ==
    /\ mode # "load"
    /\ ~IsFake(n)
    /\ add_node(peers, n, "ping_rsp")
    /\ UNCHANGED <<db, mode, rows, probing>>

(* A @ping of a known node, or any of the messages whose handlers do not   *)
(* change the table but for DO_KICK_NODEI                                  *)
KickNode(id) ==
    /\ mode # "load"
    /\ InTable(id)
    /\ peers' = Kicked(id)
    /\ UNCHANGED <<refresh, db, mode, rows, probing>>

(* A @probe response of the node from punches its ticket:                  *)
(* adjust_connectivity.  When the peer is gone only the ticket goes.       *)
ProbeRsp(from, pr) ==
    /\ mode # "load"
    /\ pr \in probing
    /\ peers' = [Kicked(from) EXCEPT ![BucketOf[pr.id]] =
                   [i \in DOMAIN @ |->
                      IF @[i].nodei.id = pr.id THEN AdjustPeer(@[i], pr.conn)
                      ELSE @[i]]]
    /\ probing' = probing \ {pr}
    /\ UNCHANGED <<refresh, db, mode, rows>>

(* A probe ticket is reaped after its three seconds.                       *)
ProbeExpires(pr) ==
    /\ mode = "run"
    /\ pr \in probing
    /\ probing' = probing \ {pr}
    /\ UNCHANGED <<peers, refresh, db, mode, rows>>

-----------------------------------------------------------------------------
(* Actions of the ticker thread (vnode's tick callback)                    *)

(* _aux_space_probe_connectivity_cb: whom it probes ...                    *)
ProbesPeer(p) == /\ p.ntry_probes < MaxProbeTms
                 /\ ~Unreachable(p)
                 /\ ~IsFake(p.nodei)

(* ... and how: the loop over the addresses always uses the first one.     *)
ProbeConnectivity(local) ==
    /\ mode = "run"
    /\ peers' = [b \in Buckets |->
                   [i \in DOMAIN peers[b] |->
                      IF ProbesPeer(peers[b][i])
                      THEN [peers[b][i] EXCEPT !.ntry_probes = @ + 1]
                      ELSE peers[b][i]]]
    /\ probing' = probing \cup
                    {[id |-> p.nodei.id, conn |-> Conn(local, p.nodei.addrs[1])] :
                        p \in {q \in AllPeers : ProbesPeer(q)}}
    /\ UNCHANGED <<refresh, db, mode, rows>>

(* _vroute_node_space_tick: ping every peer that is due, then ask a random *)
(* peer of each stale bucket for more nodes.                               *)
Tick ==
    /\ mode = "run"
    /\ peers' = [b \in Buckets |->
                   [i \in DOMAIN peers[b] |-> PingPeer(peers[b][i])]]
    /\ \E asked \in SUBSET {b \in Buckets : peers[b] # << >> /\ refresh[b] >= MaxNextTmo} :
         /\ \A b \in asked : \E p \in PeersOf(peers'[b]) :
              ~Unreachable(p) /\ ~IsFake(p.nodei)
         /\ \A b \in Buckets \ asked :
              (peers[b] # << >> /\ refresh[b] >= MaxNextTmo) =>
                 \E p \in PeersOf(peers'[b]) : Unreachable(p) \/ IsFake(p.nodei)
         /\ refresh' = [b \in Buckets |-> IF b \in asked THEN 0 ELSE refresh[b]]
    /\ UNCHANGED <<db, mode, rows, probing>>

(* Mutant: fake nodes are saved too.                                       *)
Stored_Fakes ==
    {[id |-> p.nodei.id, ver |-> p.nodei.ver, addrs |-> p.nodei.addrs] :
        p \in {q \in AllPeers : ~Unreachable(q)}}

(* What _aux_space_store_nodei_cb makes rows of                            *)
Stored ==
    {[id |-> p.nodei.id, ver |-> p.nodei.ver, addrs |-> p.nodei.addrs] :
        p \in {q \in AllPeers : ~IsFake(q.nodei) /\ ~Unreachable(q)}}

(* _vroute_node_space_store: one "insert or replace" after the other, each *)
(* a transaction of its own.  One that fails is passed over, and the store *)
(* is reported as done; so any part S of the rows may get into the         *)
(* database, none if that cannot be opened.  A process that dies within a  *)
(* store does the same, with the Restart that follows: route->lock is held *)
(* meanwhile, so that nothing else happens to the table.                   *)
WriteBack(S) ==
    /\ S \subseteq Stored
    /\ db' = {r \in db : \A s \in S : s.id # r.id} \cup S

Store(S) ==
    /\ mode = "run"
    /\ WriteBack(S)
    /\ UNCHANGED <<peers, refresh, mode, rows, probing>>

(* The node goes down: the last write back                                 *)
Stop(S) ==
    /\ mode = "run"
    /\ WriteBack(S)
    /\ mode' = "off"
    /\ UNCHANGED <<peers, refresh, rows, probing>>

(* _vroute_node_space_load: the select, ...                                *)
Load ==
    /\ mode = "off"
    /\ mode' = "load"
    /\ rows' = db
    /\ UNCHANGED <<peers, refresh, db, probing>>

LoadedInfo(r) == [id |-> r.id, ver |-> r.ver, weight |-> 0,
                  addrs |-> CopyAddrs(r.addrs)]

(* ... _aux_space_load_nodei_cb for each row, in no particular order, ...  *)
LoadRow(r) ==
    /\ mode = "load"
    /\ r \in rows
    /\ add_node(peers, LoadedInfo(r), "other")
    /\ rows' = rows \ {r}
    /\ UNCHANGED <<db, mode, probing>>

(* ... and its end: the node runs.                                         *)
LoadDone ==
    /\ mode = "load"
    /\ rows = {}
    /\ mode' = "run"
    /\ UNCHANGED <<peers, refresh, db, rows, probing>>

-----------------------------------------------------------------------------
(* The environment                                                         *)

(* The process ends, at any moment, and is started again: clear and init.  *)
Restart ==
    /\ peers' = [b \in Buckets |-> << >>]
    /\ refresh' = [b \in Buckets |-> MaxNextTmo]
    /\ mode' = "off"
    /\ rows' = {}
    /\ probing' = {}
    /\ UNCHANGED db

(* A second passes.                                                        *)
Pass ==
    /\ peers' = [b \in Buckets |->
                   [i \in DOMAIN peers[b] |->
                      [peers[b][i] EXCEPT !.age = vminimum(@ + 1, peers[b][i].next_tmo)]]]
    /\ refresh' = [b \in Buckets |-> vminimum(refresh[b] + 1, MaxNextTmo)]
    /\ UNCHANGED <<db, mode, rows, probing>>

Init ==
    /\ peers = [b \in Buckets |-> << >>]
    /\ refresh = [b \in Buckets |-> MaxNextTmo]
    /\ db = {}
    /\ mode = "off"
    /\ rows = {}
    /\ probing = {}

Next ==
    \/ \E n \in NodeInfos : JoinNode(n)
    \/ \E from \in Ids, n \in NodeInfos : LearnNode(from, n)
    \/ \E from, id \in Ids : \E n \in FindNode(id) : LearnNode(from, n)
    \/ \E n \in NodeInfos : PingRsp(n)
    \/ \E id \in Ids : KickNode(id)
    \/ \E from \in Ids, pr \in probing : ProbeRsp(from, pr)
    \/ \E pr \in probing : ProbeExpires(pr)
    \/ \E local \in LocalAddrs : ProbeConnectivity(local)
    \/ Tick
    \/ \E S \in SUBSET Stored : Store(S) \/ Stop(S)
    \/ Load
    \/ \E r \in rows : LoadRow(r)
    \/ LoadDone
    \/ Restart
    \/ Pass

(* The timer fires for ever and time passes; nothing else is promised.     *)
Fairness == WF_vars(Tick) /\ WF_vars(Pass)

Spec == Init /\ [][Next]_vars

FairSpec == Spec /\ Fairness

-----------------------------------------------------------------------------
(* Properties                                                              *)

Rows == [id : Ids, ver : Vers, addrs : AddrLists]

(* Every variable holds values of the shape the code's structs have, with  *)
(* the counters of a peer within their limits.                             *)
TypeOK ==
    /\ peers \in [Buckets -> Seq(Peer)]
    /\ refresh \in [Buckets -> 0 .. MaxNextTmo]
    /\ db \subseteq Rows
    /\ mode \in {"off", "load", "run"}
    /\ rows \subseteq Rows
    /\ probing \subseteq [id : Ids, conn : Conns]

(* add_node, from whatever handler, load or ticker calls it, keeps the     *)
(* table a table: no bucket outgrows bucket_sz, no node is in it twice,    *)
(* every node is in the bucket the lookups search for it, and the local    *)
(* node never lists itself.                                                *)
TableWellFormed ==
    \A b \in Buckets :
      /\ Len(peers[b]) =< BucketSz
      /\ \A i \in DOMAIN peers[b] :
           /\ peers[b][i].nodei.id # MyId
           /\ BucketOf[peers[b][i].nodei.id] = b
           /\ \A j \in DOMAIN peers[b] :
                peers[b][i].nodei.id = peers[b][j].nodei.id => i = j

(* Only silence makes a node unreachable: whatever mixture of answers,     *)
(* kicks, gossip and reloads a peer has been through, its ping interval is *)
(* beyond max_next_tmo (up to "unreachable", where it is no longer asked,  *)
(* reported or saved) only if more than max_ping_tms pings have gone       *)
(* unanswered since it was last heard to answer one.                       *)
UnreachableIsSilent ==
    \A p \in AllPeers : p.next_tmo > MaxNextTmo => p.ntry_pings > MaxPingTms

(* The bonus a node of our own version gets in the table never leaks into  *)
(* what find_node tells others: a node told back to us as often as you     *)
(* like, saved and loaded again, keeps a weight somebody offered for it    *)
(* under that version, or the zero that a load gives it.                   *)
AdvertisedWeight ==
    \A id \in Ids : \A n \in FindNode(id) :
      \/ n.weight = 0
      \/ \E o \in NodeInfos : o.id = n.id /\ o.ver = n.ver /\ o.weight = n.weight

(* The saved table holds real nodes only, each once, and never ourselves,  *)
(* also when only a part of the rows of a store got into the database.     *)
DbSound ==
    \A r \in db : /\ r.id # MyId
                  /\ r.ver # UnknownVer
                  /\ \A s \in db : s.id = r.id => s = r

(* Once the node runs, every saved node is back in the table, unless its   *)
(* bucket is full, whatever was added before and between the loaded rows,  *)
(* and however often the process died before, in a load or in a store.     *)
RestoreComplete ==
    mode = "run" =>
      \A r \in db : InTable(r.id) \/ Len(peers[BucketOf[r.id]]) = BucketSz

(* However copies and merges of infos followed on each other, a peer's     *)
(* address list has no address twice and is sorted by type, so that        *)
(* worst_addr (the last) is a worst one and probes use a best one.         *)
AddrsOrdered ==
    \A p \in AllPeers :
      NoAddrTwice(p.nodei.addrs) /\ ByType(p.nodei.addrs)

(* A connection only gets better (vnodeConn_adjust): the priority of a     *)
(* peer's connection goes up only when its address list changes too, not   *)
(* through late or repeated probe responses.                               *)
ConnOnlyImproves ==
    [][\A b \in Buckets : \A i \in DOMAIN peers[b] :
         /\ i \in DOMAIN peers'[b]
         /\ peers'[b][i].nodei.addrs = peers[b][i].nodei.addrs
         => peers'[b][i].conn.priority =< peers[b][i].conn.priority]_vars

(* Connectivity is probed max_probe_tms times at most for one address      *)
(* list: what may lead to a probe counts, and gossip, answers, kicks and   *)
(* late responses do not start the count anew as long as a peer keeps its  *)
(* addresses.                                                              *)
ProbesLimited ==
    [][/\ \A b \in Buckets : \A i \in DOMAIN peers[b] :
            /\ i \in DOMAIN peers'[b]
            /\ peers'[b][i].ntry_probes < peers[b][i].ntry_probes
            => peers'[b][i].nodei.addrs # peers[b][i].nodei.addrs
       /\ \A pr \in probing' \ probing :
            \E b \in Buckets : \E i \in DOMAIN peers[b] :
              /\ peers[b][i].nodei.id = pr.id
              /\ peers[b][i].ntry_probes < MaxProbeTms
              /\ peers'[b][i].ntry_probes = peers[b][i].ntry_probes + 1]_vars

(* A peer is heard from: it answers a ping, or an answer is taken for its  *)
(* own in a full bucket, or it sends another message that kicks it.        *)
Heard ==
    \/ \E n \in NodeInfos :
         /\ PingRsp(n)
         /\ InTable(n.id) \/ Len(peers[BucketOf[n.id]]) = BucketSz
    \/ \E id \in Ids :
         /\ Kicked(id) # peers
         /\ \/ KickNode(id)
            \/ \E n \in NodeInfos : LearnNode(id, n)
            \/ \E j \in Ids : \E n \in FindNode(j) : LearnNode(id, n)
            \/ \E pr \in probing : ProbeRsp(id, pr)

(* When from some time on no peer is heard from while the node keeps       *)
(* running, every real peer ends up unreachable for good: the growing ping *)
(* interval gets there, and gossip about dead nodes does not revive them.  *)
SilentPeersGiveUp ==
    <>[][~Heard]_vars /\ <>[](mode = "run")
      => <>[](\A p \in AllPeers : IsFake(p.nodei) \/ Unreachable(p))

-----------------------------------------------------------------------------
(* What the comments in the code say of add_node                           *)

(* "3). find the 'worst' bad nodei and replace it": a newcomer to a full   *)
(* bucket in which a worst node was found is in the bucket afterwards.     *)
WorstIsReplaced ==
    \A n \in NodeInfos :
      LET ps == peers[BucketOf[n.id]] IN
      n.id # MyId /\ FindWorst(ps, Weighed(n)) # 0
        => n.id \in IdsOf(AddToBucket(ps, Weighed(n), "other"))

(* "If received a DHT ping response from bad node, then that bad node      *)
(* turned to be good node": an answer from one node leaves the timers of   *)
(* every other node alone.                                                 *)
OnlyAnswererTurnsGood ==
    \A n \in NodeInfos :
      LET ps == peers[BucketOf[n.id]]
          qs == AddToBucket(ps, Weighed(n), "ping_rsp")
      IN  n.id # MyId =>
            \A i \in DOMAIN ps :
              qs[i].nodei.id # n.id => qs[i].ntry_pings = ps[i].ntry_pings
=============================================================================
