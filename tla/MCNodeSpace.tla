---------------------------- MODULE MCNodeSpace ----------------------------
(***************************************************************************)
(* Small instances of NodeSpace.  x runs our version, y an older one, f is *)
(* the made-up id of a node that was joined by address only.  Messages may *)
(* come from any id; me, which is never in the table, also stands for the  *)
(* senders that the table does not know.                                   *)
(***************************************************************************)
EXTENDS NodeSpace

CONSTANTS me, x, y, f,           \* ids
          v1, v0,                \* versions: ours and an older one
          z, a, b, l             \* addresses

One(ad, t) == <<[addr |-> ad, type |-> t]>>
Two(ad, t, bd, u) == <<[addr |-> ad, type |-> t], [addr |-> bd, type |-> u]>>
Info(i, v, w, ads) == [id |-> i, ver |-> v, weight |-> w, addrs |-> ads]

MCVers == {v1, v0, UnknownVer}
OneBucket == {0}
MCBucketOf == [i \in Ids |-> 0]

(* The table run: one address, weights and versions that differ            *)
TableAddrLists == {One(a, Unknown)}
TableInfos == {Info(x, v1, 0, One(a, Unknown)),
               Info(x, v1, 1, One(a, Unknown)),
               Info(y, v0, 1, One(a, Unknown)),
               Info(f, UnknownVer, 0, One(a, Unknown)),
               Info(me, v1, 0, One(a, Unknown))}
NoLocalAddrs == {}

(* The liveness run                                                        *)
LiveInfos == {Info(x, v1, 0, One(a, Unknown)),
              Info(y, v0, 1, One(a, Unknown)),
              Info(f, UnknownVer, 0, One(a, Unknown))}

(* The connectivity run: x moves between address lists, some of them not   *)
(* sorted (a sender retypes an address in place); f gains addresses; the   *)
(* two are in different buckets.                                          *)
ConnTypes == {Local, Relay, Unknown}
ConnAddrLists ==
    {One(ad, t) : ad \in {a, b}, t \in ConnTypes} \cup
    {Two(ad[1], t, ad[2], u) : ad \in {<<a, b>>, <<b, a>>}, t, u \in ConnTypes}
ConnInfos == {Info(x, v1, 0, One(b, Relay)),
              Info(x, v1, 0, Two(b, Relay, a, Local)),
              Info(f, UnknownVer, 0, One(a, Unknown)),
              Info(f, UnknownVer, 0, Two(b, Unknown, a, Unknown))}
TwoBuckets == {0, 1}
ConnBucketOf == [i \in Ids |-> IF i = f THEN 1 ELSE 0]
ConnLocalAddrs == {[addr |-> l, type |-> Local]}
=============================================================================
