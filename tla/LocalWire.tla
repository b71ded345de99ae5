----------------------------- MODULE LocalWire -----------------------------
(***************************************************************************)
(* The datagrams between the client library (vlsctlc.c) and the local      *)
(* control socket of the daemon (vlsctl.c).                                *)
(*                                                                         *)
(* All of their fields fill words of 4 bytes or halves of such words, so a *)
(* datagram is a sequence of words and a word is a number.  A service hash *)
(* is five words, and an address [port, ip] two: the port comes with the   *)
(* family, which is not read.  Ports and addresses travel in the order of  *)
(* the network, as the structs hold them: ntohs and vsockaddr_convert2     *)
(* undo each other.                                                        *)
(***************************************************************************)
EXTENDS Naturals, Sequences

Magic == 272774003   \* VLSCTL_MAGIC

(* Message types: vlsctl_cmd, vlsctl_req, vlsctl_rsp_succ, vlsctl_rsp_err  *)
Type == [cmd |-> 0, req |-> 1, rsp_succ |-> 2, rsp_err |-> 3]

(* VLSCTL_HOST_UP ... VLSCTL_PROBE_SERVICE                                 *)
CmdId == [host_up |-> 16, host_down |-> 17, host_exit |-> 18, host_dump |-> 19,
          cfg_dump |-> 32, bogus_query |-> 37, join_node |-> 38, post_service |-> 48,
          unpost_service |-> 49, find_service |-> 50, probe_service |-> 51]

HashWords == 5       \* sizeof(vsrvcHash) / 4

(* What the library is called with                                         *)
Hashes    == [1 .. HashWords -> Nat]
SockAddrs == [port : Nat, ip : Nat]
VAddrs    == [addr : SockAddrs, type : Nat]
Requests  ==
    [cmd : {"host_up", "host_down", "host_exit", "host_dump", "cfg_dump"}] \cup
    [cmd : {"join_node"}, addr : SockAddrs] \cup
    [cmd : {"bogus_query"}, query : Nat, addr : SockAddrs] \cup
    [cmd : {"post_service"}, hash : Hashes, proto : Nat, entries : Seq(VAddrs)] \cup
    [cmd : {"unpost_service"}, hash : Hashes, addrs : Seq(SockAddrs)] \cup
    [cmd : {"find_service", "probe_service"}, hash : Hashes]

(* Two fields of 16 bits in a word, the second one a length in bytes       *)
Halves(x, words) == x * 65536 + 4 * words
FirstHalf(w)     == w \div 65536
WordsLeft(w)     == (w % 65536) \div 4

(* The sequences of seqs, of n words each, one after the other             *)
Flat(seqs, n) ==
    [k \in 1 .. n * Len(seqs) |-> seqs[((k - 1) \div n) + 1][((k - 1) % n) + 1]]

-----------------------------------------------------------------------------
(* Packing                                                                 *)

(* _aux_vlsctlc_pack_addr                                                  *)
PackAddr(a) == <<a.port, a.ip>>

(* _aux_vlsctlc_pack_vaddr                                                 *)
PackVaddr(e) == <<e.addr.port, e.addr.ip, e.type>>

(* The addresses of a service, one after the other                         *)
PackVaddrs(entries) == Flat([k \in DOMAIN entries |-> PackVaddr(entries[k])], 3)

(* The commands of the host have no content.                               *)
PackHostCmd(r) == <<>>

(* _vlsctlc_pack_cmd_join_node                                             *)
PackJoinNode(r) == PackAddr(r.addr)

(* _vlsctlc_pack_cmd_bogus_query                                           *)
PackBogusQuery(r) == <<r.query>> \o PackAddr(r.addr)

(* _vlsctlc_pack_cmd_post_service                                          *)
PackPostService(r) == r.hash \o <<r.proto>> \o PackVaddrs(r.entries)

(* _vlsctlc_pack_cmd_unpost_service: without addresses it is for the whole *)
(* service.                                                                *)
PackUnpostService(r) == r.hash \o Flat([k \in DOMAIN r.addrs |-> PackAddr(r.addrs[k])], 2)

(* _vlsctlc_pack_cmd_find_service, _vlsctlc_pack_cmd_probe_service         *)
PackFindService(r)  == r.hash
PackProbeService(r) == r.hash

(* The content of the command that is bound                                *)
PackContent(r) ==
    CASE r.cmd = "post_service"   -> PackPostService(r)
      [] r.cmd = "unpost_service" -> PackUnpostService(r)
      [] r.cmd = "find_service"   -> PackFindService(r)
      [] r.cmd = "probe_service"  -> PackProbeService(r)
      [] r.cmd = "join_node"      -> PackJoinNode(r)
      [] r.cmd = "bogus_query"    -> PackBogusQuery(r)
      [] OTHER                    -> PackHostCmd(r)

(* The two words of the header, the word of the command, and its content   *)
Message(type, cmd, content) ==
    <<Halves(type, 1 + Len(content)), Magic, Halves(CmdId[cmd], Len(content))>> \o content

(* The length of the command, with its own word, fits its field.           *)
Fits(content) == 4 * (1 + Len(content)) < 65536

(* The calls that wait for an answer                                       *)
Asks(r) == r.cmd \in {"find_service", "probe_service"}

(* The bind_ops of vlsctlc.c and _vlsctlc_pack_cmd                         *)
PackCmd(r) == Message(IF Asks(r) THEN Type.req ELSE Type.cmd, r.cmd, PackContent(r))

(* _vlsctl_pack_cmd with _vlsctl_pack_find_service_rsp or                  *)
(* _vlsctl_pack_probe_service_rsp                                          *)
PackRsp(cmd, hash, proto, entries) ==
    Message(Type.rsp_succ, cmd, hash \o <<proto>> \o PackVaddrs(entries))

-----------------------------------------------------------------------------
(* Unpacking.  The buffers are cleared before a datagram is received.      *)

At(w, p) == IF p \in DOMAIN w THEN w[p] ELSE 0

(* memcpy of a vsrvcHash                                                   *)
UnpackHash(w, p) == [k \in 1 .. HashWords |-> At(w, p + k - 1)]

(* _aux_lsctl_unpack_addr                                                  *)
UnpackAddr(w, p) == [port |-> At(w, p), ip |-> At(w, p + 1)]

(* _aux_lsctl_unpack_vaddr and _aux_vlsctlc_unpack_vaddr                   *)
UnpackVaddr(w, p) == [addr |-> UnpackAddr(w, p), type |-> At(w, p + 2)]

(* Mutant: the type is not skipped.                                        *)
UnpackVaddrs_NoType(w, p, n) == [k \in 1 .. (n + 1) \div 2 |-> UnpackVaddr(w, p + 2 * (k - 1))]

(* while (len - tsz > 0): the entries in the n words from p on             *)
UnpackVaddrs(w, p, n) == [k \in 1 .. (n + 2) \div 3 |-> UnpackVaddr(w, p + 3 * (k - 1))]

UnpackAddrs(w, p, n) == [k \in 1 .. (n + 1) \div 2 |-> UnpackAddr(w, p + 2 * (k - 1))]

(* What the daemon makes of a datagram: _vlsctl_unpack_cmd and the         *)
(* commands' own unpacking.  The library puts one command in a datagram.   *)
UnpackCmd(w) ==
    LET cid == FirstHalf(At(w, 3))
        n   == WordsLeft(At(w, 3))
    IN  IF At(w, 2) # Magic \/ ~ \E c \in DOMAIN CmdId : CmdId[c] = cid THEN [cmd |-> "none"]
        ELSE LET cmd == CHOOSE c \in DOMAIN CmdId : CmdId[c] = cid
             IN  CASE cmd = "post_service" ->
                        [cmd |-> cmd, hash |-> UnpackHash(w, 4), proto |-> At(w, 9),
                         entries |-> UnpackVaddrs(w, 10, n - 6)]
                   [] cmd = "unpost_service" ->
                        [cmd |-> cmd, hash |-> UnpackHash(w, 4), addrs |-> UnpackAddrs(w, 9, n - 5)]
                   [] cmd \in {"find_service", "probe_service"} ->
                        [cmd |-> cmd, hash |-> UnpackHash(w, 4)]
                   [] cmd = "join_node" -> [cmd |-> cmd, addr |-> UnpackAddr(w, 4)]
                   [] cmd = "bogus_query" -> [cmd |-> cmd, query |-> At(w, 4), addr |-> UnpackAddr(w, 5)]
                   [] OTHER -> [cmd |-> cmd]

(* What the client makes of an answer: _vlsctlc_unpack_cmd with the        *)
(* unpacking of the two answers.  An answer to anything else would not be  *)
(* read to its end; the daemon sends none.                                 *)
UnpackRsp(w) ==
    [ok      |-> At(w, 2) = Magic /\ FirstHalf(At(w, 1)) # Type.rsp_err,
     cid     |-> FirstHalf(At(w, 3)),
     hash    |-> UnpackHash(w, 4),
     proto   |-> At(w, 9),
     entries |-> UnpackVaddrs(w, 10, WordsLeft(At(w, 3)) - 6)]
=============================================================================
