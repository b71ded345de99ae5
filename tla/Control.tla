------------------------------ MODULE Control ------------------------------
(***************************************************************************)
(* The clients of a host and its daemon: the calls of the client library   *)
(* (vdhtapi.c, vlsctlc.c), the local control socket (vlsctl.c with the     *)
(* queues of vmsger.c and vrpc.c), and the start and end of the daemon     *)
(* (vapp.c, vmain.c, vcfg.c).                                              *)
(*                                                                         *)
(* Clients are processes of their own.  They bind a socket to a path that  *)
(* is the same for all unless vdhtc_init says otherwise, and unlink the    *)
(* path before and after the call, whoever's socket is there by then.      *)
(***************************************************************************)
EXTENDS LocalWire, SrvcInfo, Config, SequencesExt

CONSTANTS
    Clients,      \* client processes
    ClientPath,   \* ClientPath[c]: glsctlc_socket
    ServerPath,   \* glsctls_socket, the path that the clients send to
    Calls,        \* Calls[c]: the calls that client c makes
    Files,        \* configuration files [text, meant]: what is in a file, and the
                  \* settings that its author means
    Remote,       \* the [hash, proto, addrs] that other hosts announce
    Nobody,       \* not a client
    Backlog,      \* bound: datagrams waiting in the daemon's socket
    MaxCalls,     \* bound: calls of all the clients
    MaxStarts,    \* bound: starts of the daemon
    MaxFaults     \* bound: crashes, and starts beside a running daemon

(* The addresses of a service: one entry per address, as many as fit       *)
SrvcAddrs == {S \in SUBSET VAddrs : /\ IsFiniteSet(S) /\ Cardinality(S) =< MaxSrvcAddrs
                                    /\ \A x, y \in S : x.addr = y.addr => x = y}
Services  == [hash : Hashes, proto : Nat, addrs : SrvcAddrs]

(* All messages fit the 16 bits of their length.                           *)
ASSUME ControlAssumption ==
    /\ Nobody \notin Clients
    /\ \A c \in Clients : \A r \in Calls[c] : r \in Requests /\ Fits(PackContent(r))
    /\ 4 * (HashWords + 2 + 3 * MaxSrvcAddrs) < 65536
    /\ Remote \subseteq Services

VARIABLES
    pc,       \* pc[c]: where client c is in its call
    call,     \* call[c]: the request
    buf,      \* buf[c]: the first datagram in the socket of c, or <<>>
    got,      \* got[c]: what the last call delivered to the callbacks
    paths,    \* paths[p]: whose socket the client path p leads to
    server,   \* what ServerPath leads to: "none", "daemon" or "stray"
    phase,    \* "off", "parsed", "bound", "running" or "stopping"
    cfg,      \* the settings while the daemon starts, and those that were meant
    stale,    \* the file with the pid of a daemon that crashed is there
    inq,      \* the datagrams in the daemon's socket
    outq,     \* the queue of its msger
    own,      \* node->services
    probes,   \* the probes of clients that wait for a result
    versions, \* every version of every service that the daemon ever had
    count     \* counts [calls, starts, faults]

clientVars == <<pc, call, buf, got, paths>>
daemonVars == <<inq, outq, own, probes, versions>>
bootVars   == <<phase, cfg, stale>>
vars == <<clientVars, server, bootVars, daemonVars, count>>

NoCall   == [cmd |-> "none"]
NoResult == [cid |-> 0]
NoCfg    == <<>>

Bump(field, max) == count[field] < max /\ count' = [count EXCEPT ![field] = @ + 1]

-----------------------------------------------------------------------------
(* The calls of the library                                                *)

(* The checks of the arguments in vdhtc_post_service and its like          *)
ValidArgs(r) ==
    r.cmd = "post_service" =>
      /\ Len(r.entries) \in 1 .. MaxSrvcAddrs /\ r.proto \in {1, 2}
      /\ \A k \in DOMAIN r.entries : r.entries[k].type \in 0 .. 4

(* The call begins.                                                        *)
Call(c, r) ==
    /\ pc[c] = "idle" /\ Bump("calls", MaxCalls)
    /\ call' = [call EXCEPT ![c] = IF ValidArgs(r) THEN r ELSE NoCall]
    /\ got' = [got EXCEPT ![c] = NoResult]
    /\ pc' = [pc EXCEPT ![c] = IF ValidArgs(r) THEN "called" ELSE "idle"]
    /\ UNCHANGED <<buf, paths, server, bootVars, daemonVars>>

(* unlink before bind                                                      *)
Unlink(c) ==
    /\ pc[c] = "called"
    /\ pc' = [pc EXCEPT ![c] = "unlinked"]
    /\ paths' = [paths EXCEPT ![ClientPath[c]] = Nobody]
    /\ UNCHANGED <<call, buf, got, server, bootVars, daemonVars, count>>

(* close and unlink, with or without a result                              *)
Return(c, result) ==
    /\ pc' = [pc EXCEPT ![c] = "idle"]
    /\ paths' = [paths EXCEPT ![ClientPath[c]] = Nobody]
    /\ buf' = [buf EXCEPT ![c] = <<>>]
    /\ got' = [got EXCEPT ![c] = result]
    /\ call' = [call EXCEPT ![c] = IF result = NoResult THEN NoCall ELSE @]

(* bind fails if another client has bound the path since.                  *)
Bind(c) ==
    /\ pc[c] = "unlinked"
    /\ \/ /\ paths[ClientPath[c]] = Nobody
          /\ pc' = [pc EXCEPT ![c] = "bound"]
          /\ paths' = [paths EXCEPT ![ClientPath[c]] = c]
          /\ UNCHANGED <<call, buf, got>>
       \/ paths[ClientPath[c]] # Nobody /\ Return(c, NoResult)
    /\ UNCHANGED <<server, bootVars, daemonVars, count>>

(* The datagram is away: the call is over or waits for the answer.         *)
AfterSend(c) ==
    IF Asks(call[c]) THEN pc' = [pc EXCEPT ![c] = "waiting"] /\ UNCHANGED <<call, buf, got, paths>>
    ELSE Return(c, NoResult)

(* sendto: fails without a socket at the other end, and after 3 seconds if *)
(* the daemon does not read                                                *)
SendTo(c) ==
    /\ pc[c] = "bound"
    /\ \/ /\ server = "daemon" /\ Len(inq) < Backlog
          /\ inq' = Append(inq, [from |-> ClientPath[c], data |-> PackCmd(call[c]), req |-> call[c]])
          /\ AfterSend(c)
       \/ server = "stray" /\ AfterSend(c) /\ UNCHANGED inq
       \/ /\ server = "none" \/ (server = "daemon" /\ Len(inq) >= Backlog)
          /\ Return(c, NoResult) /\ UNCHANGED inq
    /\ UNCHANGED <<server, bootVars, outq, own, probes, versions, count>>

(* Mutant: whatever hash the answer is for                                 *)
Accept_AnyHash(r, rsp) == rsp.ok /\ rsp.cid = CmdId[r.cmd]

(* vdhtc_find_service and vdhtc_probe_service: the answer is passed on if  *)
(* its command and its hash are those of the call.                         *)
Accept(r, rsp) == rsp.ok /\ rsp.cid = CmdId[r.cmd] /\ rsp.hash = r.hash

(* recvfrom and what follows                                               *)
Recv(c) ==
    /\ pc[c] = "waiting" /\ buf[c] # <<>>
    /\ LET rsp == UnpackRsp(buf[c])
       IN  Return(c, IF Accept(call[c], rsp) THEN rsp ELSE NoResult)
    /\ UNCHANGED <<server, bootVars, daemonVars, count>>

(* Mutant: SO_RCVTIMEO is not set.                                         *)
RecvTimeout_Never(c) == FALSE /\ UNCHANGED vars

(* Nothing has come for 3 seconds.                                         *)
RecvTimeout(c) ==
    /\ pc[c] = "waiting" /\ buf[c] = <<>>
    /\ Return(c, NoResult)
    /\ UNCHANGED <<server, bootVars, daemonVars, count>>

-----------------------------------------------------------------------------
(* The daemon starts                                                       *)

(* What the daemon holds of the configuration in a file                    *)
LoadedFile(f) ==
    LET s == FileSettings(f.text)
    IN  IF s = <<>> THEN NoCfg ELSE [meant |-> f.meant, settings |-> s]

Loaded == {LoadedFile(f) : f \in Files}

(* vappmain_init reads the configuration.                                  *)
ReadConfig(read) ==
    /\ phase = "off" /\ Bump("starts", MaxStarts)
    /\ phase' = IF read = NoCfg THEN "off" ELSE "parsed"
    /\ cfg' = read
    /\ UNCHANGED <<clientVars, server, stale, daemonVars>>

(* vlsctl_init unlinks and binds the path of the socket, vhost_init fails  *)
(* without an address.  The settings are with the parts of the daemon.     *)
OpenSocket ==
    /\ phase = "parsed" /\ cfg' = NoCfg
    /\ LET ok == cfg.settings.address # <<>>
       IN  /\ phase' = IF ok THEN "bound" ELSE "off"
           /\ server' = IF cfg.settings.unix_path # ServerPath THEN server
                        ELSE IF ok THEN "daemon" ELSE "stray"
    /\ UNCHANGED <<clientVars, stale, daemonVars, count>>

(* The process ends; so do its queues.                                     *)
Gone ==
    /\ phase' = "off"
    /\ server' = IF server = "daemon" THEN "none" ELSE server
    /\ inq' = <<>> /\ outq' = <<>> /\ own' = {} /\ probes' = <<>>
    /\ UNCHANGED <<clientVars, cfg, versions>>

(* _aux_appmain_prepare: a pid file is in the way only if there is such a  *)
(* process, which after a crash may be another program.                    *)
Run ==
    /\ phase = "bound"
    /\ \/ /\ phase' = "running" /\ stale' = FALSE
          /\ UNCHANGED <<clientVars, server, cfg, daemonVars>>
       \/ stale /\ Gone /\ UNCHANGED stale
    /\ UNCHANGED count

(* Another vdhtd is started beside the running one.  It takes the path of  *)
(* the socket before it finds the pid file.                                *)
StrayStart ==
    /\ phase = "running" /\ Bump("faults", MaxFaults)
    /\ server' = "stray"
    /\ UNCHANGED <<clientVars, bootVars, daemonVars>>

StrayExit ==
    /\ server = "stray" /\ server' = "none"
    /\ UNCHANGED <<clientVars, bootVars, daemonVars, count>>

Crash ==
    /\ phase \in {"bound", "running", "stopping"} /\ Bump("faults", MaxFaults)
    /\ stale' = (stale \/ phase # "bound")
    /\ Gone

(* The loop of _vhost_run ends after host_exit.                            *)
Quit ==
    /\ phase = "stopping" /\ Gone
    /\ UNCHANGED <<stale, count>>

-----------------------------------------------------------------------------
(* The commands                                                            *)

Version(s) == [hash |-> s.hash, proto |-> s.proto, addrs |-> s.addrs]

(* Host, nice value: of no concern here                                    *)
PostAll(S, r) == FoldLeft(LAMBDA T, e : SrvcPost(T, Nobody, r.hash, 5, r.proto, e), S, r.entries)

UnpostAll(S, r) ==
    IF r.addrs = <<>> THEN SrvcUnpostExt(S, r.hash)
    ELSE FoldLeft(LAMBDA T, a : SrvcUnpost(T, r.hash, a), S, r.addrs)

Changed(S) == own' = S /\ versions' = versions \cup {Version(s) : s \in S}

(* host_up, host_down, host_dump, cfg_dump: see HostThreads                *)
ExecHostCmd(r) ==
    /\ r.cmd \in {"host_up", "host_down", "host_dump", "cfg_dump"}
    /\ UNCHANGED <<outq, own, probes, versions, phase>>

(* _vlsctl_exec_cmd_host_exit                                              *)
ExecHostExit(r) ==
    /\ r.cmd = "host_exit" /\ phase' = "stopping"
    /\ UNCHANGED <<outq, own, probes, versions>>

(* join_node and bogus_query: see Overlay and NodeSpace                    *)
ExecNodeCmd(r) ==
    /\ r.cmd \in {"join_node", "bogus_query"}
    /\ UNCHANGED <<outq, own, probes, versions, phase>>

(* _vlsctl_exec_cmd_post_service                                           *)
ExecPostService(r) ==
    /\ r.cmd = "post_service" /\ Changed(PostAll(own, r))
    /\ UNCHANGED <<outq, probes, phase>>

(* _vlsctl_exec_cmd_unpost_service                                         *)
ExecUnpostService(r) ==
    /\ r.cmd = "unpost_service" /\ Changed(UnpostAll(own, r))
    /\ UNCHANGED <<outq, probes, phase>>

(* The answers for a hash: one of the infos, or none of the protocol       *)
(* VPROTO_UNKNOWN and without addresses                                    *)
Unknown(hash) == [hash |-> hash, proto |-> 5, addrs |-> {}]
Answer(cmd, s) == PackRsp(cmd, s.hash, s.proto, SetToSeq(s.addrs))

(* _vlsctl_exec_cmd_find_service with _vnode_srvc_find and                 *)
(* _vroute_find_service: the own services come before those of others,     *)
(* which may be in the service routing space or not.                       *)
ExecFindService(r, from) ==
    /\ r.cmd = "find_service"
    /\ LET mine  == {Version(s) : s \in Posted(own, r.hash)}
           found == IF mine # {} THEN mine ELSE Posted(Remote, r.hash) \cup {Unknown(r.hash)}
       IN  \E s \in found : outq' = Append(outq, [to |-> from, data |-> Answer(r.cmd, s)])
    /\ UNCHANGED <<own, probes, versions, phase>>

(* _vlsctl_exec_cmd_probe_service: the arguments wait in a ticket.         *)
ExecProbeService(r, from) ==
    /\ r.cmd = "probe_service"
    /\ probes' = Append(probes, [hash |-> r.hash, from |-> from])
    /\ UNCHANGED <<outq, own, versions, phase>>

(* _vrpc_rcv, _vmsger_dsptch, _vlsctl_unpack_cmd: a datagram is read and   *)
(* its command executed.                                                   *)
Rcv ==
    /\ phase = "running" /\ inq # <<>>
    /\ inq' = Tail(inq)
    /\ LET r    == UnpackCmd(Head(inq).data)
           from == Head(inq).from
       IN  \/ ExecHostCmd(r) \/ ExecHostExit(r) \/ ExecNodeCmd(r)
           \/ ExecPostService(r) \/ ExecUnpostService(r)
           \/ ExecFindService(r, from) \/ ExecProbeService(r, from)
    /\ UNCHANGED <<clientVars, server, cfg, stale, count>>

(* The ticket of probe k has a result or is overdue: the callbacks of      *)
(* vlsctl.c.  They read the client's address from args after these were    *)
(* freed, so that the answer may go to any client, or nowhere.             *)
ProbeDone(k, s) ==
    /\ phase = "running" /\ s.hash = probes[k].hash
    /\ probes' = RemoveAt(probes, k)
    /\ \/ \E c \in Clients :
            outq' = Append(outq, [to |-> ClientPath[c], data |-> Answer("probe_service", s)])
       \/ UNCHANGED outq
    /\ UNCHANGED <<clientVars, server, bootVars, inq, own, versions, count>>

(* _vrpc_snd, _vmsger_pop: an answer is tried once.  A client reads one    *)
(* datagram in a call.                                                     *)
Snd ==
    /\ phase \in {"running", "stopping"} /\ outq # <<>>
    /\ outq' = Tail(outq)
    /\ LET c == paths[Head(outq).to]
       IN  buf' = IF c # Nobody /\ buf[c] = <<>> THEN [buf EXCEPT ![c] = Head(outq).data] ELSE buf
    /\ UNCHANGED <<pc, call, got, paths, server, bootVars, inq, own, probes, versions, count>>

-----------------------------------------------------------------------------
Init ==
    /\ pc = [c \in Clients |-> "idle"] /\ call = [c \in Clients |-> NoCall]
    /\ buf = [c \in Clients |-> <<>>] /\ got = [c \in Clients |-> NoResult]
    /\ paths = [p \in {ClientPath[c] : c \in Clients} |-> Nobody]
    /\ server = "none" /\ phase = "off" /\ cfg = NoCfg /\ stale = FALSE
    /\ inq = <<>> /\ outq = <<>> /\ own = {} /\ probes = <<>> /\ versions = {}
    /\ count = [calls |-> 0, starts |-> 0, faults |-> 0]

ClientStep(c) == Unlink(c) \/ Bind(c) \/ SendTo(c) \/ Recv(c) \/ RecvTimeout(c)

Next ==
    \/ \E c \in Clients : ClientStep(c) \/ \E r \in Calls[c] : Call(c, r)
    \/ \E read \in Loaded : ReadConfig(read)
    \/ OpenSocket \/ Run \/ StrayStart \/ StrayExit \/ Crash \/ Quit
    \/ Rcv \/ Snd
    \/ \E k \in DOMAIN probes, s \in Remote \cup {Unknown(probes[j].hash) : j \in DOMAIN probes} :
         ProbeDone(k, s)

Spec == Init /\ [][Next]_vars

(* A client goes on with its call: the only calls of the system that block *)
(* have timeouts.                                                          *)
FairSpec == Spec /\ \A c \in Clients : WF_vars(ClientStep(c))

-----------------------------------------------------------------------------
(* Properties                                                              *)

(* What a call delivers answers this very call's question with what the    *)
(* daemon knew at some time, although the answer may be a late one to an   *)
(* earlier call or to another client's.                                    *)
Served ==
    \A c \in Clients : got[c] # NoResult =>
        LET rsp == got[c]
            s   == [hash |-> rsp.hash, proto |-> rsp.proto, addrs |-> ToSet(rsp.entries)]
        IN  /\ Asks(call[c]) /\ rsp.cid = CmdId[call[c].cmd] /\ rsp.hash = call[c].hash
            /\ s \in versions \cup Remote \cup {Unknown(rsp.hash)}

(* Every call returns, whatever becomes of the daemon and of the path.     *)
Returns == \A c \in Clients : pc[c] # "idle" ~> pc[c] = "idle"

(* A daemon that has read its file goes by what was meant by it.           *)
ConfigLoaded == cfg # NoCfg => cfg.settings = cfg.meant

(* Registry of the posted services; the requests in the daemon's socket.   *)
Reg  == [h \in {s.hash : s \in own} |->
           LET s == CHOOSE s \in own : s.hash = h IN [proto |-> s.proto, addrs |-> s.addrs]]
Todo == [k \in DOMAIN inq |-> inq[k].req]

R == INSTANCE Registry
       WITH reg <- Reg, todo <- Todo, MaxAddrs <- MaxSrvcAddrs, Requests <- UNION {Calls[c] : c \in Clients}

(* The requests that reached the daemon are carried out as the registry    *)
(* promises, by way of their datagrams.                                    *)
Implements == R!Spec
=============================================================================
