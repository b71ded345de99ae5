----------------------------- MODULE MCControl -----------------------------
(***************************************************************************)
(* Two clients that share the default path, and a daemon.                  *)
(***************************************************************************)
EXTENDS Control, ConfigText

CONSTANTS c1, c2

Shared == [c \in Clients |-> "lsctl_client"]

Socket == Path("/var/run/vdht/lsctl_socket")

H1 == <<11, 12, 13, 14, 15>>
H2 == <<21, 22, 23, 24, 25>>

A1 == [port |-> 31, ip |-> 32]
A2 == [port |-> 41, ip |-> 42]
A3 == [port |-> 51, ip |-> 52]

Entry(a, type) == [addr |-> a, type |-> type]

PostReq(h, proto, entries) ==
    [cmd |-> "post_service", hash |-> h, proto |-> proto, entries |-> entries]
UnpostReq(h, as) == [cmd |-> "unpost_service", hash |-> h, addrs |-> as]
Ask(cmd, h)      == [cmd |-> cmd, hash |-> h]

Posts == {PostReq(H1, 1, <<Entry(A1, 0), Entry(A2, 2)>>), PostReq(H1, 1, <<Entry(A3, 1)>>),
          PostReq(H1, 2, <<Entry(A1, 0)>>), UnpostReq(H1, <<A1>>), UnpostReq(H1, <<>>)}

HostCmds == {[cmd |-> "host_exit"], [cmd |-> "host_up"], [cmd |-> "join_node", addr |-> A1]}

Questions == {Ask("find_service", H1), Ask("find_service", H2), Ask("probe_service", H1)}

McCalls == [c \in Clients |-> IF c = c1 THEN Posts \cup HostCmds ELSE Questions]

McRemote == {[hash |-> H1, proto |-> 2, addrs |-> {Entry(A3, 3)}]}

-----------------------------------------------------------------------------
(* Files, and what their authors mean by them                              *)

Nl      == Ch("nl")
Sp      == Ch("sp")
Num(n)  == [c |-> "num", n |-> n]
Tmo(n, unit) == [c |-> "tmo", n |-> n, unit |-> unit]

(* ";; boot: }", to the end of its line                                    *)
Comment == <<Ch(";"), Ch(";"), Sp, Word("boot"), Ch(":"), Sp, Ch("}"), Nl>>

KeyOf(words) == [words |-> Key(words), blanks |-> [k \in DOMAIN words |-> IF k = Len(words) THEN <<>> ELSE <<Sp>>]]
EntryAs(key, value) == [key |-> KeyOf(key), between |-> <<Sp>>, value |-> value]

StrAs(v, after) == [type |-> "str", word |-> v, blanks |-> <<>>, after |-> after]
Line(key, v)    == EntryAs(key, StrAs(v, <<Nl, Sp>>))
Remark(key, v)  == EntryAs(key, [StrAs(v, Comment) EXCEPT !.blanks = <<Sp, Sp>>])

TupleAs(vs) == [type |-> "tuple", start |-> <<Nl, Sp>>, strs |-> [k \in DOMAIN vs |-> StrAs(vs[k], <<Nl, Sp>>)],
                after |-> <<Sp, Nl>>]
Tuple(key, vs) == EntryAs(key, TupleAs(vs))

Section(type, key, start, entries) ==
    EntryAs(key, [type |-> type, start |-> start, entries |-> entries, after |-> <<Nl, Nl>>])

Boot == <<Name("vdht.elastos.com"), Num(12300), Word("udp")>>
Addr == <<Name("0.0.0.0"), Num(12300)>>

Default ==
    [pid_file |-> Path("/var/run/vdht/vdhtd.pid"), syslog |-> 1, syslog_ident |-> Word("vdhtd"),
     unix_path |-> Socket, boot |-> <<>>, tick_tmo |-> 5, wb_tmo |-> 60, db_file |-> Name("vdht.db"),
     bucket_sz |-> 10, max_next_tmo |-> 60, address |-> Addr, caps |-> {Word("ping"), Name("ping_rsp")}]

(* The sections that a file may have                                       *)
Global == Section("dict", <<"global">>, <<Nl>>,
            <<Line(<<"pid", "file">>, Path("/tmp/pid")), Line(<<"max", "log", "size">>, Num(1000)),
              Line(<<"syslog">>, Num(0)), Line(<<"syslog", "ident">>, Word("dht"))>>)
Host   == Section("dict", <<"host">>, <<Sp, Nl>>,
            <<Remark(<<"tick", "timeout">>, Tmo(2, "s")), Line(<<"db", "file">>, Name("my.db")),
              Line(<<"writeback", "timeout">>, Tmo(3, "m"))>>)
Route(n) == Section("dict", <<"route">>, <<>>,
            <<Line(<<"max", "next", "tmo">>, Num(1)), Line(<<"bucket", "size">>, Num(n))>>)
Boots  == Section("list", <<"boot">>, Comment, <<Tuple(<<"address">>, Boot), Tuple(<<"address">>, Boot)>>)
Caps   == Tuple(<<"protocol">>, <<Word("ping"), Name("find_node"), Word("pong"), Word("probe")>>)
Dht(entries) == Section("dict", <<"dht">>, <<Nl>>, entries \o <<Tuple(<<"address">>, Append(Addr, Word("udp")))>>)
Lsctl  == Section("dict", <<"lsctl">>, <<>>, <<Line(<<"unix", "path">>, Path("/tmp/socket"))>>)

(* The sections of vdht.conf, all but one with the address; a path that    *)
(* the clients do not know; two sections with the same key                 *)
Layouts == {
    [start |-> <<>>, entries |-> <<Global, Dht(<<>>)>>,
     meant |-> [Default EXCEPT !.pid_file = Path("/tmp/pid"), !.syslog = 0, !.syslog_ident = Word("dht")]],
    [start |-> <<Sp>>, entries |-> <<Host, Dht(<<Caps>>)>>,
     meant |-> [Default EXCEPT !.tick_tmo = 2, !.db_file = Name("my.db"), !.wb_tmo = 180,
                               !.caps = {Word("ping"), Name("find_node")}]],
    [start |-> Comment, entries |-> <<Lsctl, Dht(<<>>), Boots>>,
     meant |-> [Default EXCEPT !.unix_path = Path("/tmp/socket"), !.boot = <<Boot, Boot>>]],
    [start |-> <<>>, entries |-> <<Route(7), Route(8)>>,
     meant |-> [Default EXCEPT !.bucket_sz = 7, !.address = <<>>]] }

(* They are laid out and meant as theorem FilesUnderstood supposes.        *)
ASSUME LayoutAssumption == \A l \in Layouts : IsFile(l) /\ l.meant = Settings(FileItem(l))

(* A text that is not a configuration                                      *)
Junk == <<Word("dht"), Ch(":"), Sp, Ch("]"), Nl>>

ASSUME JunkAssumption == Parse(Junk) = Failed

McFiles == {[text |-> FileText(l), meant |-> l.meant] : l \in Layouts} \cup {[text |-> Junk, meant |-> <<>>]}
=============================================================================
