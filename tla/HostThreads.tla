---------------------------- MODULE HostThreads ----------------------------
(***************************************************************************)
(* The two sides of a running vdhtd and the node's life between them.      *)
(*                                                                         *)
(* The main thread (vmain.c, vapp.c, vhost.c) starts the node and then     *)
(* loops over its sockets (_vhost_run, _vwaiter_laundry): it handles the   *)
(* DHT messages under route->lock and the commands of the local clients,   *)
(* and when told to exit it leaves the loop and takes everything down.     *)
(* The ticker (vticker.c) is a POSIX timer: every expiry is a thread of    *)
(* its own that takes ticker->lock and then runs _aux_node_tick_cb under   *)
(* node->lock, which calls the route, under route->lock, step by step.     *)
(*                                                                         *)
(* The waiter's lock and the msgers' lock_cbs are taken by the main thread *)
(* only, and lock_msgs never while waiting for another lock: they are left *)
(* out.  So are the commands that take a lock and leave it without any     *)
(* effect on the node's life (join, post, find, probe, dump).              *)
(*                                                                         *)
(* The waiter serves the DHT socket before the socket of the local clients *)
(* (vhost_init adds them in that order), and the clients of lsctl/ send    *)
(* one command in a datagram: after an exit nothing more is handled before *)
(* the loop ends.                                                          *)
(***************************************************************************)
EXTENDS Naturals, Sequences

CONSTANTS
    Main,        \* the main thread
    Ticks,       \* the threads of the timer's expiries
    Free         \* no thread

ASSUME ThreadsAssumption == Main \notin Ticks /\ Free \notin Ticks \cup {Main}

VARIABLES
    mode,        \* node->mode
    main,        \* where the main thread is
    tick,        \* tick[t]: where the timer thread t is
    todo,        \* the calls of the route that the present tick still makes
    owner,       \* owner[l]: the thread that holds lock l
    timer,       \* the timer is set
    toQuit,      \* host->to_quit
    dirty,       \* a node was learned since the node table was stored
    exitMode,    \* node->mode when exit was called
    needReflex,  \* need_reflex of the local address
    nreflexs,    \* the rounds of reflex queries so far
    pending      \* the reflex queries that have a ticket

vars == <<mode, main, tick, todo, owner, timer, toQuit, dirty, exitMode,
          needReflex, nreflexs, pending>>

nodeVars   == <<mode, exitMode, toQuit>>
reflexVars == <<needReflex, nreflexs, pending>>

Locks == {"ticker", "node", "route"}
Modes == {"off", "up", "run", "down"}   \* VDHT_ERR is never set.
Calls == {"load", "join", "reflex", "probe", "air", "store", "tick"}

MaxReflexs == 3   \* "only 3 times of chance to reflex addresses"

IsFree(l) == owner[l] = Free

-----------------------------------------------------------------------------
(* The main thread                                                         *)

(* _vhost_stabilize: the node's callback is registered, the timer is set.  *)
Stabilize ==
    /\ main = "boot" /\ IsFree("ticker")
    /\ timer' = TRUE
    /\ main' = "start"
    /\ UNCHANGED <<nodeVars, reflexVars, tick, todo, owner, dirty>>

(* _vnode_start: nothing unless the node is off                            *)
Started == IF mode = "off" THEN "up" ELSE mode

(* _vnode_stop                                                             *)
Stopped == IF mode = "off" THEN "off" ELSE "down"

(* _vhost_start, and _vhost_run begins                                     *)
Run ==
    /\ main = "start" /\ IsFree("node")
    /\ mode' = Started
    /\ toQuit' = FALSE
    /\ main' = "loop"
    /\ UNCHANGED <<reflexVars, tick, todo, owner, timer, dirty, exitMode>>

Looping == main = "loop" /\ ~toQuit

HostUp ==
    /\ Looping /\ IsFree("node")
    /\ mode' = Started
    /\ UNCHANGED <<reflexVars, main, tick, todo, owner, timer, toQuit, dirty, exitMode>>

HostDown ==
    /\ Looping /\ IsFree("node")
    /\ mode' = Stopped
    /\ UNCHANGED <<reflexVars, main, tick, todo, owner, timer, toQuit, dirty, exitMode>>

(* Mutant: exit waits for a stop that nobody asked for.                    *)
HostExit_NoStop ==
    /\ Looping /\ IsFree("node")
    /\ toQuit' = TRUE
    /\ exitMode' = mode
    /\ main' = "waiting"
    /\ UNCHANGED <<mode, reflexVars, tick, todo, owner, timer, dirty>>

(* _vhost_exit: executed by the main thread itself, inside its loop        *)
HostExit ==
    /\ Looping /\ IsFree("node")
    /\ toQuit' = TRUE
    /\ exitMode' = mode
    /\ mode' = Stopped
    /\ main' = "waiting"
    /\ UNCHANGED <<reflexVars, tick, todo, owner, timer, dirty>>

(* Mutant: exit does not wait.                                             *)
WaitForStop_Not ==
    /\ main = "waiting" /\ IsFree("node")
    /\ main' = "loop"
    /\ UNCHANGED <<nodeVars, reflexVars, tick, todo, owner, timer, dirty>>

(* _vnode_wait_for_stop looks at the mode once in a second.                *)
WaitForStop ==
    /\ main = "waiting" /\ IsFree("node")
    /\ mode = "off"
    /\ main' = "loop"
    /\ UNCHANGED <<nodeVars, reflexVars, tick, todo, owner, timer, dirty>>

(* A DHT message that may bring nodes: _aux_route_msg_cb.  The mode of the *)
(* node is not asked.                                                      *)
Message ==
    /\ Looping /\ IsFree("route")
    /\ dirty' = TRUE
    /\ UNCHANGED <<nodeVars, reflexVars, main, tick, todo, owner, timer>>

(* A @reflex_rsp whose token is checked under route->lock ...              *)
ReflexRsp ==
    /\ Looping /\ IsFree("route")
    /\ pending > 0
    /\ pending' = pending - 1
    /\ owner' = [owner EXCEPT !["route"] = Main]
    /\ main' = "reflex"
    /\ UNCHANGED <<nodeVars, tick, todo, timer, dirty, needReflex, nreflexs>>

(* ... and _vnode_reflex_addr, called under it, takes node->lock too.  The *)
(* response came to the local address, or to another one.                  *)
ReflexAddr ==
    /\ main = "reflex" /\ IsFree("node")
    /\ needReflex' \in {needReflex, FALSE}
    /\ owner' = [owner EXCEPT !["route"] = Free]
    /\ main' = "loop"
    /\ UNCHANGED <<nodeVars, tick, todo, timer, dirty, nreflexs, pending>>

(* _vhost_run returns, vdhtapp_deinit begins.                              *)
Quit ==
    /\ main = "loop" /\ toQuit
    /\ main' = "deinit"
    /\ UNCHANGED <<nodeVars, reflexVars, tick, todo, owner, timer, dirty>>

(* vnode_deinit waits for the node once more; then its lock is destroyed,  *)
(* and route and sockets go.  A tick that takes the destroyed lock is not  *)
(* stopped by it.                                                          *)
NodeDeinit ==
    /\ main = "deinit" /\ IsFree("node")
    /\ mode = "off"
    /\ main' = "noded"
    /\ UNCHANGED <<nodeVars, reflexVars, tick, todo, owner, timer, dirty>>

(* vticker_deinit, after everything the ticks use                          *)
TickerDeinit ==
    /\ main = "noded" /\ IsFree("ticker")
    /\ timer' = FALSE
    /\ main' = "done"
    /\ UNCHANGED <<nodeVars, reflexVars, tick, todo, owner, dirty>>

-----------------------------------------------------------------------------
(* A tick                                                                  *)

(* _aux_timer_cb                                                           *)
Expire(t) ==
    /\ timer /\ tick[t] = "idle" /\ IsFree("ticker")
    /\ owner' = [owner EXCEPT !["ticker"] = t]
    /\ tick' = [tick EXCEPT ![t] = "node"]
    /\ UNCHANGED <<nodeVars, reflexVars, main, todo, timer, dirty>>

(* Mutant: one chance too many.                                            *)
Chances_OneMore == IF nreflexs > MaxReflexs THEN {FALSE} ELSE BOOLEAN

(* _aux_node_get_eaddrs: whether a round of reflex queries is due          *)
Chances == IF nreflexs >= MaxReflexs THEN {FALSE} ELSE BOOLEAN

Eaddrs(chance) == IF chance /\ needReflex THEN <<"reflex">> ELSE << >>

(* Mutant: the last table is not stored.                                   *)
Work_DownNoStore(chance, due, writeback) ==
    CASE mode = "up"   -> <<"load", "join">> \o Eaddrs(chance)
      [] mode = "run"  -> (IF due THEN Eaddrs(chance) \o <<"probe", "air">> ELSE << >>)
                            \o (IF writeback THEN <<"store">> ELSE << >>) \o <<"tick">>
      [] OTHER         -> << >>

(* The calls of the route that _aux_node_tick_cb makes in each mode, with  *)
(* those of _vnode_tick when the node's own interval is over               *)
Work(chance, due, writeback) ==
    CASE mode = "up"   -> <<"load", "join">> \o Eaddrs(chance)
      [] mode = "run"  -> (IF due THEN Eaddrs(chance) \o <<"probe", "air">> ELSE << >>)
                            \o (IF writeback THEN <<"store">> ELSE << >>) \o <<"tick">>
      [] mode = "down" -> <<"store">>
      [] OTHER         -> << >>

(* Whether this tick comes to _aux_node_get_eaddrs                         *)
AsksEaddrs(due) == mode = "up" \/ (mode = "run" /\ due)

TickNode(t) ==
    /\ tick[t] = "node" /\ IsFree("node")
    /\ \E chance \in Chances, due \in BOOLEAN, writeback \in BOOLEAN :
         /\ todo' = Work(chance, due, writeback)
         /\ nreflexs' = IF chance /\ AsksEaddrs(due) THEN nreflexs + 1 ELSE nreflexs
    /\ owner' = [owner EXCEPT !["node"] = t]
    /\ tick' = [tick EXCEPT ![t] = "work"]
    /\ UNCHANGED <<nodeVars, main, timer, dirty, needReflex, pending>>

(* One call of the route.  A reflex query finds a peer to ask, or not; the *)
(* tick of the route reaps the tickets that are overdue.                   *)
TickCall(t) ==
    /\ tick[t] = "work" /\ todo # << >> /\ IsFree("route")
    /\ todo' = Tail(todo)
    /\ dirty' = (dirty /\ Head(todo) # "store")
    /\ \/ Head(todo) = "reflex" /\ pending' = pending + 1
       \/ Head(todo) = "tick" /\ pending' \in 0 .. pending
       \/ Head(todo) # "tick" /\ UNCHANGED pending
    /\ UNCHANGED <<nodeVars, main, tick, owner, timer, needReflex, nreflexs>>

(* Mutant: a node that goes down is never off.                             *)
Ticked_StaysDown == IF mode = "up" THEN "run" ELSE mode

(* The mode after the tick                                                 *)
Ticked ==
    CASE mode = "up" -> "run" [] mode = "down" -> "off" [] OTHER -> mode

(* Mutant: the early end of a tick of an offline node keeps ticker->lock.  *)
TickEnd_OffLocked(t) ==
    /\ tick[t] = "work" /\ todo = << >>
    /\ mode' = Ticked
    /\ owner' = [owner EXCEPT !["node"] = Free,
                              !["ticker"] = IF mode = "off" THEN @ ELSE Free]
    /\ tick' = [tick EXCEPT ![t] = "idle"]
    /\ UNCHANGED <<reflexVars, main, todo, timer, toQuit, dirty, exitMode>>

TickEnd(t) ==
    /\ tick[t] = "work" /\ todo = << >>
    /\ mode' = Ticked
    /\ owner' = [owner EXCEPT !["node"] = Free, !["ticker"] = Free]
    /\ tick' = [tick EXCEPT ![t] = "idle"]
    /\ UNCHANGED <<reflexVars, main, todo, timer, toQuit, dirty, exitMode>>

-----------------------------------------------------------------------------
Init ==
    /\ mode = "off"
    /\ main = "boot"
    /\ tick = [t \in Ticks |-> "idle"]
    /\ todo = << >>
    /\ owner = [l \in Locks |-> Free]
    /\ timer = FALSE
    /\ toQuit = FALSE
    /\ dirty = FALSE
    /\ exitMode = "off"
    /\ needReflex \in BOOLEAN    \* the local address is private, or public
    /\ nreflexs = 0
    /\ pending = 0

TickStep(t) == Expire(t) \/ TickNode(t) \/ TickCall(t) \/ TickEnd(t)

Next ==
    \/ Stabilize \/ Run \/ HostUp \/ HostDown \/ HostExit \/ WaitForStop
    \/ Message \/ ReflexRsp \/ ReflexAddr \/ Quit \/ NodeDeinit \/ TickerDeinit
    \/ \E t \in Ticks : TickStep(t)

Spec == Init /\ [][Next]_vars

(* The main thread goes on, and so do the ticks; a lock that is released   *)
(* again and again is acquired.  No message and no command need ever come. *)
Fairness ==
    /\ WF_vars(Quit)
    /\ SF_vars(Stabilize) /\ SF_vars(Run) /\ SF_vars(WaitForStop)
    /\ SF_vars(ReflexAddr) /\ SF_vars(NodeDeinit) /\ SF_vars(TickerDeinit)
    /\ \A t \in Ticks : /\ WF_vars(TickEnd(t))
                        /\ SF_vars(Expire(t)) /\ SF_vars(TickNode(t)) /\ SF_vars(TickCall(t))

FairSpec == Spec /\ Fairness

-----------------------------------------------------------------------------
(* Properties                                                              *)

(* Every variable holds values of its type; there are at most three rounds *)
(* of reflex queries.                                                      *)
TypeOK ==
    /\ mode \in Modes
    /\ main \in {"boot", "start", "loop", "waiting", "reflex", "deinit", "noded", "done"}
    /\ tick \in [Ticks -> {"idle", "node", "work"}]
    /\ todo \in Seq(Calls)
    /\ owner \in [Locks -> Ticks \cup {Main, Free}]
    /\ timer \in BOOLEAN
    /\ toQuit \in BOOLEAN
    /\ dirty \in BOOLEAN
    /\ exitMode \in Modes
    /\ needReflex \in BOOLEAN
    /\ nreflexs \in 0 .. MaxReflexs
    /\ pending \in Nat

(* From the moment the main thread takes the daemon down the node is off,  *)
(* and no tick that is still under way calls the route that is being       *)
(* destroyed: vhost_deinit stops the ticker last.                          *)
QuietDeinit ==
    main \in {"deinit", "noded", "done"} =>
        /\ mode = "off"
        /\ \A t \in Ticks : tick[t] = "work" => todo = << >>

(* When a node that was not off is told to exit, every node it learned is  *)
(* in the database before the daemon ends, although messages, ticks and    *)
(* the request to stop come in any order.                                  *)
ExitSaves ==
    main \in {"deinit", "noded", "done"} /\ exitMode # "off" => ~dirty

(* With a public address, that is without reflex queries, a node that is   *)
(* told to go down does go off, ...                                        *)
StopStops == ~needReflex => (mode = "down" ~> mode = "off")

(* ... and a daemon that is told to exit ends.                             *)
ExitEnds == ~needReflex => (toQuit ~> main = "done")

(* vhost.c:65: the ticker "is running peridically at background in the     *)
(* form of timer": no tick lasts for ever.                                 *)
TickerRuns == []<>IsFree("ticker")

(* That is so with a public address.                                       *)
PublicTickerRuns == ~needReflex => TickerRuns
=============================================================================
