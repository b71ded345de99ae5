------------------------- MODULE HostThreadsProofs -------------------------
(***************************************************************************)
(* Proofs about HostThreads, for any number of timer threads: the daemon   *)
(* is taken down quietly, and an exit saves what the node learned.         *)
(*                                                                         *)
(* Both rest on node->lock being held for the whole tick: LocksHeld ties   *)
(* the owners of the locks to the places of the threads, so that whoever   *)
(* finds node->lock free knows that no tick is at work.                    *)
(***************************************************************************)
EXTENDS HostThreads, SequenceTheorems, TLAPS

LocksHeld ==
    \A t \in Ticks : /\ tick[t] # "idle" <=> owner["ticker"] = t
                     /\ tick[t] = "work" <=> owner["node"] = t

(* A tick that finds the node off has nothing to do.                       *)
OffIsIdle == \A t \in Ticks : tick[t] = "work" /\ mode = "off" => todo = << >>

Ending == main \in {"deinit", "noded", "done"} \/ (main = "loop" /\ toQuit)

(* How far the main thread has come, and what it knows of the node         *)
MainKnows ==
    /\ main = "waiting" => toQuit /\ mode \in {"off", "down"}
    /\ main = "reflex" => ~toQuit
    /\ Ending => mode = "off"

(* An exit of a node that was not off: the database is behind only as long *)
(* as the tick that stores it has not come so far.                         *)
SavingUnderway ==
    exitMode # "off" =>
        /\ Ending => ~dirty
        /\ main = "waiting" /\ mode = "off" => ~dirty
        /\ \A t \in Ticks : main = "waiting" /\ mode = "down" /\ tick[t] = "work"
                              => todo = <<"store">> \/ (todo = << >> /\ ~dirty)

IInv == TypeOK /\ LocksHeld /\ OffIsIdle /\ MainKnows /\ SavingUnderway

(* What a tick has to do is a list of calls, whatever the mode.            *)
LEMMA WorkType ==
    ASSUME NEW chance \in BOOLEAN, NEW due \in BOOLEAN, NEW writeback \in BOOLEAN
    PROVE  Work(chance, due, writeback) \in Seq(Calls)
<1>1. Eaddrs(chance) \in Seq(Calls)
  <2>1. <<"reflex">> \in Seq(Calls) /\ << >> \in Seq(Calls)
    BY DEF Calls
  <2>. QED
    BY <2>1 DEF Eaddrs
<1>2. <<"load", "join">> \in Seq(Calls) /\ <<"probe", "air">> \in Seq(Calls)
  BY DEF Calls
<1>3. <<"store">> \in Seq(Calls) /\ <<"tick">> \in Seq(Calls) /\ << >> \in Seq(Calls)
  BY DEF Calls
<1>4. \A s, u \in Seq(Calls) : s \o u \in Seq(Calls)
  BY ConcatProperties
<1>5. <<"load", "join">> \o Eaddrs(chance) \in Seq(Calls)
  BY <1>1, <1>2, <1>4
<1>6. Eaddrs(chance) \o <<"probe", "air">> \in Seq(Calls)
  BY <1>1, <1>2, <1>4
<1>7. (IF due THEN Eaddrs(chance) \o <<"probe", "air">> ELSE << >>)
        \o (IF writeback THEN <<"store">> ELSE << >>) \in Seq(Calls)
  BY <1>3, <1>4, <1>6
<1>8. (IF due THEN Eaddrs(chance) \o <<"probe", "air">> ELSE << >>)
        \o (IF writeback THEN <<"store">> ELSE << >>) \o <<"tick">> \in Seq(Calls)
  BY <1>3, <1>4, <1>7
<1>. QED
  BY <1>3, <1>5, <1>8 DEF Work

LEMMA InitInv == Init => IInv
<1>. SUFFICES ASSUME Init PROVE IInv
  OBVIOUS
<1>1. TypeOK
  <2>1. todo \in Seq(Calls)
    BY DEF Init
  <2>2. nreflexs \in 0 .. MaxReflexs /\ pending \in Nat
    BY DEF Init, MaxReflexs
  <2>3. timer \in BOOLEAN /\ toQuit \in BOOLEAN /\ dirty \in BOOLEAN /\ needReflex \in BOOLEAN
    BY Zenon DEF Init
  <2>4. /\ mode \in Modes /\ exitMode \in Modes
        /\ main \in {"boot", "start", "loop", "waiting", "reflex", "deinit", "noded", "done"}
    BY DEF Init, Modes
  <2>5. tick \in [Ticks -> {"idle", "node", "work"}] /\ owner \in [Locks -> Ticks \cup {Main, Free}]
    BY DEF Init
  <2>. QED
    BY <2>1, <2>2, <2>3, <2>4, <2>5 DEF TypeOK
<1>2. LocksHeld
  BY ThreadsAssumption DEF Init, LocksHeld, Locks
<1>3. OffIsIdle /\ MainKnows /\ SavingUnderway
  BY DEF Init, OffIsIdle, MainKnows, SavingUnderway, Ending
<1>. QED
  BY <1>1, <1>2, <1>3 DEF IInv

(* Each action keeps the invariant.                                        *)
LEMMA NextInv == ASSUME IInv, [Next]_vars PROVE IInv'
<1>. USE ThreadsAssumption DEF IInv, TypeOK, LocksHeld, OffIsIdle, MainKnows,
         SavingUnderway, Ending, Modes, Locks, IsFree, nodeVars, reflexVars, MaxReflexs
<1>1. CASE Stabilize
  BY <1>1 DEF Stabilize
<1>2. CASE Run
  BY <1>2 DEF Run, Started
<1>3. CASE HostUp
  BY <1>3 DEF HostUp, Started, Looping
<1>4. CASE HostDown
  BY <1>4 DEF HostDown, Stopped, Looping
<1>5. CASE HostExit
  BY <1>5 DEF HostExit, Stopped, Looping
<1>6. CASE WaitForStop
  BY <1>6 DEF WaitForStop
<1>7. CASE Message
  BY <1>7 DEF Message, Looping
<1>8. CASE ReflexRsp
  BY <1>8 DEF ReflexRsp, Looping
<1>9. CASE ReflexAddr
  BY <1>9 DEF ReflexAddr
<1>10. CASE Quit
  BY <1>10 DEF Quit
<1>11. CASE NodeDeinit
  BY <1>11 DEF NodeDeinit
<1>12. CASE TickerDeinit
  BY <1>12 DEF TickerDeinit
<1>13. ASSUME NEW t \in Ticks, Expire(t) PROVE IInv'
  BY <1>13 DEF Expire
<1>14. ASSUME NEW t \in Ticks, TickNode(t) PROVE IInv'
  <2>1. PICK chance \in Chances, due \in BOOLEAN, writeback \in BOOLEAN :
          /\ todo' = Work(chance, due, writeback)
          /\ nreflexs' = IF chance /\ AsksEaddrs(due) THEN nreflexs + 1 ELSE nreflexs
    BY <1>14 DEF TickNode
  <2>2. chance \in BOOLEAN /\ (chance => nreflexs < MaxReflexs)
    <3>1. CASE nreflexs >= MaxReflexs
      <4>1. chance = FALSE
        BY <3>1, Zenon DEF Chances
      <4>. QED
        BY <4>1, Zenon
    <3>2. CASE ~(nreflexs >= MaxReflexs)
      <4>1. chance \in BOOLEAN
        BY <3>2, Zenon DEF Chances
      <4>2. nreflexs < MaxReflexs
        BY <3>2
      <4>. QED
        BY <4>1, <4>2
    <3>. QED
      BY <3>1, <3>2
  <2>3. todo' \in Seq(Calls)
    BY <2>1, <2>2, WorkType
  <2>4. mode = "off" => todo' = << >>
    BY <2>1 DEF Work
  <2>5. mode = "down" => todo' = <<"store">>
    BY <2>1 DEF Work
  <2>6. nreflexs' \in 0 .. MaxReflexs
    BY <2>1, <2>2
  <2>7. TypeOK'
    BY <1>14, <2>3, <2>6 DEF TickNode
  <2>8. LocksHeld'
    BY <1>14 DEF TickNode
  <2>9. OffIsIdle' /\ MainKnows' /\ SavingUnderway'
    BY <1>14, <2>4, <2>5, <2>8 DEF TickNode
  <2>. QED
    BY <2>7, <2>8, <2>9
<1>15. ASSUME NEW t \in Ticks, TickCall(t) PROVE IInv'
  <2>1. Tail(todo) \in Seq(Calls) /\ todo # << >> /\ todo' = Tail(todo)
    BY <1>15 DEF TickCall
  <2>2. pending' \in Nat
    BY <1>15 DEF TickCall
  <2>3. dirty' \in BOOLEAN
    BY <1>15, Zenon DEF TickCall
  <2>4. TypeOK'
    BY <1>15, <2>1, <2>2, <2>3 DEF TickCall
  <2>5. LocksHeld' /\ OffIsIdle' /\ MainKnows'
    BY <1>15 DEF TickCall
  <2>6. mode # "off"
    BY <1>15 DEF TickCall
  <2>7. ASSUME todo = <<"store">> PROVE todo' = << >> /\ ~dirty'
    <3>1. Head(todo) = "store" /\ Tail(todo) = << >>
      BY <2>7
    <3>2. dirty' = (dirty /\ Head(todo) # "store")
      BY <1>15, Zenon DEF TickCall
    <3>. QED
      BY <2>1, <3>1, <3>2, Zenon
  <2>8. SavingUnderway'
    BY <1>15, <2>1, <2>6, <2>7 DEF TickCall
  <2>. QED
    BY <2>4, <2>5, <2>8
<1>16. ASSUME NEW t \in Ticks, TickEnd(t) PROVE IInv'
  <2>1. mode' \in Modes /\ (mode = "off" => mode' = "off")
          /\ (mode = "down" => mode' = "off") /\ (mode' = "off" => mode \in {"off", "down"})
    BY <1>16 DEF TickEnd, Ticked
  <2>2. TypeOK'
    BY <1>16, <2>1 DEF TickEnd
  <2>3. LocksHeld' /\ \A u \in Ticks : tick'[u] # "work"
    BY <1>16 DEF TickEnd
  <2>4. OffIsIdle' /\ MainKnows' /\ SavingUnderway'
    BY <1>16, <2>1, <2>3 DEF TickEnd
  <2>. QED
    BY <2>2, <2>3, <2>4
<1>17. CASE UNCHANGED vars
  BY <1>17 DEF vars
<1>. QED
  BY <1>1, <1>2, <1>3, <1>4, <1>5, <1>6, <1>7, <1>8, <1>9, <1>10, <1>11, <1>12,
     <1>13, <1>14, <1>15, <1>16, <1>17 DEF Next, TickStep

(* The invariant holds in every state that HostThreads reaches.            *)
THEOREM Invariance == Spec => []IInv
BY InitInv, NextInv, PTL DEF Spec

(* The states of threads, node and host keep their types, and route->lock  *)
(* has one holder at a time, among the threads that take it.               *)
THEOREM TypeCorrect == Spec => []TypeOK
<1>1. IInv => TypeOK
  BY DEF IInv
<1>. QED
  BY Invariance, <1>1, PTL

(* vhost_deinit (vhost.c): from the moment the daemon is taken down the    *)
(* node is off and no tick calls the route that is being destroyed.        *)
THEOREM DeinitIsQuiet == Spec => []QuietDeinit
<1>1. IInv => QuietDeinit
  BY DEF IInv, MainKnows, OffIsIdle, Ending, QuietDeinit
<1>. QED
  BY Invariance, <1>1, PTL

(* _vhost_exit (vhost.c): a node that was not off when it was told to exit *)
(* has stored all it learned when the daemon is taken down.                *)
THEOREM ExitAlwaysSaves == Spec => []ExitSaves
<1>1. IInv => ExitSaves
  BY DEF IInv, SavingUnderway, Ending, ExitSaves
<1>. QED
  BY Invariance, <1>1, PTL
=============================================================================
