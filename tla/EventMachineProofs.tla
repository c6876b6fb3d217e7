------------------------- MODULE EventMachineProofs -------------------------
(* Proofs about EventMachine, for every set of events and channels and any  *)
(* number of coroutines and blocks.                                         *)
EXTENDS EventMachine, WellFoundedInduction, TLAPS

\* What the machine's own threads keep, without the number of tasks.
CoreOK == QueueTypeOK /\ MonitorTypeOK

-----------------------------------------------------------------------------
(* Lemmas about the list of names.                                         *)

LEMMA MinOfTwo ==
    ASSUME NEW a \in Int, NEW b \in Int
    PROVE  Min({a, b}) \in {a, b}
  <1>1. \E x \in {a, b} : \A y \in {a, b} : x =< y
    <2>1. CASE a <= b
      BY <2>1
    <2>2. CASE b <= a
      BY <2>2
    <2> QED BY <2>1, <2>2
  <1> QED BY <1>1, Zenon DEF Min

LEMMA RangeAppend ==
    ASSUME NEW s \in Seq(Names), NEW n \in Names
    PROVE  Range(Append(s, n)) = Range(s) \cup {n}
  <1> DEFINE t == Append(s, n)
  <1>1. /\ t \in Seq(Names) /\ Len(t) = Len(s) + 1
        /\ t[Len(s) + 1] = n
        /\ \A i \in 1 .. Len(s) : t[i] = s[i]
    OBVIOUS
  <1>2. DOMAIN t = 1 .. Len(s) + 1 /\ DOMAIN s = 1 .. Len(s)
    BY <1>1
  <1> QED BY <1>1, <1>2 DEF Range

LEMMA RangeTail ==
    ASSUME NEW s \in Seq(Names), s # <<>>, NEW n \in Range(s), n # Head(s)
    PROVE  n \in Range(Tail(s))
  <1>1. PICK i \in 1 .. Len(s) : s[i] = n
    BY DEF Range
  <1>2. i # 1
    BY <1>1
  <1>3. /\ i - 1 \in 1 .. Len(s) - 1
        /\ Len(Tail(s)) = Len(s) - 1 /\ Tail(s)[i - 1] = n
        /\ DOMAIN Tail(s) = 1 .. Len(s) - 1
    BY <1>1, <1>2
  <1> QED BY <1>3 DEF Range

LEMMA HeadIsName ==
    ASSUME NEW s \in Seq(Names), s # <<>>
    PROVE  Head(s) \in Names /\ Tail(s) \in Seq(Names) /\ Head(s) \in Range(s)
  <1>1. Head(s) = s[1] /\ 1 \in DOMAIN s
    OBVIOUS
  <1> QED BY <1>1 DEF Range

LEMMA RangeIsNames ==
    ASSUME NEW s \in Seq(Names)
    PROVE  Range(s) \subseteq Names
  BY DEF Range

-----------------------------------------------------------------------------
(* The types.                                                              *)

LEMMA InitCore == Init => CoreOK
  BY MachineAssumption
  DEF Init, CoreOK, QueueTypeOK, MonitorTypeOK, Monitors, InHand, NewEvent, Stages, Working, Finished

\* The outcomes of a stage are events again.
LEMMA OutcomeType ==
    ASSUME NEW ev \in [stage : Stages, retry : BOOLEAN, start : Nat],
           mon.height \in Nat
    PROVE  /\ Started(ev) \in [stage : Stages, retry : BOOLEAN, start : Nat]
           /\ Started(ev).stage = ev.stage /\ Started(ev).retry = ev.retry
           /\ Outcomes(ev) \subseteq [stage : Stages, retry : BOOLEAN, start : Nat]
  <1>1. /\ Started(ev) \in [stage : Stages, retry : BOOLEAN, start : Nat]
        /\ Started(ev).stage = ev.stage /\ Started(ev).retry = ev.retry
    BY DEF Started
  <1>2. CASE ev.stage \in Working
    <2>1. NextStage(ev.stage) \in Stages
      BY <1>2 DEF NextStage, Working, Finished, Stages
    <2>2. [Started(ev) EXCEPT !.stage = NextStage(@)] \in
              [stage : Stages, retry : BOOLEAN, start : Nat]
      BY <1>1, <2>1
    <2>3. Outcomes(ev) \subseteq
              {Started(ev), [Started(ev) EXCEPT !.stage = NextStage(@)]}
      BY <1>2 DEF Outcomes, Working, Finished
    <2> QED BY <1>1, <2>2, <2>3
  <1>3. CASE ev.stage \in Finished
    <2>1. Outcomes(ev) = {ev}
      BY <1>3 DEF Outcomes, Working, Finished
    <2> QED BY <1>1, <2>1
  <1>4. CASE ev.stage = "timeout"
    <2>1. Outcomes(ev) = {TimeoutHandler(ev)}
      BY <1>4 DEF Outcomes, Working, Finished
    <2>2. TimeoutHandler(ev) \in [stage : Stages, retry : BOOLEAN, start : Nat]
      BY DEF TimeoutHandler, Stages, Working, Finished
    <2> QED BY <1>1, <2>1, <2>2
  <1> QED BY <1>2, <1>3, <1>4 DEF Stages

\* A step of the monitor that leaves the chain alone keeps MonitorTypeOK.
LEMMA MonitorStep ==
    ASSUME MonitorTypeOK, mon' \in Monitors, InHand', height' = height,
           mon'.height \in {mon.height, height}
    PROVE  MonitorTypeOK'
  BY DEF MonitorTypeOK, Monitors

LEMMA MonitorUnchanged ==
    ASSUME MonitorTypeOK, UNCHANGED <<mon, height>>
    PROVE  MonitorTypeOK'
  BY DEF MonitorTypeOK, InHand

\* Starting tasks keeps the type of the monitor.
LEMMA TasksKeepType ==
    ASSUME mon \in Monitors, NEW tasks \in Nat, NEW total \in Nat
    PROVE  [mon EXCEPT !.pc = "task", !.tasks = tasks, !.total = total] \in Monitors
  <1> DEFINE m1 == [mon EXCEPT !.pc = "task"]
             m2 == [m1 EXCEPT !.tasks = tasks]
  <1>1. m1 \in Monitors
    BY DEF Monitors
  <1>2. m2 \in Monitors
    <2> HIDE DEF m1
    <2> QED BY <1>1 DEF Monitors
  <1>3. [m2 EXCEPT !.total = total] \in Monitors
    <2> HIDE DEF m2
    <2> QED BY <1>2 DEF Monitors
  <1>4. [mon EXCEPT !.pc = "task", !.tasks = tasks, !.total = total] =
        [m2 EXCEPT !.total = total]
    OBVIOUS
  <1> QED BY <1>3, <1>4

LEMMA NextCore == CoreOK /\ [Next]_vars => CoreOK'
  <1> SUFFICES ASSUME CoreOK, [Next]_vars PROVE CoreOK'
    OBVIOUS
  <1> USE DEF CoreOK
  <1>1. ASSUME NEW e \in Events, RegisterEvent(e) PROVE CoreOK'
    BY <1>1, MonitorUnchanged, MachineAssumption DEF RegisterEvent, QueueTypeOK
  <1>2. ASSUME NEW e \in Events, TriggerStartEvent(e) PROVE CoreOK'
    <2>1. order' \in Seq(Names)
      <3>1. NameOf[e] \in Names
        BY MachineAssumption
      <3>2. order' = order \/ order' = Append(order, NameOf[e])
        BY <1>2 DEF TriggerStartEvent
      <3>3. order \in Seq(Names)
        BY DEF QueueTypeOK
      <3> QED BY <3>1, <3>2, <3>3
    <2> QED BY <1>2, <2>1, MonitorUnchanged DEF TriggerStartEvent, QueueTypeOK
  <1>3. ASSUME NEW e \in Timed, NEW b \in EndBlocks, RegisterTimer(e, b) PROVE CoreOK'
    BY <1>3, MonitorUnchanged, MachineAssumption DEF RegisterTimer, QueueTypeOK
  <1>4. CASE TimerEvent
    BY <1>4, MonitorUnchanged DEF TimerEvent, QueueTypeOK
  <1>5. CASE BeginPoll
    <2>1. PICK total \in Nat :
              mon' = [mon EXCEPT !.pc = "poll", !.height = height, !.total = total]
      BY <1>5 DEF BeginPoll, MonitorTypeOK, Monitors, IsPollingFinished
    <2>2. mon' \in Monitors
      BY <2>1 DEF MonitorTypeOK, Monitors
    <2>3. InHand' /\ mon'.height = height
      BY <1>5, <2>1 DEF BeginPoll, MonitorTypeOK, Monitors, InHand
    <2> QED BY <1>5, <2>2, <2>3, MonitorStep DEF BeginPoll, QueueTypeOK
  <1>6. CASE Handle
    <2>1. CoroNumber \in Nat /\ Len(order) \in Nat
      BY MachineAssumption DEF QueueTypeOK
    <2>2. PICK tasks \in Nat : tasks = Min({CoroNumber, Len(order)})
      BY <2>1, MinOfTwo
    <2>3. PICK total \in Nat : total = mon.total + tasks
      BY <2>2 DEF MonitorTypeOK, Monitors
    <2>4. mon' = [mon EXCEPT !.pc = "task", !.tasks = tasks, !.total = total]
      BY <1>6, <2>2, <2>3 DEF Handle
    <2>5. mon' \in Monitors
      BY <2>4, TasksKeepType DEF MonitorTypeOK
    <2>6. InHand' /\ mon'.height = mon.height
      BY <1>6, <2>4 DEF Handle, MonitorTypeOK, Monitors, InHand
    <2> QED BY <1>6, <2>5, <2>6, MonitorStep DEF Handle, QueueTypeOK
  <1>7. CASE EndPoll
    <2>1. mon' \in Monitors
      BY <1>7 DEF EndPoll, MonitorTypeOK, Monitors
    <2>2. InHand' /\ mon'.height = mon.height
      BY <1>7 DEF EndPoll, MonitorTypeOK, Monitors, InHand
    <2> QED BY <1>7, <2>1, <2>2, MonitorStep DEF EndPoll, QueueTypeOK
  <1>8. CASE MonitorDies
    <2> DEFINE dead == [[mon EXCEPT !.pc = "dead"] EXCEPT !.old = 0]
    <2>1. dead \in Monitors
      BY DEF MonitorTypeOK, Monitors
    <2>2. mon' = [dead EXCEPT !.total = 0]
      BY <1>8 DEF MonitorDies
    <2>3. mon' \in Monitors
      <3> HIDE DEF dead
      <3> QED BY <2>1, <2>2 DEF Monitors
    <2>4. InHand' /\ mon'.height = mon.height
      BY <1>8 DEF MonitorDies, MonitorTypeOK, Monitors, InHand
    <2> QED BY <1>8, <2>3, <2>4, MonitorStep DEF MonitorDies, QueueTypeOK
  <1>9. CASE GetEvent
    <2> DEFINE found == queue[Head(order)]
    <2>1. Head(order) \in Names /\ Tail(order) \in Seq(Names)
      BY <1>9, HeadIsName DEF GetEvent, QueueTypeOK
    <2>2. found \in Events \cup {NoEvent} /\ mon.event = NoEvent
      BY <1>9, <2>1 DEF GetEvent, QueueTypeOK, MonitorTypeOK, InHand
    <2>3. QueueTypeOK'
      BY <1>9, <2>1 DEF GetEvent, QueueTypeOK
    <2>4. PICK left \in Int : left = mon.tasks - 1
      BY DEF MonitorTypeOK, Monitors
    <2>5. CASE found = NoEvent
      <3>1. PICK pc \in {"task", "polled"} : mon' = [mon EXCEPT !.pc = pc, !.tasks = left]
        BY <1>9, <2>4, <2>5 DEF GetEvent
      <3>2. mon' \in Monitors
        BY <3>1 DEF MonitorTypeOK, Monitors
      <3>3. InHand' /\ mon'.height = mon.height
        BY <3>1, <2>2 DEF MonitorTypeOK, Monitors, InHand
      <3> QED BY <1>9, <2>3, <3>2, <3>3, MonitorStep DEF GetEvent
    <2>6. CASE found # NoEvent
      <3>1. mon' = [mon EXCEPT !.pc = "run", !.tasks = left, !.event = found]
        BY <1>9, <2>4, <2>6 DEF GetEvent
      <3>2. mon' \in Monitors
        BY <2>2, <3>1 DEF MonitorTypeOK, Monitors
      <3>3. InHand' /\ mon'.height = mon.height
        BY <2>6, <3>1 DEF MonitorTypeOK, Monitors, InHand
      <3> QED BY <1>9, <2>3, <3>2, <3>3, MonitorStep DEF GetEvent
    <2> QED BY <2>5, <2>6
  <1>10. CASE RunStage
    <2>1. mon.event \in Events /\ mon.height \in Nat
      BY <1>10 DEF RunStage, MonitorTypeOK, Monitors, InHand
    <2>2. PICK ev \in Outcomes(event[mon.event]) :
              event' = [event EXCEPT ![mon.event] = ev]
      BY <1>10 DEF RunStage
    <2>3. ev \in [stage : Stages, retry : BOOLEAN, start : Nat]
      BY <2>1, <2>2, OutcomeType DEF QueueTypeOK
    <2>4. QueueTypeOK'
      BY <1>10, <2>1, <2>2, <2>3 DEF RunStage, QueueTypeOK
    <2>5. event[mon.event].stage \in Stages
      BY <2>1 DEF QueueTypeOK
    <2>6. mon' \in Monitors
      BY <1>10, <2>5 DEF RunStage, MonitorTypeOK, Monitors
    <2>7. InHand' /\ mon'.height = mon.height
      BY <1>10 DEF RunStage, MonitorTypeOK, Monitors, InHand
    <2> QED BY <1>10, <2>4, <2>6, <2>7, MonitorStep DEF RunStage
  <1>11. CASE StageRaises
    <2>1. mon.event \in Events /\ mon.height \in Nat
      BY <1>11 DEF StageRaises, MonitorTypeOK, Monitors, InHand
    <2>2. Started(event[mon.event]) \in [stage : Stages, retry : BOOLEAN, start : Nat]
      BY <2>1, OutcomeType DEF QueueTypeOK
    <2>3. QueueTypeOK'
      BY <1>11, <2>1, <2>2 DEF StageRaises, QueueTypeOK
    <2>4. mon' \in Monitors
      BY <1>11 DEF StageRaises, MonitorTypeOK, Monitors, AfterTask
    <2>5. InHand' /\ mon'.height = mon.height
      BY <1>11 DEF StageRaises, MonitorTypeOK, Monitors, InHand, AfterTask
    <2> QED BY <1>11, <2>3, <2>4, <2>5, MonitorStep DEF StageRaises
  <1>12. CASE PutBack
    <2>1. mon.event \in Events /\ NameOf[mon.event] \in Names
      BY <1>12, MachineAssumption DEF PutBack, MonitorTypeOK, Monitors, InHand
    <2>2. order' \in Seq(Names)
      BY <1>12, <2>1 DEF PutBack, ListedAgain, QueueTypeOK
    <2>3. /\ queue' \in [Names -> Events \cup {NoEvent}]
          /\ \A n \in Names : queue'[n] # NoEvent => NameOf[queue'[n]] = n
      BY <1>12, <2>1 DEF PutBack, QueueTypeOK
    <2>4. event' \in [Events -> [stage : Stages, retry : BOOLEAN, start : Nat]]
      BY <1>12, <2>1 DEF PutBack, QueueTypeOK, Stages
    <2>5. mon' \in Monitors
      BY <1>12 DEF PutBack, MonitorTypeOK, Monitors, AfterTask
    <2>6. InHand' /\ mon'.height = mon.height
      BY <1>12 DEF PutBack, MonitorTypeOK, Monitors, InHand, AfterTask
    <2>7. QueueTypeOK'
      BY <1>12, <2>2, <2>3, <2>4 DEF PutBack, QueueTypeOK
    <2> QED BY <1>12, <2>5, <2>6, <2>7, MonitorStep DEF PutBack
  <1>13. CASE NextBlock
    BY <1>13 DEF NextBlock, QueueTypeOK, MonitorTypeOK, Monitors, InHand
  <1>14. CASE UNCHANGED vars
    BY <1>14, MonitorUnchanged DEF vars, QueueTypeOK
  <1> QED
    BY <1>1, <1>2, <1>3, <1>4, <1>5, <1>6, <1>7, <1>8, <1>9, <1>10, <1>11, <1>12, <1>13, <1>14
    DEF Next

\* The queue, its names, the events and the monitor thread keep their types, and
\* the queue holds an event only under its own channel.
THEOREM CoreCorrect == Spec => []CoreOK
  BY InitCore, NextCore, PTL DEF Spec

-----------------------------------------------------------------------------
(* No event is forgotten.                                                  *)

LEMMA NextOrdered == CoreOK /\ TriggeredIsOrdered /\ [Next]_vars => TriggeredIsOrdered'
  <1> SUFFICES ASSUME CoreOK, TriggeredIsOrdered, [Next]_vars,
                      NEW e \in Events, caller'[e] = "triggered", queue'[NameOf[e]] = e
               PROVE  NameOf[e] \in Range(order')
    BY DEF TriggeredIsOrdered
  <1>0. /\ NameOf[e] \in Names /\ e # NoEvent
        /\ order \in Seq(Names) /\ queue \in [Names -> Events \cup {NoEvent}]
        /\ caller \in [Events -> {"new", "timed", "registered", "triggered"}]
    BY MachineAssumption DEF CoreOK, QueueTypeOK
  <1>a. ASSUME caller[e] = "triggered", queue[NameOf[e]] = e
        PROVE  NameOf[e] \in Range(order)
    BY <1>a DEF TriggeredIsOrdered
  <1>1. ASSUME NEW f \in Events, RegisterEvent(f) PROVE NameOf[e] \in Range(order')
    <2>1. e # f
      BY <1>0, <1>1 DEF RegisterEvent
    <2>2. caller[e] = "triggered" /\ queue[NameOf[e]] = e
      BY <1>0, <1>1, <2>1, MachineAssumption DEF RegisterEvent
    <2> QED BY <1>1, <1>a, <2>2 DEF RegisterEvent
  <1>2. ASSUME NEW f \in Events, TriggerStartEvent(f) PROVE NameOf[e] \in Range(order')
    <2>1. NameOf[f] \in Names
      BY MachineAssumption
    <2>2. Range(order) \subseteq Range(order') /\ NameOf[f] \in Range(order')
      BY <1>0, <1>2, <2>1, RangeAppend DEF TriggerStartEvent
    <2>3. CASE e = f
      BY <2>2, <2>3
    <2>4. CASE e # f
      <3>1. caller[e] = "triggered" /\ queue[NameOf[e]] = e
        BY <1>0, <1>2, <2>4 DEF TriggerStartEvent
      <3> QED BY <1>a, <2>2, <3>1
    <2> QED BY <2>3, <2>4
  <1>3. ASSUME NEW f \in Timed, NEW b \in EndBlocks, RegisterTimer(f, b)
        PROVE NameOf[e] \in Range(order')
    <2>1. caller[e] = "triggered" /\ queue[NameOf[e]] = e
      BY <1>0, <1>3, MachineAssumption DEF RegisterTimer
    <2> QED BY <1>3, <1>a, <2>1 DEF RegisterTimer
  <1>4. CASE GetEvent
    <2>1. Head(order) \in Names
      BY <1>0, <1>4, HeadIsName DEF GetEvent
    <2>2. NameOf[e] # Head(order) /\ queue[NameOf[e]] = e
      BY <1>0, <1>4, <2>1 DEF GetEvent
    <2>3. NameOf[e] \in Range(order)
      BY <1>4, <1>a, <2>2 DEF GetEvent
    <2> QED BY <1>0, <1>4, <2>2, <2>3, RangeTail DEF GetEvent
  <1>5. CASE PutBack
    <2>1. NameOf[mon.event] \in Names
      BY <1>5, MachineAssumption DEF PutBack, CoreOK, MonitorTypeOK, Monitors, InHand
    <2>2. Range(order) \subseteq Range(order')
      BY <1>0, <1>5, <2>1, RangeAppend DEF PutBack, ListedAgain
    <2>3. CASE queue[NameOf[e]] = e
      BY <1>5, <1>a, <2>2, <2>3 DEF PutBack
    <2>4. CASE queue[NameOf[e]] # e
      <3>1. GoesBack(mon.event) /\ e = mon.event
        BY <1>0, <1>5, <2>1, <2>4 DEF PutBack
      <3>2. order' = Append(order, NameOf[e])
        BY <1>5, <3>1 DEF PutBack, ListedAgain
      <3> QED BY <1>0, <3>2, RangeAppend
    <2> QED BY <2>3, <2>4
  <1>6. ASSUME UNCHANGED <<caller, queue, order>> PROVE NameOf[e] \in Range(order')
    BY <1>6, <1>a
  <1> QED
    BY <1>1, <1>2, <1>3, <1>4, <1>5, <1>6
    DEF Next, TimerEvent, BeginPoll, Handle, EndPoll, MonitorDies, RunStage, StageRaises, NextBlock, vars

\* An event whose caller has triggered it stays in the list of names as long
\* as it is queued, however registering, triggering and putting back meet.
THEOREM NoneForgotten == Spec => []TriggeredIsOrdered
  <1>1. Init => TriggeredIsOrdered
    BY DEF Init, TriggeredIsOrdered
  <1> QED BY <1>1, InitCore, NextCore, NextOrdered, PTL DEF Spec

-----------------------------------------------------------------------------
(* No event fails early.                                                   *)

\* Both attempts of e are over.
Late(e) == mon.height > event[e].start + Timeout + RetryTimeout

\* A retried event is timed out only late, which is what makes an error late.
TimesOutLate ==
    \A e \in Events : event[e].stage = "timeout" /\ event[e].retry => Late(e)

LEMMA OutcomeStage ==
    ASSUME NEW ev \in [stage : Stages, retry : BOOLEAN, start : Nat],
           NEW out \in Outcomes(ev), mon.height \in Nat
    PROVE  /\ out.stage # "timeout"
           /\ out.stage = "error" =>
                  /\ ev.stage \in {"error", "timeout"}
                  /\ ev.stage = "timeout" => ev.retry
                  /\ out.retry = ev.retry /\ out.start = ev.start
  <1>1. CASE ev.stage \in Working
    <2>1. NextStage(ev.stage) \in {"execute", "terminate", "complete"}
      BY <1>1 DEF NextStage, Working
    <2>2. out.stage = ev.stage \/ out.stage = NextStage(ev.stage)
      <3>1. out \in {Started(ev), [Started(ev) EXCEPT !.stage = NextStage(@)]}
        BY <1>1 DEF Outcomes, Working, Finished
      <3>2. /\ Started(ev) \in [stage : Stages, retry : BOOLEAN, start : Nat]
            /\ Started(ev).stage = ev.stage
        BY OutcomeType
      <3> QED BY <3>1, <3>2
    <2> QED BY <1>1, <2>1, <2>2 DEF Working
  <1>2. CASE ev.stage \in Finished
    <2>1. out = ev
      BY <1>2 DEF Outcomes, Working, Finished
    <2> QED BY <1>2, <2>1 DEF Finished
  <1>3. CASE ev.stage = "timeout"
    <2>1. out = TimeoutHandler(ev)
      BY <1>3 DEF Outcomes, Working, Finished
    <2> QED BY <1>3, <2>1 DEF TimeoutHandler
  <1> QED BY <1>1, <1>2, <1>3 DEF Stages

LEMMA NextLate ==
    CoreOK /\ TimesOutLate /\ FailsLate /\ [Next]_vars => TimesOutLate' /\ FailsLate'
  <1> SUFFICES ASSUME CoreOK, TimesOutLate, FailsLate, [Next]_vars, NEW e \in Events
               PROVE  /\ event'[e].stage = "timeout" /\ event'[e].retry => Late(e)'
                      /\ event'[e].stage = "error" => event'[e].retry /\ Late(e)'
    BY DEF TimesOutLate, FailsLate, Late
  <1>0. /\ event \in [Events -> [stage : Stages, retry : BOOLEAN, start : Nat]]
        /\ mon.height \in Nat /\ height \in Nat /\ mon.height <= height
        /\ Timeout \in Nat /\ RetryTimeout \in Nat
        /\ event[e].stage = "timeout" /\ event[e].retry => Late(e)
        /\ event[e].stage = "error" => event[e].retry /\ Late(e)
    BY MachineAssumption
    DEF CoreOK, QueueTypeOK, MonitorTypeOK, Monitors, TimesOutLate, FailsLate, Late
  \* A step that leaves e alone and does not set the monitor back.
  <1>a. ASSUME event'[e] = event[e], mon'.height \in {mon.height, height}
        PROVE  /\ event'[e].stage = "timeout" /\ event'[e].retry => Late(e)'
               /\ event'[e].stage = "error" => event'[e].retry /\ Late(e)'
    BY <1>0, <1>a DEF Late
  <1>1. CASE RunStage
    <2>1. mon.event \in Events /\ mon'.height = mon.height
      BY <1>1 DEF RunStage, CoreOK, MonitorTypeOK, Monitors, InHand
    <2>2. PICK out \in Outcomes(event[mon.event]) :
              event' = [event EXCEPT ![mon.event] = out]
      BY <1>1 DEF RunStage
    <2>3. CASE e = mon.event
      <3>1. event'[e] = out /\ event[e] \in [stage : Stages, retry : BOOLEAN, start : Nat]
        BY <1>0, <2>2, <2>3
      <3>2. /\ out.stage # "timeout"
            /\ out.stage = "error" =>
                  /\ event[e].stage \in {"error", "timeout"}
                  /\ event[e].stage = "timeout" => event[e].retry
                  /\ out.retry = event[e].retry /\ out.start = event[e].start
        BY <1>0, <2>2, <2>3, <3>1, OutcomeStage
      <3> QED BY <1>0, <2>1, <3>1, <3>2 DEF Late
    <2>4. CASE e # mon.event
      BY <1>0, <1>a, <2>1, <2>2, <2>4
    <2> QED BY <2>3, <2>4
  <1>2. CASE StageRaises
    <2>1. mon.event \in Events /\ mon'.height = mon.height
      BY <1>2 DEF StageRaises, CoreOK, MonitorTypeOK, Monitors, InHand
    <2>2. event' = [event EXCEPT ![mon.event] = Started(event[mon.event])]
      BY <1>2 DEF StageRaises
    <2>3. CASE e = mon.event
      <3>1. event'[e] = Started(event[e])
        BY <1>0, <2>1, <2>2, <2>3
      <3>2. CASE event[e].stage = "prepare"
        BY <1>0, <3>1, <3>2, OutcomeType
      <3>3. CASE event[e].stage # "prepare"
        <4>1. event'[e] = event[e]
          BY <3>1, <3>3 DEF Started
        <4> QED BY <1>a, <2>1, <4>1
      <3> QED BY <3>2, <3>3
    <2>4. CASE e # mon.event
      BY <1>0, <1>a, <2>1, <2>2, <2>4
    <2> QED BY <2>3, <2>4
  <1>3. CASE PutBack
    <2>1. mon.event \in Events /\ mon'.height = mon.height
      BY <1>3 DEF PutBack, CoreOK, MonitorTypeOK, Monitors, InHand
    <2>2. CASE event'[e] = event[e]
      BY <1>a, <2>1, <2>2
    <2>3. CASE event'[e] # event[e]
      <3>1. /\ e = mon.event /\ mon.height > EventTimeout(event[e])
            /\ event'[e] = [event[e] EXCEPT !.stage = "timeout"]
        BY <1>0, <1>3, <2>1, <2>3 DEF PutBack
      <3>2. /\ event'[e].stage = "timeout"
            /\ event'[e].retry = event[e].retry /\ event'[e].start = event[e].start
        BY <1>0, <3>1
      <3>3. event[e].retry => mon.height > event[e].start + Timeout + RetryTimeout
        BY <1>0, <3>1 DEF EventTimeout
      <3> QED BY <2>1, <3>2, <3>3 DEF Late
    <2> QED BY <2>2, <2>3
  <1>4. ASSUME event' = event, mon'.height \in {mon.height, height}
        PROVE  /\ event'[e].stage = "timeout" /\ event'[e].retry => Late(e)'
               /\ event'[e].stage = "error" => event'[e].retry /\ Late(e)'
    BY <1>4, <1>a
  <1>5. CASE BeginPoll
    <2>1. event' = event /\ mon'.height = height
      BY <1>5 DEF BeginPoll, CoreOK, MonitorTypeOK, Monitors
    <2> QED BY <1>4, <2>1
  <1>6. CASE Handle \/ EndPoll \/ MonitorDies
    <2>1. event' = event /\ mon'.height = mon.height
      BY <1>6 DEF Handle, EndPoll, MonitorDies, CoreOK, MonitorTypeOK, Monitors
    <2> QED BY <1>4, <2>1
  <1>7. CASE GetEvent
    <2>1. event' = event /\ mon'.height = mon.height
      BY <1>7 DEF GetEvent, CoreOK, MonitorTypeOK, Monitors
    <2> QED BY <1>4, <2>1
  <1>8. ASSUME UNCHANGED <<event, mon>>
        PROVE  /\ event'[e].stage = "timeout" /\ event'[e].retry => Late(e)'
               /\ event'[e].stage = "error" => event'[e].retry /\ Late(e)'
    BY <1>4, <1>8
  <1>9. \/ RunStage \/ StageRaises \/ PutBack \/ BeginPoll \/ Handle \/ EndPoll
        \/ MonitorDies \/ GetEvent \/ UNCHANGED <<event, mon>>
    BY DEF Next, RegisterEvent, TriggerStartEvent, RegisterTimer, TimerEvent, NextBlock, vars
  <1> QED
    BY <1>1, <1>2, <1>3, <1>5, <1>6, <1>7, <1>8, <1>9

\* An event reaches the error stage only after a retry, and after the blocks
\* that both attempts have.
THEOREM ErrorsAreLate == Spec => []FailsLate
  <1>1. Init => TimesOutLate /\ FailsLate
    BY DEF Init, TimesOutLate, FailsLate, NewEvent
  <1> QED BY <1>1, InitCore, NextCore, NextLate, PTL DEF Spec

-----------------------------------------------------------------------------
(* What the machine lets go of.                                            *)

\* What may happen to an event the machine stops holding.
LetGo(e) ==
    \/ mon.event = e /\ (event[e].stage \in Finished \/ queue[NameOf[e]] # NoEvent)
    \/ StageRaises
    \/ \E f \in Events : RegisterEvent(f) /\ NameOf[f] = NameOf[e]

LEMMA NextLetsGo ==
    CoreOK /\ [Next]_vars =>
        [\A e \in Events : Held(e) /\ ~Held(e)' => LetGo(e)]_vars
  <1> SUFFICES ASSUME CoreOK, Next, NEW e \in Events, Held(e), ~Held(e)'
               PROVE  LetGo(e)
    OBVIOUS
  <1>0. /\ NameOf[e] \in Names /\ e # NoEvent
        /\ queue \in [Names -> Events \cup {NoEvent}]
        /\ mon \in Monitors /\ InHand
    BY MachineAssumption DEF CoreOK, QueueTypeOK, MonitorTypeOK
  <1>1. ASSUME NEW f \in Events, RegisterEvent(f) PROVE LetGo(e)
    <2>1. NameOf[f] = NameOf[e]
      BY <1>0, <1>1 DEF RegisterEvent, Held
    <2> QED BY <1>1, <2>1 DEF LetGo
  <1>2. CASE StageRaises
    BY <1>2 DEF LetGo
  <1>3. CASE PutBack
    <2>1. mon.event = e
      <3>1. mon.event \in Events /\ NameOf[mon.event] \in Names
        BY <1>0, <1>3, MachineAssumption DEF PutBack, InHand, Monitors
      <3>2. queue'[NameOf[e]] = queue[NameOf[e]] \/ queue[NameOf[e]] = NoEvent
        BY <1>0, <1>3, <3>1 DEF PutBack, GoesBack
      <3> QED BY <1>0, <3>2 DEF Held
    <2>2. ~GoesBack(e)
      BY <1>0, <1>3, <2>1 DEF PutBack, Held
    <2> QED BY <2>1, <2>2 DEF GoesBack, LetGo
  <1>4. CASE GetEvent
    <2>1. mon.event = NoEvent
      BY <1>0, <1>4 DEF GetEvent, InHand
    <2>2. queue[NameOf[e]] = e
      BY <1>0, <2>1 DEF Held
    <2>3. NameOf[e] = Head(order)
      BY <1>0, <1>4, <2>2 DEF GetEvent, Held
    <2>4. mon'.event = e
      BY <1>0, <1>4, <2>2, <2>3 DEF GetEvent, Monitors
    <2> QED BY <2>4 DEF Held
  <1>5. ASSUME queue' = queue, mon'.event = mon.event PROVE FALSE
    BY <1>5 DEF Held
  <1>6. CASE BeginPoll \/ Handle \/ EndPoll \/ MonitorDies \/ RunStage
    <2>1. queue' = queue
      BY <1>6 DEF BeginPoll, Handle, EndPoll, MonitorDies, RunStage
    <2>2. mon'.event = mon.event
      BY <1>0, <1>6 DEF BeginPoll, Handle, EndPoll, MonitorDies, RunStage, Monitors
    <2> QED BY <1>5, <2>1, <2>2
  <1>7. ~UNCHANGED <<queue, mon>>
    BY <1>5
  <1> QED
    BY <1>1, <1>2, <1>3, <1>4, <1>6, <1>7
    DEF Next, TriggerStartEvent, RegisterTimer, TimerEvent, NextBlock

\* The machine lets go of an event only when it ended, when its stage raised,
\* or for a younger event of the same channel.
THEOREM NoneDropped == Spec => LeavesEnded
  <1>1. CoreOK /\ [Next]_vars =>
            [\A e \in Events : Held(e) /\ ~Held(e)' =>
                \/ mon.event = e /\ (event[e].stage \in Finished \/ queue[NameOf[e]] # NoEvent)
                \/ StageRaises
                \/ \E f \in Events : RegisterEvent(f) /\ NameOf[f] = NameOf[e]]_vars
    BY NextLetsGo DEF LetGo
  <1> QED BY <1>1, InitCore, NextCore, PTL DEF Spec, LeavesEnded

-----------------------------------------------------------------------------
(* The rest of the types: the number of tasks, the websocket's list.       *)

\* A set of naturals that is not empty has a least element.
LEMMA LeastNatural ==
    ASSUME NEW D \in SUBSET Nat, D # {}
    PROVE  \E d \in D : \A e \in D : d <= e
  <1>1. PICK d \in D : \A e \in D : ~ (<<e, d>> \in OpToRel(<, Nat))
    BY WFMin, NatLessThanWellFounded, Zenon
  <1>2. \A x, y \in Nat : x < y => <<x, y>> \in OpToRel(<, Nat)
    BY DEF OpToRel
  <1> DEFINE R == OpToRel(<, Nat)
  <1>3. (\A e \in D : ~ (<<e, d>> \in R)) /\ (\A x, y \in Nat : x < y => <<x, y>> \in R)
    BY <1>1, <1>2
  <1> HIDE DEF R
  <1>4. \A e \in D : ~ (e < d)
    BY <1>3
  <1> QED BY <1>4

\* f holds the concatenations of the first parts of ss.
IsFlattening(f, ss, k) ==
    f = [i \in 1 .. k |-> IF i = 1 THEN ss[i] ELSE f[i-1] \o ss[i]]

\* The parts can be concatenated one by one ...
LEMMA FlatteningExists ==
    ASSUME NEW S, NEW ss \in Seq(Seq(S)), NEW k \in 1 .. Len(ss)
    PROVE  \E f \in [1 .. k -> Seq(S)] : IsFlattening(f, ss, k)
  <1> DEFINE Good(j) == \E f \in [1 .. j -> Seq(S)] : IsFlattening(f, ss, j)
             Bad == {j \in 1 .. Len(ss) : ~ Good(j)}
  <1> SUFFICES ASSUME Bad # {} PROVE FALSE
    OBVIOUS
  <1>1. PICK j \in Bad : \A e \in Bad : j <= e
    <2>1. Bad \in SUBSET Nat
      OBVIOUS
    <2> HIDE DEF Bad
    <2> QED BY <2>1, LeastNatural
  <1>2. j \in 1 .. Len(ss) /\ ~ Good(j) /\ ss[j] \in Seq(S) /\ Len(ss) \in Nat
    OBVIOUS
  <1>3. CASE j = 1
    <2> DEFINE f == [i \in 1 .. 1 |-> ss[1]]
    <2>1. f \in [1 .. 1 -> Seq(S)] /\ f[1] = ss[1]
      BY <1>2, <1>3
    <2>2. f = [i \in 1 .. 1 |-> IF i = 1 THEN ss[i] ELSE f[i-1] \o ss[i]]
      OBVIOUS
    <2> HIDE DEF f
    <2>3. Good(1)
      BY <2>1, <2>2 DEF IsFlattening
    <2> QED BY <1>2, <1>3, <2>3
  <1>4. CASE j # 1
    <2>1. j - 1 \in 1 .. Len(ss) /\ ~ (j <= j - 1)
      BY <1>2, <1>4
    <2>2. j - 1 \notin Bad
      BY <1>1, <2>1
    <2>3. PICK g \in [1 .. j - 1 -> Seq(S)] : IsFlattening(g, ss, j - 1)
      BY <2>1, <2>2
    <2> DEFINE f == [i \in 1 .. j |-> IF i = j THEN g[j-1] \o ss[j] ELSE g[i]]
    <2>4. f \in [1 .. j -> Seq(S)]
      <3>1. g[j-1] \o ss[j] \in Seq(S)
        BY <1>2, <2>1
      <3>2. \A i \in 1 .. j : i # j => i \in 1 .. j - 1
        BY <1>2
      <3> QED BY <3>1, <3>2
    <2>5. \A i \in 1 .. j : f[i] = IF i = 1 THEN ss[i] ELSE f[i-1] \o ss[i]
      <3> SUFFICES ASSUME NEW i \in 1 .. j
                   PROVE  f[i] = IF i = 1 THEN ss[i] ELSE f[i-1] \o ss[i]
        OBVIOUS
      <3>1. CASE i = j
        <4>1. j \in 1 .. j /\ j - 1 \in 1 .. j /\ j - 1 # j
          BY <1>2, <2>1
        <4>2. f[j] = g[j-1] \o ss[j] /\ f[j-1] = g[j-1]
          BY <4>1
        <4> QED BY <1>4, <3>1, <4>2
      <3>2. CASE i # j
        <4>1. i \in 1 .. j - 1 /\ (i # 1 => i - 1 \in 1 .. j /\ i - 1 # j)
          BY <1>2, <3>2
        <4>2. g[i] = IF i = 1 THEN ss[i] ELSE g[i-1] \o ss[i]
          BY <2>3, <4>1 DEF IsFlattening
        <4>3. f[i] = g[i] /\ (i # 1 => f[i-1] = g[i-1])
          BY <3>2, <4>1
        <4> QED BY <4>2, <4>3
      <3> QED BY <3>1, <3>2
    <2>6. f = [i \in 1 .. j |-> f[i]]
      OBVIOUS
    <2> HIDE DEF f
    <2>7. IsFlattening(f, ss, j)
      BY <2>5, <2>6 DEF IsFlattening
    <2> QED BY <1>2, <2>4, <2>7
  <1> QED BY <1>3, <1>4

\* ... and in one way only, so that FlattenSeq gives a sequence of what they hold.
LEMMA FlattenSeqType ==
    ASSUME NEW S, NEW ss \in Seq(Seq(S)), ss # <<>>
    PROVE  FlattenSeq(ss) \in Seq(S)
  <1> DEFINE n == Len(ss)
             flatten == CHOOSE f : IsFlattening(f, ss, n)
  <1>1. n \in Nat /\ n # 0 /\ n \in 1 .. Len(ss)
    OBVIOUS
  <1>2. IsFlattening(flatten, ss, n)
    BY <1>1, FlatteningExists
  <1>3. FlattenSeq(ss) = flatten[n]
    BY <1>1 DEF FlattenSeq, IsFlattening
  <1> DEFINE Bad == {j \in 1 .. n : flatten[j] \notin Seq(S)}
  <1> HIDE DEF flatten
  <1>4. Bad = {}
    <2> SUFFICES ASSUME Bad # {} PROVE FALSE
      OBVIOUS
    <2>1. PICK j \in Bad : \A e \in Bad : j <= e
      <3>1. Bad \in SUBSET Nat
        BY <1>1
      <3> HIDE DEF Bad
      <3> QED BY <3>1, LeastNatural
    <2>2. j \in 1 .. n /\ ss[j] \in Seq(S)
      BY <1>1
    <2>3. flatten[j] = IF j = 1 THEN ss[j] ELSE flatten[j-1] \o ss[j]
      BY <1>2, <2>2 DEF IsFlattening
    <2>4. j # 1 => flatten[j-1] \in Seq(S)
      BY <1>1, <2>1, <2>2
    <2>5. flatten[j] \in Seq(S)
      BY <2>2, <2>3, <2>4
    <2> QED BY <2>5
  <1> QED BY <1>1, <1>3, <1>4

\* An event whose block came is registered and triggered before the next one.
Due == \A e \in Timed : caller[e] = "registered" => ws.due # <<>> /\ Head(ws.due) = e

\* Also while one event is run, the names left suffice for the tasks left.
TasksFit ==
    /\ TasksOK
    /\ mon.pc = "run" => mon.tasks \in 0 .. Len(order)

IInv == CoreOK /\ WebsocketTypeOK /\ Due /\ TasksFit


LEMMA InitRest == Init => WebsocketTypeOK /\ Due /\ TasksFit
  <1> SUFFICES ASSUME Init PROVE WebsocketTypeOK /\ Due /\ TasksFit
    OBVIOUS
  <1>1. WebsocketTypeOK
    BY DEF Init, WebsocketTypeOK
  <1>2. Due
    BY MachineAssumption DEF Init, Due
  <1>3. TasksFit
    BY DEF Init, TasksFit, TasksOK
  <1> QED BY <1>1, <1>2, <1>3

LEMMA NextTasks == CoreOK /\ TasksFit /\ [Next]_vars => TasksFit'
  <1> SUFFICES ASSUME CoreOK, TasksFit, [Next]_vars PROVE TasksFit'
    OBVIOUS
  <1>0. order \in Seq(Names) /\ Len(order) \in Nat /\ mon \in Monitors
    BY DEF CoreOK, QueueTypeOK, MonitorTypeOK
  \* The list only grows while the monitor does something else.
  <1>1. ASSUME mon' = mon, order' = order \/ \E n \in Names : order' = Append(order, n)
        PROVE  TasksFit'
    <2>1. Len(order') \in Nat /\ Len(order) <= Len(order')
      BY <1>0, <1>1
    <2> QED BY <1>0, <1>1, <2>1 DEF TasksFit, TasksOK, Monitors
  <1>2. ASSUME NEW e \in Events, TriggerStartEvent(e) PROVE TasksFit'
    <2>1. NameOf[e] \in Names
      BY MachineAssumption
    <2> QED BY <1>1, <1>2, <2>1 DEF TriggerStartEvent
  <1>3. CASE BeginPoll \/ EndPoll \/ MonitorDies
    <2>1. mon'.pc \in {"poll", "asleep", "dead"}
      BY <1>0, <1>3 DEF BeginPoll, EndPoll, MonitorDies, Monitors
    <2> QED BY <2>1 DEF TasksFit, TasksOK
  <1>4. CASE Handle
    <2>1. Len(order) >= 1 /\ CoroNumber \in Nat /\ CoroNumber >= 1
      BY <1>0, <1>4, MachineAssumption DEF Handle, MayHandle
    <2>2. PICK tasks \in 1 .. Len(order) : tasks = Min({CoroNumber, Len(order)})
      <3>1. Min({CoroNumber, Len(order)}) \in {CoroNumber, Len(order)}
        BY <1>0, <2>1, MinOfTwo
      <3>2. Min({CoroNumber, Len(order)}) <= Len(order)
        <4>1. \E x \in {CoroNumber, Len(order)} : \A y \in {CoroNumber, Len(order)} : x =< y
          <5>1. CASE CoroNumber <= Len(order)
            BY <1>0, <2>1, <5>1
          <5>2. CASE Len(order) <= CoroNumber
            BY <1>0, <2>1, <5>2
          <5> QED BY <1>0, <2>1, <5>1, <5>2
        <4> QED BY <4>1, Zenon DEF Min
      <3> QED BY <1>0, <2>1, <3>1, <3>2
    <2>3. /\ mon'.pc = "task" /\ mon'.tasks = tasks
          /\ order' = order
      BY <1>0, <1>4, <2>2 DEF Handle, Monitors
    <2> QED BY <2>2, <2>3 DEF TasksFit, TasksOK
  <1>5. CASE GetEvent
    <2>1. mon.tasks \in 1 .. Len(order) /\ Len(order') = Len(order) - 1
      BY <1>0, <1>5 DEF GetEvent, TasksFit, TasksOK
    <2>2. /\ mon'.tasks = mon.tasks - 1
          /\ mon'.pc \in {"run", "task", "polled"}
          /\ mon'.pc = "task" => mon.tasks - 1 > 0
      <3> DEFINE found == queue[Head(order)]
                 left == mon.tasks - 1
      <3>1. CASE found = NoEvent
        <4>1. mon' = [mon EXCEPT !.pc = IF left > 0 THEN "task" ELSE "polled",
                                 !.tasks = left]
          BY <1>5, <3>1 DEF GetEvent
        <4> QED BY <1>0, <4>1 DEF Monitors
      <3>2. CASE found # NoEvent
        <4>1. mon' = [mon EXCEPT !.pc = "run", !.tasks = left, !.event = found]
          BY <1>5, <3>2 DEF GetEvent
        <4> QED BY <1>0, <4>1 DEF Monitors
      <3> QED BY <3>1, <3>2
    <2>3. mon'.tasks \in 0 .. Len(order')
      BY <1>0, <2>1, <2>2
    <2> QED BY <2>1, <2>2, <2>3 DEF TasksFit, TasksOK
  <1>6. CASE RunStage
    <2>1. mon'.pc = mon.pc /\ mon'.tasks = mon.tasks /\ order' = order
      BY <1>0, <1>6 DEF RunStage, Monitors
    <2> QED BY <2>1 DEF TasksFit, TasksOK
  <1>7. CASE StageRaises \/ PutBack
    <2>1. /\ mon.tasks \in 0 .. Len(order)
          /\ mon'.tasks = mon.tasks /\ mon'.pc = AfterTask
      BY <1>0, <1>7 DEF StageRaises, PutBack, TasksFit, Monitors
    <2>2. Len(order') \in Nat /\ Len(order) <= Len(order')
      <3>1. PutBack => NameOf[mon.event] \in Names
        BY MachineAssumption DEF PutBack, CoreOK, MonitorTypeOK, Monitors, InHand
      <3>2. order' = order \/ (PutBack /\ order' = Append(order, NameOf[mon.event]))
        BY <1>7 DEF StageRaises, PutBack, ListedAgain
      <3> QED BY <1>0, <3>1, <3>2
    <2>3. mon'.pc = "polled" \/ (mon'.pc = "task" /\ mon.tasks > 0)
      BY <2>1 DEF AfterTask
    <2>4. mon.tasks \in 0 .. Len(order')
      BY <1>0, <2>1, <2>2
    <2> QED BY <2>1, <2>3, <2>4 DEF TasksFit, TasksOK
  <1>8. ASSUME UNCHANGED <<order, mon>> PROVE TasksFit'
    BY <1>1, <1>8
  <1> QED
    BY <1>2, <1>3, <1>4, <1>5, <1>6, <1>7, <1>8
    DEF Next, RegisterEvent, RegisterTimer, TimerEvent, NextBlock, vars

LEMMA NextWebsocket ==
    CoreOK /\ WebsocketTypeOK /\ Due /\ [Next]_vars => WebsocketTypeOK' /\ Due'
  <1> SUFFICES ASSUME CoreOK, WebsocketTypeOK, Due, [Next]_vars
               PROVE  WebsocketTypeOK' /\ Due'
    OBVIOUS
  <1>0. /\ height \in Nat /\ Timed \subseteq Events /\ EndBlocks \subseteq Nat
        /\ ws \in [old : 0 .. height, due : Seq(Timed)]
        /\ timers \in [EndBlocks -> Seq(Timed)]
        /\ caller \in [Events -> {"new", "timed", "registered", "triggered"}]
    BY MachineAssumption DEF CoreOK, QueueTypeOK, MonitorTypeOK, WebsocketTypeOK
  <1>1. ASSUME NEW e \in Events, RegisterEvent(e) PROVE WebsocketTypeOK' /\ Due'
    <2>1. WebsocketTypeOK'
      BY <1>1 DEF RegisterEvent, WebsocketTypeOK
    <2>2. e \in Timed => ws.due # <<>> /\ Head(ws.due) = e
      BY <1>1 DEF RegisterEvent, MayRegister
    <2>3. ASSUME NEW f \in Timed, caller'[f] = "registered"
          PROVE  ws'.due # <<>> /\ Head(ws'.due) = f
      <3>1. f = e \/ caller[f] = "registered"
        BY <1>0, <1>1, <2>3 DEF RegisterEvent
      <3>2. ws.due # <<>> /\ Head(ws.due) = f
        BY <2>2, <3>1 DEF Due
      <3> QED BY <1>1, <3>2 DEF RegisterEvent
    <2> QED BY <2>1, <2>3 DEF Due
  <1>2. ASSUME NEW e \in Events, TriggerStartEvent(e) PROVE WebsocketTypeOK' /\ Due'
    <2>1. e \in Timed => ws.due # <<>> /\ Head(ws.due) = e
      BY <1>2 DEF TriggerStartEvent, Due
    <2>2. ws' \in [old : 0 .. height, due : Seq(Timed)]
      <3>1. CASE e \in Timed
        <4>1. Tail(ws.due) \in Seq(Timed)
          BY <1>0, <2>1, <3>1
        <4> QED BY <1>0, <1>2, <3>1, <4>1 DEF TriggerStartEvent
      <3>2. CASE e \notin Timed
        BY <1>0, <1>2, <3>2 DEF TriggerStartEvent
      <3> QED BY <3>1, <3>2
    <2>3. ASSUME NEW f \in Timed, caller'[f] = "registered"
          PROVE  ws'.due # <<>> /\ Head(ws'.due) = f
      <3>1. f # e /\ caller[f] = "registered"
        BY <1>0, <1>2, <2>3 DEF TriggerStartEvent
      <3>2. ws.due # <<>> /\ Head(ws.due) = f
        BY <3>1 DEF Due
      <3>3. e \notin Timed
        BY <2>1, <3>1, <3>2
      <3> QED BY <1>2, <3>2, <3>3 DEF TriggerStartEvent
    <2> QED BY <1>2, <2>2, <2>3 DEF TriggerStartEvent, WebsocketTypeOK, Due
  <1>3. ASSUME NEW e \in Timed, NEW b \in EndBlocks, RegisterTimer(e, b)
        PROVE  WebsocketTypeOK' /\ Due'
    <2>1. timers' \in [EndBlocks -> Seq(Timed)]
      BY <1>0, <1>3 DEF RegisterTimer
    <2>2. \A f \in Timed : caller'[f] = "registered" => caller[f] = "registered"
      BY <1>0, <1>3 DEF RegisterTimer
    <2> QED BY <1>3, <2>1, <2>2 DEF RegisterTimer, WebsocketTypeOK, Due
  <1>4. CASE TimerEvent
    <2> DEFINE passed == [i \in 1 .. height - ws.old |-> DueAt(ws.old + i)]
    <2>1. height - ws.old \in Nat /\ height - ws.old # 0
      BY <1>0, <1>4 DEF TimerEvent
    <2>2. \A b : DueAt(b) \in Seq(Timed)
      <3>1. <<>> \in Seq(Timed)
        OBVIOUS
      <3>2. \A b \in EndBlocks : timers[b] \in Seq(Timed)
        BY <1>0
      <3> QED BY <3>1, <3>2, Zenon DEF DueAt
    <2>3. passed \in Seq(Seq(Timed)) /\ passed # <<>>
      BY <2>1, <2>2
    <2>4. FlattenSeq(passed) \in Seq(Timed)
      <3> HIDE DEF passed
      <3> QED BY <2>3, FlattenSeqType
    <2>5. ws' = [old |-> height, due |-> FlattenSeq(passed)] /\ height' = height
      BY <1>4 DEF TimerEvent
    <2>6. ws' \in [old : 0 .. height', due : Seq(Timed)]
      <3> HIDE DEF passed
      <3> QED BY <1>0, <2>4, <2>5
    <2>7. timers' \in [EndBlocks -> Seq(Timed)]
      BY <1>0, <1>4 DEF TimerEvent, Without
    <2>8. \A f \in Timed : caller'[f] # "registered"
      BY <1>4 DEF TimerEvent, Due
    <2> QED BY <2>6, <2>7, <2>8 DEF WebsocketTypeOK, Due
  <1>5. CASE NextBlock
    BY <1>0, <1>5 DEF NextBlock, WebsocketTypeOK, Due
  <1>6. ASSUME UNCHANGED <<caller, ws, timers, height>> PROVE WebsocketTypeOK' /\ Due'
    BY <1>6 DEF WebsocketTypeOK, Due
  <1> QED
    BY <1>1, <1>2, <1>3, <1>4, <1>5, <1>6
    DEF Next, BeginPoll, Handle, EndPoll, MonitorDies, GetEvent, RunStage, StageRaises, PutBack, vars

\* All types hold in every behaviour: the websocket hands over events that wait
\* for a block, one after the other, and handle never starts more tasks than
\* there are names to poll.
THEOREM TypeCorrect == Spec => []TypeOK
  <1>1. Init => IInv
    BY InitCore, InitRest DEF IInv
  <1>2. IInv /\ [Next]_vars => IInv'
    BY NextCore, NextTasks, NextWebsocket DEF IInv
  <1>3. IInv => TypeOK
    BY DEF IInv, CoreOK, TasksFit, TypeOK
  <1> QED BY <1>1, <1>2, <1>3, PTL DEF Spec
=============================================================================
