---------------------------- MODULE EventMachine ----------------------------
(***************************************************************************)
(* The event machine of a wallet (wallet/event/event.py): the queue that   *)
(* drives opening, closing and disputing a channel from block to block.    *)
(*                                                                         *)
(* Three kinds of threads meet in it.  Callers (message handlers, the      *)
(* websocket, the console) register an event under the name of its channel *)
(* and then trigger it, in two calls.  The monitor thread                  *)
(* (blockchain/monitor.py) polls the queue once per chain height it sees,  *)
(* runs at most CoroNumber events per call of handle, one after the other, *)
(* and puts back what is not done; an exception outside handle ends it for *)
(* good.  The websocket thread                                             *)
(* (wallet/connection/websocket.py) keeps timed events until their block.  *)
(*                                                                         *)
(* What a stage of a particular event does is its own matter: here a stage *)
(* moves on, stays (it waits for the chain), or raises.                    *)
(***************************************************************************)
EXTENDS Integers, SequencesExt

CONSTANTS
    Names,         \* channel names, the keys of the queue
    Events,        \* event objects
    NameOf,        \* NameOf[e]: the channel e is about
    Timed,         \* the events that wait for a block in the websocket thread
    NoEvent,
    MayMove,       \* the working stages that may get done
    MayRaise,      \* the stages that may raise, for a node that does not answer
    EndBlocks,     \* the blocks timed events wait for
    CoroNumber,    \* _coro_number, 8 in the code
    Timeout,       \* _event_timeout, 30 blocks in the code
    RetryTimeout,  \* what a retry adds to it, 20 blocks in the code
    LastRegister,  \* bound: no event is created above this height
    MaxSkip,       \* bound: blocks the chain grows beyond the monitor's last poll
    MaxBlock       \* bound: the height at which the chain stops

ASSUME MachineAssumption ==
    /\ NameOf \in [Events -> Names]
    /\ Timed \subseteq Events
    /\ NoEvent \notin Events
    /\ MayMove \subseteq {"prepare", "execute", "terminate"}
    /\ MayRaise \subseteq {"prepare", "execute", "terminate", "error"}
    /\ EndBlocks \subseteq Nat
    /\ {CoroNumber, Timeout, RetryTimeout, MaxSkip} \subseteq Nat \ {0}
    /\ LastRegister \in Nat
    /\ MaxBlock \in Nat

VARIABLES
    event,   \* event[e]: the stage of e, whether it was retried, its start_time
    caller,  \* caller[e]: how far the thread that creates e has come
    queue,   \* queue[n]: __event_queue, the event registered for channel n
    order,   \* __event_ordered_list, the names to poll
    mon,     \* the monitor thread
    ws,      \* the websocket thread: old_block and the events that are due
    timers,  \* timers[b]: __monitor_queue of the websocket, the events of block b
    height   \* the height of the chain

vars == <<event, caller, queue, order, mon, ws, timers, height>>

Working  == {"prepare", "execute", "terminate"}
Finished == {"complete", "error"}
Stages   == Working \cup Finished \cup {"timeout"}

\* EventBase.__init__: start_time is 0 until prepare has run.
NewEvent == [stage |-> "prepare", retry |-> FALSE, start |-> 0]

NextStage(stage) == CASE stage = "prepare"   -> "execute"
                      [] stage = "execute"   -> "terminate"
                      [] stage = "terminate" -> "complete"

\* Mutant of EventTimeout: a retry gets no blocks of its own.
EventTimeoutOnce(ev) == ev.start + Timeout

EventTimeout(ev) ==
    ev.start + Timeout + (IF ev.retry THEN RetryTimeout ELSE 0)

IsPollingFinished == mon.total >= Len(order)

Init ==
    /\ event = [e \in Events |-> NewEvent]
    /\ caller = [e \in Events |-> "new"]
    /\ queue = [n \in Names |-> NoEvent]
    /\ order = <<>>
    /\ mon = [pc |-> "asleep", height |-> 0, old |-> 0, total |-> 0,
              tasks |-> 0, event |-> NoEvent, stage |-> "init"]
    /\ height = 1
    /\ ws = [old |-> 0, due |-> <<>>]
    /\ timers = [b \in EndBlocks |-> <<>>]

-----------------------------------------------------------------------------
(* The callers.                                                            *)

\* A timed event is registered by the websocket thread when its block came.
MayRegister(e) ==
    IF e \in Timed THEN ws.due # <<>> /\ Head(ws.due) = e
                   ELSE height <= LastRegister

RegisterEvent(e) ==
    /\ caller[e] = IF e \in Timed THEN "timed" ELSE "new"
    /\ MayRegister(e)
    /\ caller' = [caller EXCEPT ![e] = "registered"]
    /\ queue' = [queue EXCEPT ![NameOf[e]] = e]
    /\ UNCHANGED <<event, order, mon, ws, timers, height>>

TriggerStartEvent(e) ==
    /\ caller[e] = "registered"
    /\ caller' = [caller EXCEPT ![e] = "triggered"]
    /\ order' = IF NameOf[e] \in Range(order) THEN order
                                              ELSE Append(order, NameOf[e])
    /\ ws' = IF e \in Timed THEN [ws EXCEPT !.due = Tail(@)] ELSE ws
    /\ UNCHANGED <<event, queue, mon, timers, height>>

-----------------------------------------------------------------------------
(* The websocket thread: one message, then every block it has not yet seen.*)
(* No message is handled in between, so those blocks are one step.         *)

\* The end block is the contract's; a notification may arrive after it.
RegisterTimer(e, block) ==
    /\ e \in Timed /\ caller[e] = "new"
    /\ ws.due = <<>> /\ height <= LastRegister
    /\ caller' = [caller EXCEPT ![e] = "timed"]
    /\ timers' = [timers EXCEPT ![block] = Append(@, e)]
    /\ UNCHANGED <<event, queue, order, mon, ws, height>>

\* The events of one block, in the order of their registration.
DueAt(block) == IF block \in EndBlocks THEN timers[block] ELSE <<>>

\* get_event pops what it finds.
Without(blocks) == [b \in EndBlocks |-> IF b \in blocks THEN <<>> ELSE timers[b]]

\* Mutant of TimerEvent: a jump over several blocks serves only the last.
TimerEventLast ==
    /\ ws.due = <<>> /\ ws.old < height
    /\ ws' = [old |-> height, due |-> DueAt(height)]
    /\ timers' = Without({height})
    /\ UNCHANGED <<event, caller, queue, order, mon, height>>

TimerEvent ==
    /\ ws.due = <<>> /\ ws.old < height
    /\ ws' = [old |-> height,
              due |-> FlattenSeq([i \in 1 .. height - ws.old |-> DueAt(ws.old + i)])]
    /\ timers' = Without(ws.old + 1 .. height)
    /\ UNCHANGED <<event, caller, queue, order, mon, height>>

-----------------------------------------------------------------------------
(* The monitor thread.                                                     *)

\* One round of monitorblock: read the height, reset_polling.
BeginPoll ==
    /\ mon.pc = "asleep"
    /\ mon' = [mon EXCEPT !.pc = "poll", !.height = height,
                          !.total = IF IsPollingFinished THEN 0 ELSE @]
    /\ UNCHANGED <<event, caller, queue, order, ws, timers, height>>

\* handle starts tasks only on a new height and for names not yet polled.
MayHandle == mon.height # mon.old /\ order # <<>> /\ ~IsPollingFinished

Handle ==
    /\ mon.pc \in {"poll", "polled"} /\ MayHandle
    /\ LET maxTask == Min({CoroNumber, Len(order)})
       IN  mon' = [mon EXCEPT !.pc = "task", !.tasks = maxTask,
                              !.total = @ + maxTask]
    /\ UNCHANGED <<event, caller, queue, order, ws, timers, height>>

\* The round ends when its 15 seconds are over, but never before one handle.
EndPoll ==
    /\ \/ mon.pc = "polled"
       \/ mon.pc = "poll" /\ ~MayHandle
    /\ mon' = [mon EXCEPT !.pc = "asleep", !.old = mon.height]
    /\ UNCHANGED <<event, caller, queue, order, ws, timers, height>>

\* The thread ends for good: get_block_count raises at the start of a round, for a
\* node that does not answer, or the last handle of a round took longer than the
\* round, and the time left, which is negative, cannot be slept.  Nobody asks then
\* what was polled.
MonitorDies ==
    /\ \/ mon.pc = "asleep"
       \/ mon.pc = "polled" /\ IsPollingFinished
    /\ mon' = [mon EXCEPT !.pc = "dead", !.old = 0, !.total = 0]
    /\ UNCHANGED <<event, caller, queue, order, ws, timers, height>>

\* Mutant of AfterTask: one task too many.
AfterTaskOneMore == IF mon.tasks >= 0 THEN "task" ELSE "polled"

AfterTask == IF mon.tasks > 0 THEN "task" ELSE "polled"

\* A name without an event is dropped: the coroutine catches the KeyError.
GetEvent ==
    /\ mon.pc = "task"
    /\ order # <<>>
    /\ LET name == Head(order)
           found == queue[name]
           left == mon.tasks - 1
       IN  /\ order' = Tail(order)
           /\ queue' = [queue EXCEPT ![name] = NoEvent]
           /\ mon' = IF found # NoEvent
                     THEN [mon EXCEPT !.pc = "run", !.tasks = left, !.event = found]
                     ELSE [mon EXCEPT !.pc = IF left > 0 THEN "task" ELSE "polled",
                                      !.tasks = left]
    /\ UNCHANGED <<event, caller, ws, timers, height>>

\* What handling the current stage may leave; prepare sets start_time once.
Started(ev) ==
    IF ev.stage = "prepare" /\ ev.start = 0
    THEN [ev EXCEPT !.start = mon.height + 1] ELSE ev

\* Mutant of TimeoutHandler: every timeout is followed by a retry.
TimeoutHandlerAgain(ev) == [ev EXCEPT !.stage = "prepare", !.retry = TRUE]

TimeoutHandler(ev) ==
    IF ev.retry THEN [ev EXCEPT !.stage = "error"]
                ELSE [ev EXCEPT !.stage = "prepare", !.retry = TRUE]

Outcomes(ev) ==
    CASE ev.stage \in Working ->
             {Started(ev)} \cup
             {[Started(ev) EXCEPT !.stage = NextStage(@)] : s \in {ev.stage} \cap MayMove}
      [] ev.stage \in Finished -> {ev}
      [] ev.stage = "timeout" -> {TimeoutHandler(ev)}

StageIsChanged == event[mon.event].stage # mon.stage

\* One turn of the loop "while current_event.stage_is_changed(old_stage)".
RunStage ==
    /\ mon.pc = "run" /\ StageIsChanged
    /\ \E ev \in Outcomes(event[mon.event]) :
           event' = [event EXCEPT ![mon.event] = ev]
    /\ mon' = [mon EXCEPT !.stage = event[mon.event].stage]
    /\ UNCHANGED <<caller, queue, order, ws, timers, height>>

\* A node that does not answer: the exception ends the coroutine.
StageRaises ==
    /\ mon.pc = "run" /\ StageIsChanged
    /\ event[mon.event].stage \in MayRaise
    /\ event' = [event EXCEPT ![mon.event] = Started(@)]
    /\ mon' = [mon EXCEPT !.pc = AfterTask, !.event = NoEvent, !.stage = "init"]
    /\ UNCHANGED <<caller, queue, order, ws, timers, height>>

\* Mutant of GoesBack: has_event is not asked.
GoesBackAnyway(e) == event[e].stage \notin Finished

\* Whether insert_event_back_into_queue is called, and finds the name free.
GoesBack(e) == event[e].stage \notin Finished /\ queue[NameOf[e]] = NoEvent

\* Mutant of ListedAgain: only the dictionary is updated.
NotListedAgain(e) == order

ListedAgain(e) == IF GoesBack(e) THEN Append(order, NameOf[e]) ELSE order

\* The event goes back first; then the timeout is checked, done or not.
PutBack ==
    /\ mon.pc = "run" /\ ~StageIsChanged
    /\ LET e == mon.event
       IN  /\ queue' = IF GoesBack(e) THEN [queue EXCEPT ![NameOf[e]] = e] ELSE queue
           /\ order' = ListedAgain(e)
           /\ event' = IF mon.height > EventTimeout(event[e])
                       THEN [event EXCEPT ![e].stage = "timeout"] ELSE event
    /\ mon' = [mon EXCEPT !.pc = AfterTask, !.event = NoEvent, !.stage = "init"]
    /\ UNCHANGED <<caller, ws, timers, height>>

-----------------------------------------------------------------------------

NextBlock ==
    /\ height < MaxBlock /\ height < mon.height + MaxSkip
    /\ height' = height + 1
    /\ UNCHANGED <<event, caller, queue, order, mon, ws, timers>>

Monitor ==   BeginPoll \/ Handle \/ EndPoll \/ GetEvent \/ RunStage
             \/ StageRaises \/ PutBack
Websocket == TimerEvent \/ \E e \in Timed : RegisterEvent(e)

Next ==
    \/ \E e \in Events : RegisterEvent(e) \/ TriggerStartEvent(e)
    \/ \E e \in Timed, block \in EndBlocks : RegisterTimer(e, block)
    \/ TimerEvent
    \/ BeginPoll \/ Handle \/ EndPoll \/ MonitorDies \/ GetEvent
    \/ RunStage \/ StageRaises \/ PutBack
    \/ NextBlock

Spec == Init /\ [][Next]_vars

\* Threads run as long as they live, and the chain grows until its bound.  Nothing
\* makes a stage move on: what it waits for may never come.
FairSpec ==
    /\ Spec
    /\ WF_vars(Monitor) /\ WF_vars(Websocket) /\ WF_vars(NextBlock)
    /\ \A e \in Events : WF_vars(TriggerStartEvent(e))
-----------------------------------------------------------------------------

QueueTypeOK ==
    /\ event \in [Events -> [stage : Stages, retry : BOOLEAN, start : Nat]]
    /\ caller \in [Events -> {"new", "timed", "registered", "triggered"}]
    /\ queue \in [Names -> Events \cup {NoEvent}]
    /\ \A n \in Names : queue[n] # NoEvent => NameOf[queue[n]] = n
    /\ order \in Seq(Names)

Monitors == [pc : {"asleep", "poll", "polled", "task", "run", "dead"},
             height : Nat, old : Nat, total : Nat, tasks : Int,
             event : Events \cup {NoEvent}, stage : Stages \cup {"init"}]

\* The monitor has an event in hand exactly while it runs one.
InHand == mon.pc = "run" <=> mon.event # NoEvent

MonitorTypeOK ==
    /\ mon \in Monitors
    /\ InHand
    /\ height \in Nat
    /\ mon.height <= height

\* handle starts no more tasks than there are names.
TasksOK == mon.pc = "task" => mon.tasks \in 1 .. Len(order)

WebsocketTypeOK ==
    /\ ws \in [old : 0 .. height, due : Seq(Timed)]
    /\ timers \in [EndBlocks -> Seq(Timed)]

TypeOK == QueueTypeOK /\ MonitorTypeOK /\ TasksOK /\ WebsocketTypeOK

\* The machine holds e: it is queued or being run.
Held(e) == queue[NameOf[e]] = e \/ mon.event = e

\* An event whose caller is done with it is polled again: its name is in the
\* list, however its registration met a running event of the same channel.
TriggeredIsOrdered ==
    \A e \in Events :
        caller[e] = "triggered" /\ queue[NameOf[e]] = e => NameOf[e] \in Range(order)

\* An event fails only after its retry, and after the blocks of both attempts.
FailsLate ==
    \A e \in Events :
        event[e].stage = "error" =>
            /\ event[e].retry
            /\ mon.height > event[e].start + Timeout + RetryTimeout

\* The machine lets go of an event only when it ended, when its stage raised,
\* or when a younger event of the channel was registered; putting an event
\* back never displaces a younger one.
LeavesEnded ==
    [][\A e \in Events : Held(e) /\ ~Held(e)' =>
          \/ mon.event = e /\ (event[e].stage \in Finished \/ queue[NameOf[e]] # NoEvent)
          \/ StageRaises
          \/ \E f \in Events : RegisterEvent(f) /\ NameOf[f] = NameOf[e]]_vars

\* As long as the monitor thread lives, every triggered event leaves the machine in
\* the end: no channel starves behind others, and an event whose chain never answers
\* ends in the error stage.  When the thread dies (monitorblock), nothing polls the
\* events any more.  The chain stops at MaxBlock, so this is asked of events
\* triggered early enough to see two timeouts.
EventEnds ==
    \A e \in Events :
        caller[e] = "triggered" /\ height <= LastRegister
            ~> ~Held(e) \/ mon.pc = "dead"

\* A timed event whose block the websocket thread has still to pass is handed
\* to the machine, also when several blocks are passed at once.
TimerFires ==
    \A e \in Timed :
        (\E b \in EndBlocks : b > ws.old /\ e \in Range(timers[b]))
            ~> caller[e] = "triggered"
=============================================================================
