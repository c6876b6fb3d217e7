--------------------------- MODULE WalletSession ---------------------------
(***************************************************************************)
(* The life of a wallet process: the console opens, creates, closes and    *)
(* locks wallets and ends the process, while three other threads work with *)
(* whatever wallet they were last given: the block monitor counts the      *)
(* blocks of the wallet, the websocket thread keeps the node informed of   *)
(* its address, and the reactor keeps the gateway informed of it.  Each    *)
(* keeps a reference of its own to the wallet object.                      *)
(*                                                                         *)
(* The node may refuse a connection or an answer, connections break, the   *)
(* gateway restarts and the process may be killed; env says which of these *)
(* a behaviour may meet, and how often.                                    *)
(***************************************************************************)
EXTENDS Integers, Sequences, FiniteSets

CONSTANTS
    Paths,          \* the wallet files
    NoFile, Torn,   \* no such file; a file cut off while it was written
    Far, Recent,    \* 2010 and 2000 in monitorblock
    FirstBlock, MaxBlock,
    AnyPath,        \* what job.path is between two commands
    MaxObjects,     \* wallets opened or created between two starts
    Environments

ASSUME SessionAssumption ==
    /\ FirstBlock \in Nat /\ MaxBlock \in Nat /\ 1 < FirstBlock /\ FirstBlock <= MaxBlock
    /\ MaxObjects \in Nat
    /\ Far \in Nat /\ Recent \in Nat /\ Recent < Far
    /\ AnyPath \in Paths
    /\ NoFile \notin Int /\ Torn \notin Int /\ NoFile # Torn

VARIABLES
    chain,     \* the height of the chain
    files,     \* files[p]: the BlockHeight stored under p
    objects,   \* the wallet objects made so far, the last one last
    ui,        \* the prompt: Wallet, Channel, locked and go_on
    job,       \* the command the console thread is at
    live,      \* CurrentLiveWallet.Wallet
    mon,       \* the class EventMonitor
    poll,      \* the monitor thread: the locals of monitorblock
    ws,        \* ws_instance and its thread
    redial,    \* redial[t]: how far thread t is with reconnect
    gw,        \* the gateway, and the connection to it
    reactor,   \* the reactor thread
    talk,      \* handlemaessage runs
    left,      \* faults left
    env        \* the environment of this behaviour, fixed by Init

prompt == <<ui, job>>
monitor == <<mon, poll>>
websocket == <<ws, redial>>
gateway == <<gw, reactor>>
system == <<chain, files, objects, prompt, live, monitor, websocket, gateway, talk, left>>
vars == <<system, env>>

-----------------------------------------------------------------------------
NoWallet == 0           \* references to objects are their places
Unset == -1             \* the object has no attribute BlockHeight yet
Height == {Unset} \cup 0 .. MaxBlock     \* 0: nothing is stored
Threads == {"console", "ws"}

PathOf(o) == objects[o].path

\* What the console is at: the command, its file, the value it writes there,
\* and what follows the writing.
Job == [pc : {"idle", "save", "write", "leave", "make", "load", "init", "record",
              "start", "notify", "enable", "deafen", "unwatch", "stop", "ended"},
        task : {"none", "open", "create", "close", "quit"},
        path : Paths, saved : Height, next : {"leave", "start"}]
NoJob == [pc |-> "idle", task |-> "none", path |-> AnyPath, saved |-> 0, next |-> "leave"]

\* old_blockheight, blockheight, block_delta, need_update, trigger_per_block.
Round == [pc : {"round", "tick", "ended", "dead"}, target : 0 .. MaxBlock, height : 1 .. MaxBlock + 1,
          gap : {"none", "near", "far"}, update : BOOLEAN, jumped : BOOLEAN]
NewRound == [pc |-> "round", target |-> 0, height |-> 1, gap |-> "none",
             update |-> FALSE, jumped |-> FALSE]

TypeOK ==
    /\ chain \in FirstBlock .. MaxBlock
    /\ files \in [Paths -> Height \cup {NoFile, Torn}]
    /\ objects \in Seq([path : Paths, height : Height, hash : {"digest", "hex"}, url : BOOLEAN])
    /\ ui \in [wallet : 0 .. Len(objects), channel : BOOLEAN, locked : BOOLEAN, goOn : BOOLEAN]
    /\ job \in Job /\ live \in 0 .. Len(objects)
    /\ mon \in [wallet : 0 .. Len(objects), change : BOOLEAN, goOn : BOOLEAN]
    /\ poll \in Round
    /\ ws.pc \in {"start", "check", "receive", "ended", "dead"}
    /\ ws.conn \in {"none", "up", "dead"} /\ ws.told \subseteq Paths
    /\ redial \in [Threads -> {"no", "close", "connect", "notify", "done"}]
    /\ gw.wallet \subseteq Paths
    /\ reactor.pc \in {"run", "join", "ended"} /\ reactor.wallet \in 0 .. Len(objects)
    /\ talk \in BOOLEAN
    /\ left \in Nat
    /\ env \in Environments

\* main, before a wallet is opened: ws_instance has connected or not, and so
\* has the reactor.
NewPrompt == [wallet |-> NoWallet, channel |-> FALSE, locked |-> FALSE, goOn |-> TRUE]
NewMonitor == [wallet |-> NoWallet, change |-> FALSE, goOn |-> TRUE]
NewWebsocket == [pc : {"start"}, wallet : {NoWallet}, conn : env.connected, told : {{}},
                 listening : {TRUE}]
NewReactor == [pc |-> "run", wallet |-> NoWallet]
NotDialing == [t \in Threads |-> "no"]

Init ==
    /\ env \in Environments
    /\ chain = FirstBlock /\ files = env.files
    /\ objects = <<>> /\ live = NoWallet
    /\ ui = NewPrompt /\ job = NoJob
    /\ mon = NewMonitor /\ poll = NewRound
    /\ ws \in NewWebsocket /\ redial = NotDialing
    /\ reactor = NewReactor /\ talk = TRUE
    /\ gw = [up |-> TRUE, tcp |-> TRUE, wallet |-> {}]
    /\ left = env.maxFaults

Fault(f) == f \in env.faults /\ left > 0 /\ left' = left - 1

-----------------------------------------------------------------------------
(* The websocket.                                                          *)

\* notify_wallet_info
Tell(w) == [ws EXCEPT !.told = @ \cup {PathOf(w)}]

\* event_init_wallet, and notify_wallet_info with the wallet of the console
Announce == IF ws.conn = "up" THEN Tell(ui.wallet) ELSE ws

Disconnected == [ws EXCEPT !.conn = "none", !.told = {}]

StopWebsocket == [Disconnected EXCEPT !.listening = FALSE]

SetWallet == [ws EXCEPT !.wallet = ui.wallet]

\* Mutant of Connected: the wallet is not told.
ConnectedOnly == "done"

\* create_client(True) ends with the notification.
Connected == "notify"

\* reconnect: the old connection is closed, a new one opened in up to five
\* tries, and a wallet that is set is told to the node.  No lock covers it:
\* both threads may be in it.
CloseConnection(t) ==
    /\ redial[t] = "close"
    /\ ws' = Disconnected
    /\ redial' = [redial EXCEPT ![t] = "connect"]
    /\ UNCHANGED left

CreateClient(t) ==
    /\ redial[t] = "connect"
    /\ \/ /\ ws' = [ws EXCEPT !.conn = "up", !.told = {}]
          /\ redial' = [redial EXCEPT ![t] = Connected]
          /\ UNCHANGED left
       \/ /\ Fault("refuse")
          /\ \E next \in IF ws.conn = "none" THEN {"connect", "done"} ELSE {"done"} :
                redial' = [redial EXCEPT ![t] = next]
          /\ UNCHANGED ws

\* A send on a dead connection reconnects in turn; on none it is swallowed.
NotifyAgain(t) ==
    /\ redial[t] = "notify"
    /\ IF ws.wallet # NoWallet /\ ws.conn = "dead"
       THEN redial' = [redial EXCEPT ![t] = "close"] /\ UNCHANGED ws
       ELSE /\ ws' = IF ws.wallet # NoWallet /\ ws.conn = "up" THEN Tell(ws.wallet) ELSE ws
            /\ redial' = [redial EXCEPT ![t] = IF ws.conn = "none" THEN "connect" ELSE "done"]
    /\ UNCHANGED left

Reconnect(t) ==
    /\ CloseConnection(t) \/ CreateClient(t) \/ NotifyAgain(t)
    /\ UNCHANGED <<chain, files, objects, prompt, live, monitor, gateway, talk>>

\* The console sends the address of its wallet and goes on with next.  When the
\* connection is dead again after the reconnection, send raises, and it goes on
\* with raised.
ConsoleSends(next, raised) ==
    /\ redial["console"] \in {"no", "done"}
    /\ IF ws.conn # "dead"
       THEN /\ ws' = Announce
            /\ redial' = [redial EXCEPT !["console"] = "no"]
            /\ next
       ELSE IF redial["console"] = "no"
       THEN /\ redial' = [redial EXCEPT !["console"] = "close"]
            /\ UNCHANGED <<ws, job, live, objects>>
       ELSE /\ redial' = [redial EXCEPT !["console"] = "no"]
            /\ raised
            /\ UNCHANGED ws

\* handle: the first block count is asked for outside of any try.
BeginHandle ==
    /\ ws.pc = "start"
    /\ \/ ws' = [ws EXCEPT !.pc = "check"] /\ UNCHANGED left
       \/ Fault("node") /\ ws' = [ws EXCEPT !.pc = "dead"]
    /\ UNCHANGED redial

CheckListening ==
    /\ ws.pc = "check"
    /\ ws' = [ws EXCEPT !.pc = IF ws.listening THEN "receive" ELSE "ended"]
    /\ UNCHANGED <<redial, left>>

\* receive: a connection that is closed, or none, is opened again.
Receive ==
    /\ ws.pc = "receive" /\ redial["ws"] \in {"no", "done"}
    /\ IF ws.conn = "up" \/ redial["ws"] = "done"
       THEN ws' = [ws EXCEPT !.pc = "check"] /\ redial' = [redial EXCEPT !["ws"] = "no"]
       ELSE redial' = [redial EXCEPT !["ws"] = "close"] /\ UNCHANGED ws
    /\ UNCHANGED left

WebsocketThread ==
    /\ BeginHandle \/ CheckListening \/ Receive
    /\ UNCHANGED <<chain, files, objects, prompt, live, monitor, gateway, talk>>

-----------------------------------------------------------------------------
(* The console.                                                            *)

Goto(pc) == job' = [job EXCEPT !.pc = pc]
Idle == job' = NoJob

\* Where a command goes on once no wallet is open.
Closed(task, p) ==
    CASE task = "close" -> NoJob
      [] task = "open" -> [NoJob EXCEPT !.pc = "load", !.task = task, !.path = p]
      [] task = "create" -> [NoJob EXCEPT !.pc = "make", !.task = task, !.path = p]
      [] task = "quit" -> [NoJob EXCEPT !.pc = "stop", !.task = task]

\* All four commands start with do_close_wallet.
Start(task, p) ==
    job' = IF ui.wallet = NoWallet THEN Closed(task, p)
           ELSE [NoJob EXCEPT !.pc = "save", !.task = task, !.path = p]

\* run: the next line is read.
AtPrompt == job.pc = "idle" /\ ui.goOn

\* wallet_opened
WalletOpened == ui.wallet # NoWallet

Command(task, p) ==
    /\ AtPrompt /\ ~ui.locked /\ task \in env.commands
    /\ IF task = "close" THEN WalletOpened /\ p = AnyPath ELSE Len(objects) < MaxObjects
    /\ Start(task, p)
    /\ UNCHANGED <<chain, files, objects, ui, live, monitor, websocket, gateway, talk, left>>

\* Mutant of StopMonitor: the monitor goes on.
KeepMonitor == mon

StopMonitor == [mon EXCEPT !.goOn = FALSE]

\* quit, also by Ctrl-D, which a locked console takes: it stops the loops of the
\* other threads one after the other, and closes the wallet.
Quit ==
    /\ AtPrompt /\ "quit" \in env.commands
    /\ ui' = [ui EXCEPT !.goOn = FALSE]
    /\ job' = [NoJob EXCEPT !.pc = "deafen", !.task = "quit"]
    /\ UNCHANGED <<chain, files, objects, live, monitor, websocket, gateway, talk, left>>

QuitWebsocket ==
    /\ job.pc = "deafen"
    /\ ws' = StopWebsocket
    /\ Goto("unwatch")
    /\ UNCHANGED <<chain, files, objects, ui, live, monitor, redial, gateway, talk, left>>

QuitMonitor ==
    /\ job.pc = "unwatch"
    /\ mon' = StopMonitor
    /\ Start("quit", AnyPath)
    /\ UNCHANGED <<chain, files, objects, ui, live, poll, websocket, gateway, talk, left>>

\* SaveStoredData reads the file, empties it and writes it.  A wallet without
\* a height raises, and the command ends here.
Save ==
    /\ job.pc = "save"
    /\ IF objects[ui.wallet].height = Unset
       THEN (IF ui.goOn THEN Idle ELSE Goto("ended")) /\ UNCHANGED files
       ELSE /\ files' = [files EXCEPT ![PathOf(ui.wallet)] = Torn]
            /\ job' = [job EXCEPT !.pc = "write", !.saved = objects[ui.wallet].height]
    /\ UNCHANGED <<chain, objects, ui, live, monitor, websocket, gateway, talk, left>>

\* do_create saves its first height in the same way, and goes on.
Write ==
    /\ job.pc = "write"
    /\ files' = [files EXCEPT ![PathOf(ui.wallet)] = job.saved]
    /\ job' = [job EXCEPT !.pc = job.next, !.saved = 0]
    /\ UNCHANGED <<chain, objects, ui, live, monitor, websocket, gateway, talk, left>>

\* close_wallet of the gateway names the process, not the wallet; a gateway out
\* of reach is passed over.
Forget == IF gw.up THEN [gw EXCEPT !.wallet = {}] ELSE gw

\* Channel, live, mon.wallet and ws.wallet stay as they are.
Leave ==
    /\ job.pc = "leave"
    /\ gw' = Forget
    /\ ui' = [ui EXCEPT !.wallet = NoWallet]
    /\ job' = Closed(job.task, job.path)
    /\ UNCHANGED <<chain, files, objects, live, monitor, websocket, reactor, talk, left>>

NewObject(hash) == [path |-> job.path, height |-> Unset, hash |-> hash, url |-> FALSE]

\* Wallet.Open and Wallet.Create give objects without a height; the file Create
\* writes has none either.
Opened == Append(objects, NewObject("digest"))
Created == Append(objects, NewObject("hex"))
CreatedFile == [files EXCEPT ![job.path] = 0]

\* fromJsonFile
Readable(f) == f \in Height

\* The file may be missing or cut off, the password wrong.
Load ==
    /\ job.pc = "load"
    /\ \/ Idle /\ UNCHANGED <<objects, ui>>
       \/ /\ Readable(files[job.path])
          /\ objects' = Opened
          /\ ui' = [ui EXCEPT !.wallet = Len(objects) + 1]
          /\ Goto("init")
    /\ UNCHANGED <<chain, files, live, monitor, websocket, gateway, talk, left>>

\* LoadStoredData
Stored == files[job.path]

\* do_open: event_init_wallet, then the height of the file.
InitWallet ==
    /\ job.pc = "init"
    /\ ConsoleSends(/\ live' = ui.wallet
                    /\ objects' = [objects EXCEPT ![ui.wallet].height = Stored]
                    /\ Goto("start"),
                    Idle /\ UNCHANGED <<live, objects>>)
    /\ UNCHANGED <<chain, files, ui, monitor, gateway, talk, left>>

\* do_create of the light wallet: the new file is removed again when the
\* balances cannot be read.
Make ==
    /\ job.pc = "make"
    /\ \/ files[job.path] # NoFile /\ Idle /\ UNCHANGED <<files, objects, ui, left>>
       \/ files[job.path] = NoFile /\ Fault("node") /\ Idle /\ UNCHANGED <<files, objects, ui>>
       \/ /\ files[job.path] = NoFile
          /\ files' = CreatedFile
          /\ objects' = Created
          /\ ui' = [ui EXCEPT !.wallet = Len(objects) + 1]
          /\ Goto("record")
          /\ UNCHANGED left
    /\ UNCHANGED <<chain, live, monitor, websocket, gateway, talk>>

\* do_create: the height of the chain.
Record ==
    /\ job.pc = "record"
    /\ live' = ui.wallet
    /\ \/ Fault("node") /\ Idle /\ UNCHANGED objects
       \/ /\ objects' = [objects EXCEPT ![ui.wallet].height = chain]
          /\ job' = [job EXCEPT !.pc = "save", !.next = "start"]
          /\ UNCHANGED left
    /\ UNCHANGED <<chain, files, ui, monitor, websocket, gateway, talk>>

StartMonitor ==
    /\ job.pc = "start"
    /\ mon' = [mon EXCEPT !.wallet = ui.wallet, !.change = TRUE]
    /\ ws' = SetWallet
    /\ Goto("notify")
    /\ UNCHANGED <<chain, files, objects, ui, live, poll, redial, gateway, talk, left>>

\* The second half of start_monitor; what it raises is caught there.
Notify ==
    /\ job.pc = "notify"
    /\ LET goOn == Goto("enable") /\ UNCHANGED <<live, objects>> IN ConsoleSends(goOn, goOn)
    /\ UNCHANGED <<chain, files, ui, monitor, gateway, talk, left>>

\* join_gateway
JoinGateway(w) == gw.up /\ gw' = [gw EXCEPT !.wallet = {PathOf(w)}]

\* enable_channel: Url and Channel.
Enable ==
    /\ JoinGateway(ui.wallet)
    /\ objects' = [objects EXCEPT ![ui.wallet].url = TRUE]
    /\ ui' = [ui EXCEPT !.channel = TRUE]
    /\ Idle
    /\ UNCHANGED reactor

\* retry_channel_enable gives up after thirty tries, or raises when the node
\* does not tell the balances join_gateway sends.
RetryEnable ==
    /\ job.pc = "enable"
    /\ \/ Enable /\ UNCHANGED left
       \/ ~gw.up /\ Idle /\ UNCHANGED <<gateway, objects, ui, left>>
       \/ Fault("node") /\ Idle /\ UNCHANGED <<gateway, objects, ui>>
    /\ UNCHANGED <<chain, files, live, monitor, websocket, talk>>

ChannelEnable ==
    /\ AtPrompt /\ ~ui.locked /\ WalletOpened /\ "enable" \in env.commands
    /\ Enable
    /\ UNCHANGED <<chain, files, live, monitor, websocket, talk, left>>

Lock ==
    /\ AtPrompt /\ ~ui.locked /\ WalletOpened /\ "lock" \in env.commands
    /\ ui' = [ui EXCEPT !.locked = TRUE]
    /\ UNCHANGED <<chain, files, objects, job, live, monitor, websocket, gateway, talk, left>>

\* ValidatePassword compares with a digest: a wallet made by Create holds its
\* hexadecimal form, which no password equals.
PasswordFits(o) == objects[o].hash = "digest"

Unlock ==
    /\ AtPrompt /\ ui.locked /\ PasswordFits(ui.wallet)
    /\ ui' = [ui EXCEPT !.locked = FALSE]
    /\ UNCHANGED <<chain, files, objects, job, live, monitor, websocket, gateway, talk, left>>

\* The end of quit.  reactor.stop, called from the console's thread, is taken to
\* stop the reactor at once.
Stop ==
    /\ job.pc = "stop"
    /\ live' = NoWallet
    /\ reactor' = [reactor EXCEPT !.pc = "ended"]
    /\ Goto("ended")
    /\ UNCHANGED <<chain, files, objects, ui, monitor, websocket, gw, talk, left>>

ConsoleThread ==
    \/ Save \/ Write \/ Leave \/ Load \/ InitWallet \/ Make \/ Record
    \/ StartMonitor \/ Notify \/ RetryEnable
    \/ QuitWebsocket \/ QuitMonitor \/ Stop

\* handlemaessage asks go_on between two messages.
MessageThread ==
    /\ talk /\ ~ui.goOn
    /\ talk' = FALSE
    /\ UNCHANGED <<chain, files, objects, prompt, live, monitor, websocket, gateway, left>>

-----------------------------------------------------------------------------
(* The block monitor.                                                      *)

\* get_wallet_block_height: nothing stored counts as one.
WalletHeight ==
    IF mon.wallet = NoWallet \/ objects[mon.wallet].height = 0 THEN 1
    ELSE objects[mon.wallet].height

\* get_bottom_toolbar, drawn while the prompt waits, reads the wallet's height,
\* which clears Wallet_Change.
Toolbar ==
    /\ AtPrompt /\ mon.wallet # NoWallet /\ mon.change
    /\ mon' = [mon EXCEPT !.change = FALSE]
    /\ UNCHANGED <<chain, files, objects, prompt, live, poll, websocket, gateway, talk, left>>

\* Mutant of Gap: a wallet far behind is left as it is.
GapNear(height) == IF height # 1 /\ height < chain /\ chain - height < Far THEN "near" ELSE "none"

\* block_delta, as monitorblock tells its values apart.
Gap(height) ==
    CASE height = 1 \/ chain <= height -> "none"
      [] height # 1 /\ height < chain /\ chain - height < Far -> "near"
      [] OTHER -> "far"

\* The block count is asked for outside of any try: a node that does not
\* answer ends the thread.
BeginRound ==
    /\ poll.pc = "round"
    /\ \/ ~mon.goOn /\ poll' = [poll EXCEPT !.pc = "ended"] /\ UNCHANGED <<mon, left>>
       \/ mon.goOn /\ Fault("node") /\ poll' = [poll EXCEPT !.pc = "dead"] /\ UNCHANGED mon
       \/ /\ mon.goOn
          /\ poll' = [pc |-> "tick", target |-> chain, height |-> WalletHeight,
                      gap |-> Gap(WalletHeight), update |-> Gap(WalletHeight) # "none",
                      jumped |-> FALSE]
          /\ mon' = [mon EXCEPT !.change = FALSE]
          /\ UNCHANGED left
    /\ UNCHANGED <<chain, files, objects, prompt, live, websocket, gateway, talk>>

\* update_wallet_block_height: the wallet of now gets the count that was begun
\* with the wallet of then; the first update after a change is left out.
UpdateHeight(height) ==
    /\ mon' = [mon EXCEPT !.change = FALSE]
    /\ objects' = IF mon.change \/ mon.wallet = NoWallet THEN objects
                  ELSE [objects EXCEPT ![mon.wallet].height = height]

\* One turn of the inner loop.  Past the target the count goes on and no longer
\* matters.  The round ends when its fifteen seconds are over; when a node that
\* answers late made its events overrun them, the sleep raises.
Tick ==
    /\ poll.pc = "tick"
    /\ LET jump == poll.gap = "far" /\ poll.update
           next == CASE poll.gap = "near" /\ poll.height <= poll.target -> poll.height + 1
                     [] jump -> poll.target - Recent
                     [] OTHER -> poll.height
           update == poll.update /\ ~jump /\ next <= poll.target
       IN  /\ IF update \/ poll.jumped \/ jump THEN UpdateHeight(next) ELSE UNCHANGED <<mon, objects>>
           /\ \/ /\ poll' \in {NewRound, [poll EXCEPT !.height = next, !.update = update,
                                                      !.jumped = @ \/ jump]}
                 /\ UNCHANGED left
              \/ ~update /\ Fault("node") /\ poll' = [poll EXCEPT !.pc = "dead"]
    /\ UNCHANGED <<chain, files, prompt, live, websocket, gateway, talk>>

MonitorThread == BeginRound \/ Tick

-----------------------------------------------------------------------------
(* The gateway, and the reactor's connection to it.                        *)

\* Mutant of Joining: a new connection does not join.
JoiningNot == "run"

Joining == IF live = NoWallet THEN "run" ELSE "join"

\* clientConnectionLost and clientConnectionFailed connect again.
MayConnect == reactor.pc = "run" /\ gw.up /\ ~gw.tcp

\* connectionMade: the wallet is looked up, and joined after its balances have
\* been read.
TcpConnect ==
    /\ MayConnect
    /\ gw' = [gw EXCEPT !.tcp = TRUE]
    /\ reactor' = [pc |-> Joining, wallet |-> live]
    /\ UNCHANGED <<chain, files, objects, prompt, live, monitor, websocket, talk, left>>

Join ==
    /\ reactor.pc = "join"
    /\ JoinGateway(reactor.wallet) \/ (~gw.up /\ UNCHANGED gw)
    /\ reactor' = NewReactor
    /\ UNCHANGED <<chain, files, objects, prompt, live, monitor, websocket, talk, left>>

ReactorThread == TcpConnect \/ Join

GatewayStops ==
    /\ gw.up /\ Fault("gateway")
    /\ gw' = [up |-> FALSE, tcp |-> FALSE, wallet |-> {}]
    /\ UNCHANGED <<chain, files, objects, prompt, live, monitor, websocket, reactor, talk>>

GatewayStarts ==
    /\ ~gw.up
    /\ gw' = [gw EXCEPT !.up = TRUE]
    /\ UNCHANGED <<chain, files, objects, prompt, live, monitor, websocket, reactor, talk, left>>

ConnectionBreaks ==
    /\ ws.conn = "up" /\ Fault("drop")
    /\ ws' = [ws EXCEPT !.conn = "dead", !.told = {}]
    /\ UNCHANGED <<chain, files, objects, prompt, live, monitor, redial, gateway, talk>>

NextBlock ==
    /\ chain < env.lastBlock
    /\ chain' = chain + 1
    /\ UNCHANGED <<files, objects, prompt, live, monitor, websocket, gateway, talk, left>>

\* The process is killed and started again.
Restart ==
    /\ Fault("kill")
    /\ objects' = <<>> /\ live' = NoWallet
    /\ ui' = NewPrompt /\ job' = NoJob
    /\ mon' = NewMonitor /\ poll' = NewRound
    /\ ws' \in NewWebsocket /\ redial' = NotDialing
    /\ reactor' = NewReactor /\ talk' = TRUE
    /\ gw' = [gw EXCEPT !.tcp = FALSE]
    /\ UNCHANGED <<chain, files>>

-----------------------------------------------------------------------------
Next ==
    /\ UNCHANGED env
    /\ \/ \E task \in {"open", "create", "close"}, p \in Paths : Command(task, p)
       \/ Quit \/ ChannelEnable \/ Lock \/ Unlock \/ Toolbar
       \/ ConsoleThread \/ MessageThread \/ MonitorThread \/ WebsocketThread
       \/ \E t \in Threads : Reconnect(t)
       \/ ReactorThread
       \/ GatewayStops \/ GatewayStarts \/ ConnectionBreaks \/ NextBlock \/ Restart

\* The threads run; what the user types is up to the user.
Fairness ==
    /\ WF_system(ConsoleThread) /\ WF_system(MessageThread) /\ WF_system(MonitorThread)
    /\ WF_system(WebsocketThread) /\ WF_system(ReactorThread)
    /\ \A t \in Threads : WF_system(Reconnect(t))

Spec == Init /\ [][Next]_vars

FairSpec == Spec /\ Fairness

-----------------------------------------------------------------------------
(* Properties.                                                             *)

IsOpen(o) == ui.goOn /\ ui.wallet = o

\* However the connection breaks, and whichever threads open it again at the
\* same time, the node hears of the wallet that is open, on the connection the
\* process listens to; otherwise no close of a channel would be reported.
NodeKnows ==
    \A o \in 1 .. MaxObjects :
        IsOpen(o) /\ ws.wallet = o
            ~> \/ ~IsOpen(o) \/ ws.pc = "dead"
               \/ ws.conn = "up" /\ PathOf(o) \in ws.told

\* As long as one wallet is used, a gateway that starts again learns of it.
GatewayKnows ==
    \A o \in 1 .. MaxObjects :
        IsOpen(o) /\ objects[o].url /\ (\A i \in DOMAIN objects : PathOf(i) = PathOf(o))
            ~> ~gw.up \/ ~IsOpen(o) \/ gw.wallet = {PathOf(o)}

\* The wallet the monitor counts for reaches the height of the chain, also
\* when it was given the count of another one.
CatchesUp ==
    \A o \in 1 .. MaxObjects :
        mon.wallet = o /\ WalletHeight > 1
            ~> \/ mon.wallet # o \/ poll.pc \in {"ended", "dead"}
               \/ objects[o].height = chain

\* An open or create that failed half way: the wallet has no height.
HalfOpen == ui.wallet # NoWallet /\ objects[ui.wallet].height = Unset

Ended ==
    /\ job.pc = "ended" /\ reactor.pc = "ended" /\ ~talk
    /\ poll.pc \in {"ended", "dead"} /\ ws.pc \in {"ended", "dead"}

\* quit ends all threads, whatever they are at, unless the wallet is half open.
QuitEnds == ~ui.goOn /\ ~HalfOpen ~> Ended \/ ui.goOn
=============================================================================
