---------------------------- MODULE OwnedSocket ----------------------------
(* The Classic sockets of macOS and WinRT                                  *)
(* (transport/bluetooth/adapters/macos_iobluetooth.py, windows_winrt.py):  *)
(* every native call is made by one thread, which takes commands from      *)
(* other threads and runs the callback of the receiver in between.  A      *)
(* caller of stop_receive and close waits for two seconds; its command     *)
(* stays behind and runs when the owner comes to it.                       *)
EXTENDS Naturals, Sequences

CONSTANTS
  OsCalls,       \* calls of both callers (bound)
  OsFrames,      \* what the printer sends (bound)
  OsTrouble      \* native failures, hangs and late threads (bound)

VARIABLES
  osKind,        \* "mac" or "winrt"
  osThread,      \* the owner: "none", "starting", "alive" or "dead"
  osState,       \* [stopping, broken, hung] of the owner
  osQueue,       \* commands: [op, by, n]
  osWaits,       \* winrt: cleanups that wait for the read task they cancelled
  osOpen,        \* how many native objects are open; opened and closed in order
  osReader,      \* [own, native, flag]: the receiver known, the one installed, its event
  osEnabled,     \* receivers whose event is set
  osNext,        \* receivers so far
  osIn,          \* the receiver whose callback runs, or 0
  osDirect,      \* winrt: a direct recv is under way
  osCall,        \* [caller -> [op, at, n]]
  osOver,        \* receivers a stop or close that returned well has ended
  osLeft         \* [calls, frames, trouble] left

osVars == <<osKind, osThread, osState, osQueue, osWaits, osOpen, osReader, osEnabled, osNext,
            osIn, osDirect, osCall, osOver, osLeft>>

OsCallers == {"user", "closer"}      \* the one that prints, and one that ends it
OsUses == {"send", "recv", "start"}
OsCleanups == {"stop", "close"}
OsFresh == [stopping |-> FALSE, broken |-> FALSE, hung |-> FALSE]
OsNoReader == [own |-> 0, native |-> 0, flag |-> 0]

OsInit ==
  /\ osKind \in {"mac", "winrt"}
  /\ osThread = "none" /\ osState = OsFresh /\ osQueue = <<>> /\ osWaits = {}
  /\ osOpen = 0 /\ osReader = OsNoReader /\ osEnabled = {} /\ osNext = 0 /\ osIn = 0
  /\ osDirect = FALSE /\ osOver = {}
  /\ osCall = [c \in OsCallers |-> [op |-> "none", at |-> "idle", n |-> 0]]
  /\ osLeft = [calls |-> OsCalls, frames |-> OsFrames, trouble |-> OsTrouble]

OsAll == IF osKind = "mac" THEN 2 ELSE 3     \* device, channel; or socket, writer, reader
OsMeets == osLeft.trouble > 0 /\ osLeft' = [osLeft EXCEPT !.trouble = @ - 1]
OsReturns(c) == osCall' = [osCall EXCEPT ![c].at = "idle", ![c].op = "none"]

(* The owner can take the next command or run the loop.                    *)
OsFree == osThread = "alive" /\ ~osState.hung /\ osIn = 0

-----------------------------------------------------------------------------
(* The callers: _run, after what the caller does itself.                   *)
OsAsks(c, op) ==
  /\ osCall[c].at = "idle" /\ osLeft.calls > 0
  /\ osCall' = [osCall EXCEPT ![c] = [op |-> op, at |-> "waiting", n |-> @.n + 1]]
  /\ osQueue' = Append(osQueue, [op |-> op, by |-> c, n |-> osCall[c].n + 1])

(* connect: close, which is a call of its own here, then a new thread; its *)
(* loop may be later than the caller waits.  Nobody uses a socket while it  *)
(* is connected (backend.py).                                              *)
OsConnect(c) ==
  /\ osThread = "none" /\ (\A d \in OsCallers : osCall[d].at = "idle") /\ osLeft.calls > 0
  /\ osState' = OsFresh
  /\ \/ /\ osThread' = "alive"
        /\ osCall' = [osCall EXCEPT ![c] = [op |-> "connect", at |-> "waiting", n |-> @.n + 1]]
        /\ osQueue' = <<[op |-> "connect", by |-> c, n |-> osCall[c].n + 1]>>
        /\ osLeft' = [osLeft EXCEPT !.calls = @ - 1]
     \/ /\ osKind = "winrt" /\ osThread' = "starting" /\ osQueue' = <<>> /\ UNCHANGED osCall
        /\ osLeft.trouble > 0 /\ osLeft' = [osLeft EXCEPT !.calls = @ - 1, !.trouble = @ - 1]
  /\ UNCHANGED <<osKind, osWaits, osOpen, osReader, osEnabled, osNext, osIn, osDirect, osOver>>
OsStarted ==
  /\ osThread = "starting" /\ osThread' = "alive"
  /\ UNCHANGED <<osKind, osState, osQueue, osWaits, osOpen, osReader, osEnabled, osNext, osIn,
                 osDirect, osCall, osOver, osLeft>>

(* sendall, recv, start_receive; without a thread they fail at once.       *)
OsUse(c, op) ==
  /\ op \in OsUses /\ (op = "recv" => osKind = "winrt")
  /\ osThread = "alive" /\ OsAsks(c, op)
  /\ osLeft' = [osLeft EXCEPT !.calls = @ - 1]
  /\ UNCHANGED <<osKind, osThread, osState, osWaits, osOpen, osReader, osEnabled, osNext, osIn,
                 osDirect, osOver>>

(* stop_receive and close: the event is cleared by the caller already.     *)
OsCleanup(c, op) ==
  /\ op \in OsCleanups /\ osThread = "alive" /\ OsAsks(c, op)
  /\ osEnabled' = osEnabled \ {osReader.flag}
  /\ osLeft' = [osLeft EXCEPT !.calls = @ - 1]
  /\ UNCHANGED <<osKind, osThread, osState, osWaits, osOpen, osReader, osNext, osIn, osDirect, osOver>>

(* close when the thread has ended: it is forgotten if it left nothing.    *)
OsCloseDead(c) ==
  /\ osThread = "dead" /\ osCall[c].at = "idle" /\ osLeft.calls > 0
  /\ osThread' = IF osOpen = 0 THEN "none" ELSE osThread
  /\ osEnabled' = osEnabled \ {osReader.flag}
  /\ osLeft' = [osLeft EXCEPT !.calls = @ - 1]
  /\ UNCHANGED <<osKind, osState, osQueue, osWaits, osOpen, osReader, osNext, osIn, osDirect, osCall, osOver>>

(* The deadline of a cleanup, and a thread that ended meanwhile.           *)
OsGivesUp(c) ==
  /\ osCall[c].at = "waiting" /\ (osCall[c].op \in OsCleanups \/ osThread \in {"dead", "none"})
  /\ OsReturns(c)
  /\ UNCHANGED <<osKind, osThread, osState, osQueue, osWaits, osOpen, osReader, osEnabled, osNext,
                 osIn, osDirect, osOver, osLeft>>

(* close, once its command has succeeded: stop the owner and join it.      *)
OsCloses(c) ==
  /\ osCall[c].at = "closed" /\ osCall' = [osCall EXCEPT ![c].at = "joining"]
  /\ osState' = [osState EXCEPT !.stopping = TRUE]
  /\ UNCHANGED <<osKind, osThread, osQueue, osWaits, osOpen, osReader, osEnabled, osNext, osIn,
                 osDirect, osOver, osLeft>>
OsJoined(c) ==
  /\ osCall[c].at = "joining" /\ OsReturns(c)
  /\ \/ osThread \in {"dead", "none"} /\ osThread' = "none"
     \/ osThread = "alive" /\ UNCHANGED osThread          \* "did not stop"
  /\ UNCHANGED <<osKind, osState, osQueue, osWaits, osOpen, osReader, osEnabled, osNext, osIn,
                 osDirect, osOver, osLeft>>

-----------------------------------------------------------------------------
(* The owner.                                                              *)
OsAnswer(cmd, ok) ==
  LET waits == osCall[cmd.by].at = "waiting" /\ osCall[cmd.by].n = cmd.n IN
  /\ osCall' = IF ~waits THEN osCall
               ELSE [osCall EXCEPT ![cmd.by] =
                      IF ok /\ cmd.op = "close" THEN [@ EXCEPT !.at = "closed"]
                      ELSE [@ EXCEPT !.at = "idle", !.op = "none"]]
  /\ osOver' = IF waits /\ ok /\ cmd.op \in OsCleanups THEN osOver \cup 1..osNext ELSE osOver

OsTakes(cmd) ==
  /\ OsFree /\ ~osState.stopping /\ (osReader.native = 0 => osWaits = {})
  /\ osQueue # <<>> /\ cmd = Head(osQueue) /\ osQueue' = Tail(osQueue)
  /\ UNCHANGED <<osKind, osThread, osState>>

(* After the run loop failed only cleanups are still run.                  *)
OsRefuses ==
  \E cmd \in {Head(osQueue)} :
    /\ osState.broken /\ cmd.op \notin OsCleanups /\ OsTakes(cmd) /\ OsAnswer(cmd, FALSE)
    /\ UNCHANGED <<osWaits, osOpen, osReader, osEnabled, osNext, osIn, osDirect, osLeft>>

(* _connect_native, _connect_async: what was opened before a failure stays.*)
OsConnects ==
  \E cmd \in {Head(osQueue)} :
    /\ cmd.op = "connect" /\ ~osState.broken /\ OsTakes(cmd)
    /\ \/ osOpen' = OsAll /\ OsAnswer(cmd, TRUE) /\ UNCHANGED osLeft
       \/ osOpen' \in 0..(OsAll - 1) /\ OsAnswer(cmd, FALSE) /\ OsMeets
    /\ UNCHANGED <<osWaits, osReader, osEnabled, osNext, osIn, osDirect>>

OsSends ==
  \E cmd \in {Head(osQueue)} :
    /\ cmd.op = "send" /\ ~osState.broken /\ OsTakes(cmd)
    /\ OsAnswer(cmd, osOpen >= 2)
    /\ UNCHANGED <<osWaits, osOpen, osReader, osEnabled, osNext, osIn, osDirect, osLeft>>

(* _recv_async until its own timeout; it excludes a receiver.              *)
OsReceives ==
  \E cmd \in {Head(osQueue)} :
    /\ cmd.op = "recv" /\ OsTakes(cmd)
    /\ IF osOpen < OsAll \/ osReader.own # 0 \/ osDirect
       THEN OsAnswer(cmd, FALSE) /\ UNCHANGED osDirect
       ELSE osDirect' = TRUE /\ UNCHANGED <<osCall, osOver>>
    /\ UNCHANGED <<osWaits, osOpen, osReader, osEnabled, osNext, osIn, osLeft>>
OsReceived ==
  /\ osDirect /\ OsFree /\ osDirect' = FALSE
  /\ osCall' = [c \in OsCallers |->
       IF osCall[c].op = "recv" THEN [osCall[c] EXCEPT !.at = "idle", !.op = "none"] ELSE osCall[c]]
  /\ UNCHANGED <<osKind, osThread, osState, osQueue, osWaits, osOpen, osReader, osEnabled, osNext,
                 osIn, osOver, osLeft>>

(* start: one receiver; on macOS it is known before it is installed.       *)
OsInstalls ==
  \E cmd \in {Head(osQueue)} :
    /\ cmd.op = "start" /\ ~osState.broken /\ OsTakes(cmd)
    /\ IF osOpen < OsAll \/ osReader.own # 0 \/ osDirect
       THEN OsAnswer(cmd, FALSE) /\ UNCHANGED <<osReader, osEnabled, osNext, osLeft>>
       ELSE LET id == osNext + 1 IN
            /\ osNext' = id /\ osEnabled' = osEnabled \cup {id}
            /\ \/ /\ osReader' = [own |-> id, native |-> id, flag |-> id]
                  /\ OsAnswer(cmd, TRUE) /\ UNCHANGED osLeft
               \/ /\ osKind = "mac" /\ osReader' = [own |-> id, native |-> 0, flag |-> id]
                  /\ OsAnswer(cmd, FALSE) /\ OsMeets
    /\ UNCHANGED <<osWaits, osOpen, osIn, osDirect>>

(* What is left open when the closing of objects fails at one of them.     *)
OsClosed(cmd) ==
  IF cmd.op = "close" /\ ~osDirect
  THEN \/ osOpen' = 0 /\ OsAnswer(cmd, TRUE) /\ UNCHANGED osLeft
       \/ osOpen' \in 1..osOpen /\ OsAnswer(cmd, FALSE) /\ OsMeets
  ELSE OsAnswer(cmd, cmd.op = "stop") /\ UNCHANGED <<osOpen, osLeft>>

(* _stop_receive_native and _close_native, on macOS.                       *)
OsCleansMac ==
  \E cmd \in {Head(osQueue)} :
    /\ osKind = "mac" /\ cmd.op \in OsCleanups /\ OsTakes(cmd)
    /\ osEnabled' = osEnabled \ {osReader.flag}
    /\ \/ osReader' = OsNoReader /\ OsClosed(cmd)
       \/ /\ osReader.own # 0 /\ OsAnswer(cmd, FALSE) /\ OsMeets
          /\ UNCHANGED <<osReader, osOpen>>
    /\ UNCHANGED <<osWaits, osNext, osIn, osDirect>>

(* _stop_receive_async: the read task is cancelled and waited for, and     *)
(* other commands run meanwhile; when it ends, all that waited go on in    *)
(* the same turn of the loop.                                              *)
OsCleansWinRt ==
  \E cmd \in {Head(osQueue)} :
    /\ osKind = "winrt" /\ cmd.op \in OsCleanups /\ OsTakes(cmd)
    /\ osEnabled' = osEnabled \ {osReader.flag}
    /\ IF osReader.own = 0
       THEN OsClosed(cmd) /\ UNCHANGED osWaits
       ELSE osWaits' = osWaits \cup {cmd} /\ UNCHANGED <<osOpen, osCall, osOver, osLeft>>
    /\ UNCHANGED <<osReader, osNext, osIn, osDirect>>
OsTaskEnds ==
  /\ osWaits # {} /\ OsFree /\ osReader.native # 0 /\ osReader' = [osReader EXCEPT !.native = 0]
  /\ UNCHANGED <<osKind, osThread, osState, osQueue, osWaits, osOpen, osEnabled, osNext, osIn,
                 osDirect, osCall, osOver, osLeft>>
OsWaited(cmd) ==
  /\ cmd \in osWaits /\ OsFree /\ osWaits' = osWaits \ {cmd}
  /\ \/ /\ osReader.native = 0 /\ osReader' = OsNoReader /\ OsClosed(cmd)
     \/ /\ osReader.native # 0 /\ OsAnswer(cmd, FALSE) /\ OsMeets     \* it ignores the cancellation
        /\ UNCHANGED <<osReader, osOpen>>
  /\ UNCHANGED <<osKind, osThread, osState, osQueue, osEnabled, osNext, osIn, osDirect>>

(* Data arrives: the callback runs if the event of its receiver is set.    *)
OsDelivers ==
  /\ OsFree /\ ~osState.broken /\ osReader.native \in osEnabled /\ osIn' = osReader.native
  /\ osLeft.frames > 0 /\ osLeft' = [osLeft EXCEPT !.frames = @ - 1]
  /\ UNCHANGED <<osKind, osThread, osState, osQueue, osWaits, osOpen, osReader, osEnabled, osNext,
                 osDirect, osCall, osOver>>
OsDelivered ==
  /\ osIn # 0 /\ ~osState.hung /\ osIn' = 0
  /\ UNCHANGED <<osKind, osThread, osState, osQueue, osWaits, osOpen, osReader, osEnabled, osNext,
                 osDirect, osCall, osOver, osLeft>>

(* The peer closes: a read task ends by itself and stays known.            *)
OsInputEnds ==
  /\ osKind = "winrt" /\ OsFree /\ osReader.native # 0 /\ osReader' = [osReader EXCEPT !.native = 0]
  /\ OsMeets
  /\ UNCHANGED <<osKind, osThread, osState, osQueue, osWaits, osOpen, osEnabled, osNext, osIn,
                 osDirect, osCall, osOver>>

(* _worker: the run loop fails and the owner stays for the cleanup; a      *)
(* native call or a callback never returns; or the thread ends by itself,  *)
(* and its coroutines go no further.                                       *)
OsFails ==
  /\ OsMeets
  /\ \/ osKind = "mac" /\ OsFree /\ osState' = [osState EXCEPT !.broken = TRUE] /\ UNCHANGED <<osThread, osWaits>>
     \/ osThread = "alive" /\ osState' = [osState EXCEPT !.hung = TRUE] /\ UNCHANGED <<osThread, osWaits>>
     \/ OsFree /\ osThread' = "dead" /\ osWaits' = {} /\ UNCHANGED osState
  /\ UNCHANGED <<osKind, osQueue, osOpen, osReader, osEnabled, osNext, osIn, osDirect,
                 osCall, osOver>>
OsEnds ==
  /\ osState.stopping /\ OsFree /\ osThread' = "dead" /\ osWaits' = {} /\ osDirect' = FALSE
  /\ osReader' = [osReader EXCEPT !.native = 0]
  /\ UNCHANGED <<osKind, osState, osQueue, osOpen, osEnabled, osNext, osIn, osCall, osOver, osLeft>>

-----------------------------------------------------------------------------
OsOwnerStep ==
  \/ osQueue # <<>> /\ (OsRefuses \/ OsConnects \/ OsSends \/ OsReceives \/ OsInstalls
                          \/ OsCleansMac \/ OsCleansWinRt)
  \/ OsStarted \/ OsReceived \/ OsTaskEnds \/ (\E cmd \in osWaits : OsWaited(cmd))
  \/ OsDelivered \/ OsEnds
OsCallerStep == \E c \in OsCallers : OsGivesUp(c) \/ OsCloses(c) \/ OsJoined(c)
OsStep == OsOwnerStep \/ OsCallerStep
OsNext ==
  \/ OsStep \/ OsDelivers \/ OsInputEnds \/ OsFails
  \/ OsConnect("user") \/ (\E op \in OsUses : OsUse("user", op)) \/ OsCleanup("user", "stop")
  \/ OsCleanup("closer", "close") \/ OsCloseDead("closer")

OsSpec == OsInit /\ [][OsNext]_osVars /\ WF_osVars(OsStep)

-----------------------------------------------------------------------------
(* A stop_receive or close that returned well has ended the receiver: its  *)
(* callback is not running and will not run again.                         *)
OsStopIsFinal == osIn \notin osOver /\ osOver \cap osEnabled = {}

(* The socket forgets its owner only when nothing native is left behind,   *)
(* and never a receiver that is installed.                                 *)
OsForgetsOnlyClosed ==
  /\ osThread = "none" => osOpen = 0 /\ osReader.native = 0 /\ osIn = 0
  /\ osReader.native \in {0, osReader.own}

(* Every call returns, those that do not clean up unless a native call     *)
(* never does.                                                             *)
OsEnded ==
  \A c \in OsCallers :
    osCall[c].at = "idle" \/ (osState.hung /\ osCall[c].op \notin OsCleanups)

-----------------------------------------------------------------------------
(* What holds between any two steps, from which both follow for every      *)
(* number of calls, frames and troubles.                                   *)
OsCommands == [op : {"connect"} \cup OsUses \cup OsCleanups, by : OsCallers, n : Nat]
OsRecords ==
  [op : {"none", "connect"} \cup OsUses \cup OsCleanups, at : {"idle", "waiting", "closed", "joining"}, n : Nat]
OsState ==
  /\ osKind \in {"mac", "winrt"} /\ osThread \in {"none", "starting", "alive", "dead"}
  /\ osQueue \in Seq(OsCommands) /\ osWaits \subseteq OsCommands
  /\ osOpen \in 0..OsAll /\ osNext \in Nat /\ osReader \in [own : Nat, native : Nat, flag : Nat]
  /\ osCall \in [OsCallers -> OsRecords]

(* At most the last receiver is enabled, and none once a cleanup has begun.*)
OsReceiverInv ==
  /\ osReader.native \in {0, osReader.own} /\ (osReader.native # 0 => osOpen = OsAll)
  /\ osEnabled \subseteq {osReader.flag} /\ osEnabled \subseteq 1..osNext
  /\ osReader.own = 0 \/ osWaits # {} => osEnabled = {}
  /\ osOver \subseteq 1..osNext /\ osOver \cap osEnabled = {} /\ osIn \notin osOver

(* What a connect opens is opened first; who has closed finds it closed.   *)
OsOwnerInv ==
  /\ osThread # "alive" => osIn = 0 /\ osWaits = {}
  /\ osThread = "none" => osOpen = 0
  /\ \A i \in DOMAIN osQueue : osQueue[i].op = "connect" =>
       /\ i = 1 /\ osReader.native = 0 /\ osWaits = {}
       /\ \A c \in OsCallers : osCall[c].at \in {"idle", "waiting"}
  /\ \A c \in OsCallers : osCall[c].at \in {"closed", "joining"} => osOpen = 0
OsInv == OsState /\ OsReceiverInv /\ OsOwnerInv
=============================================================================
