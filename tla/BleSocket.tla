------------------------------ MODULE BleSocket ------------------------------
(* The life of one BLE connection: setup and bounded teardown              *)
(* (transport/bluetooth/adapters/bleak_adapter.py, bleak_lifecycle.py) and *)
(* the notification endpoints of its session (bleak_adapter_transport.py). *)
(* Every native operation has a deadline; one that outlives its deadline   *)
(* is cancelled, may resist, and may still take effect much later, a       *)
(* connect among them.                                                     *)
EXTENDS Naturals, FiniteSets

CONSTANTS
  BsEndpoints,   \* notification endpoints of the printer
  BsCalls,       \* connects and closes of the worker (bound)
  BsTrouble      \* operations that fail or outlive their deadline (bound)

BleSocketAssumption == BsEndpoints \in Nat /\ BsCalls \in Nat /\ BsTrouble \in Nat
ASSUME BleSocketAssumption

VARIABLES
  bsState,     \* "idle", "setup", "open", "cleanup"
  bsStage,     \* of the setup: "connect", "subscribe"; of the cleanup: "runtime",
               \* "unsubscribe", "disconnect", "quiesce", "again", "end"
  bsClient,    \* _client is set
  bsStarted,   \* _started_notify_endpoints
  bsRuntime,   \* a runtime controller is attached and not stopped
  bsPending,   \* operations of the lifecycle that outlived their deadline
  bsFlag,      \* _physical_disconnected
  bsMayReconnect, bsStopError, bsError,   \* may_reconnect, stop_error, disconnect_error
  bsLink,      \* the printer is connected to this computer
  bsClosed,    \* the last call was a close, and it returned normally
  bsCallsLeft, bsLeft

bsSession == <<bsClient, bsStarted, bsRuntime>>
bsCleanup == <<bsMayReconnect, bsStopError, bsError>>
bsBudget == <<bsCallsLeft, bsLeft>>
bsVars == <<bsState, bsStage, bsSession, bsPending, bsFlag, bsCleanup, bsLink, bsClosed, bsBudget>>

BsTroubled == bsLeft > 0 /\ bsLeft' = bsLeft - 1

BsInit ==
  /\ bsState = "idle" /\ bsStage = "" /\ bsClient = FALSE /\ bsStarted = {} /\ bsRuntime = FALSE
  /\ bsPending = {} /\ bsFlag = FALSE
  /\ bsMayReconnect = FALSE /\ bsStopError = FALSE /\ bsError = FALSE
  /\ bsLink = FALSE /\ bsClosed = FALSE /\ bsCallsLeft = BsCalls /\ bsLeft = BsTrouble

(* An operation under its deadline: it succeeds, fails, or outlives it.    *)
BsFails == BsTroubled /\ UNCHANGED bsPending
BsOutlives(operation) == BsTroubled /\ bsPending' = bsPending \cup {operation}

(* close, which every failure of the setup calls too.                      *)
BsCloses ==
  /\ bsState' = "cleanup" /\ bsStage' = IF bsRuntime THEN "runtime" ELSE "unsubscribe"
  /\ bsMayReconnect' = FALSE /\ bsStopError' = FALSE /\ bsError' = FALSE

-----------------------------------------------------------------------------
(* Setup                                                                   *)

(* connect: a client left by an earlier close is closed first.             *)
BsConnect ==
  /\ bsState = "idle" /\ bsCallsLeft > 0 /\ bsCallsLeft' = bsCallsLeft - 1
  /\ bsClosed' = FALSE
  /\ IF bsClient THEN BsCloses /\ UNCHANGED <<bsClient, bsFlag>>
     ELSE /\ bsState' = "setup" /\ bsStage' = "connect"
          /\ bsClient' = TRUE /\ bsFlag' = FALSE /\ UNCHANGED bsCleanup
  /\ UNCHANGED <<bsStarted, bsRuntime, bsPending, bsLink, bsLeft>>

(* _setup_async: the native connect, then pairing, endpoints and MTU.      *)
BsConnectNative ==
  /\ bsState = "setup" /\ bsStage = "connect"
  /\ \/ bsLink' = TRUE /\ bsStage' = "subscribe" /\ UNCHANGED <<bsState, bsPending, bsCleanup, bsLeft>>
     \/ (BsFails \/ BsOutlives("connect")) /\ BsCloses /\ UNCHANGED bsLink
     \/ bsLink' = TRUE /\ BsFails /\ BsCloses
  /\ UNCHANGED <<bsSession, bsFlag, bsClosed, bsCallsLeft>>

(* start_notify_if_available: one endpoint after the other; a failure      *)
(* takes the started ones back.                                            *)
BsSubscribe ==
  /\ bsState = "setup" /\ bsStage = "subscribe"
  /\ \/ /\ Cardinality(bsStarted) < BsEndpoints
        /\ bsStarted' = bsStarted \cup {Cardinality(bsStarted) + 1}
        /\ UNCHANGED <<bsState, bsStage, bsRuntime, bsPending, bsCleanup, bsLeft>>
     \/ /\ Cardinality(bsStarted) = BsEndpoints
        /\ bsState' = "open" /\ bsStage' = "" /\ bsRuntime' \in BOOLEAN
        /\ UNCHANGED <<bsStarted, bsPending, bsCleanup, bsLeft>>
     \/ /\ BsFails /\ bsStarted' = {} /\ BsCloses /\ UNCHANGED bsRuntime
     \/ /\ BsOutlives("subscribe") /\ BsCloses /\ UNCHANGED <<bsStarted, bsRuntime>>
  /\ UNCHANGED <<bsClient, bsFlag, bsLink, bsClosed, bsCallsLeft>>

BsClose ==
  /\ bsState = "open" \/ (bsState = "idle" /\ bsClient)
  /\ bsCallsLeft > 0 /\ bsCallsLeft' = bsCallsLeft - 1
  /\ BsCloses /\ bsClosed' = FALSE
  /\ UNCHANGED <<bsSession, bsPending, bsFlag, bsLink, bsLeft>>

-----------------------------------------------------------------------------
(* Cleanup                                                                 *)

BsStopRuntime ==
  /\ bsState = "cleanup" /\ bsStage = "runtime" /\ bsStage' = "unsubscribe"
  /\ \/ bsRuntime' = FALSE /\ UNCHANGED <<bsPending, bsStopError, bsLeft>>
     \/ (BsFails \/ BsOutlives("runtime")) /\ bsStopError' = TRUE /\ UNCHANGED bsRuntime
  /\ UNCHANGED <<bsState, bsClient, bsStarted, bsFlag, bsMayReconnect, bsError, bsLink, bsClosed, bsCallsLeft>>

(* _unsubscribe_started; then what is still under way is remembered.       *)
BsUnsubscribe ==
  /\ bsState = "cleanup" /\ bsStage = "unsubscribe"
  /\ \/ bsStarted' = {} /\ UNCHANGED <<bsPending, bsStopError, bsLeft>>
     \/ bsStarted # {} /\ (BsFails \/ BsOutlives("unsubscribe")) /\ bsStopError' = TRUE /\ UNCHANGED bsStarted
  /\ bsMayReconnect' = (bsPending' # {})
  /\ bsStage' = IF bsFlag THEN "quiesce" ELSE "disconnect"
  /\ UNCHANGED <<bsState, bsClient, bsRuntime, bsFlag, bsError, bsLink, bsClosed, bsCallsLeft>>

(* The physical disconnect; an earlier one that is still under way is      *)
(* waited for again.                                                       *)
BsPhysical(next) ==
  /\ bsStage' = next
  /\ \/ /\ bsFlag' = TRUE /\ bsLink' = FALSE /\ bsStarted' = {}
        /\ bsPending' = bsPending \ {"disconnect"} /\ UNCHANGED <<bsError, bsLeft>>
     \/ /\ (BsFails \/ BsOutlives("disconnect")) /\ bsError' = TRUE
        /\ UNCHANGED <<bsFlag, bsLink, bsStarted>>

BsDisconnect ==
  /\ bsState = "cleanup" /\ bsStage = "disconnect"
  /\ BsPhysical("quiesce")
  /\ UNCHANGED <<bsState, bsClient, bsRuntime, bsMayReconnect, bsStopError, bsClosed, bsCallsLeft>>

(* A mutated form of BsQuiesce: it waits for as long as it takes.          *)
BsQuiesceWaits ==
  /\ bsState = "cleanup" /\ bsStage = "quiesce" /\ bsPending = {}
  /\ bsFlag' = (bsFlag /\ ~bsMayReconnect)
  /\ bsStage' = IF bsMayReconnect THEN "again" ELSE "end"
  /\ UNCHANGED <<bsState, bsSession, bsPending, bsMayReconnect, bsStopError, bsError, bsLink, bsClosed, bsBudget>>

(* quiesce: all pending work settles, or the deadline passes; a setup that *)
(* was under way may have connected since the disconnect.                  *)
BsQuiesce ==
  /\ bsState = "cleanup" /\ bsStage = "quiesce"
  /\ bsFlag' = (bsFlag /\ bsPending = {} /\ ~bsMayReconnect)
  /\ bsError' = (bsError \/ bsPending # {})
  /\ bsStage' = IF bsPending = {} /\ bsMayReconnect THEN "again" ELSE "end"
  /\ UNCHANGED <<bsState, bsSession, bsPending, bsMayReconnect, bsStopError, bsLink, bsClosed, bsBudget>>

BsDisconnectAgain ==
  /\ bsState = "cleanup" /\ bsStage = "again"
  /\ BsPhysical("end")
  /\ UNCHANGED <<bsState, bsClient, bsRuntime, bsMayReconnect, bsStopError, bsClosed, bsCallsLeft>>

(* The end of close: the client and its loop are let go only when it is    *)
(* disconnected and nothing is under way.                                  *)
BsCleanupEnds ==
  LET disconnected == bsFlag /\ ~bsError IN
  /\ bsState = "cleanup" /\ bsStage = "end"
  /\ bsState' = "idle" /\ bsStage' = ""
  /\ bsFlag' = disconnected
  /\ bsClient' = ~(disconnected /\ bsPending = {})
  /\ bsRuntime' = (bsRuntime /\ bsClient')
  /\ bsStarted' = IF bsClient' THEN bsStarted ELSE {}
  /\ bsClosed' = (disconnected /\ ~bsStopError)
  /\ UNCHANGED <<bsPending, bsCleanup, bsLink, bsBudget>>

-----------------------------------------------------------------------------
(* An operation that outlived its deadline settles at last: cancelled, or  *)
(* with its effect.  A setup that finds the socket closing goes no further. *)
(* Without an endpoint to unsubscribe nothing is awaited there, and nothing *)
(* can settle.                                                             *)
BsSettles ==
  \E operation \in bsPending :
    /\ bsState = "cleanup"
    /\ bsStage = "unsubscribe" => bsStarted # {}
    /\ bsPending' = bsPending \ {operation}
    /\ \/ UNCHANGED <<bsLink, bsFlag, bsStarted>>
       \/ /\ operation = "connect" /\ bsLink' = TRUE
          /\ bsFlag' \in {FALSE, bsFlag} /\ UNCHANGED bsStarted
       \/ /\ operation = "disconnect" /\ bsLink' = FALSE
          /\ bsFlag' = TRUE /\ bsStarted' = {}
    /\ UNCHANGED <<bsState, bsStage, bsClient, bsRuntime, bsCleanup, bsClosed, bsBudget>>

(* The link is lost.                                                       *)
BsLost ==
  /\ bsLink /\ BsTroubled /\ bsLink' = FALSE
  /\ UNCHANGED <<bsState, bsStage, bsSession, bsPending, bsFlag, bsCleanup, bsClosed, bsCallsLeft>>

BsStep ==
  \/ BsConnectNative \/ BsSubscribe \/ BsStopRuntime \/ BsUnsubscribe \/ BsDisconnect
  \/ BsQuiesce \/ BsDisconnectAgain \/ BsCleanupEnds
BsNext == BsConnect \/ BsClose \/ BsStep \/ BsSettles \/ BsLost

(* Every operation has a deadline.                                         *)
BsFairness == WF_bsVars(BsStep)
BsSpec == BsInit /\ [][BsNext]_bsVars /\ BsFairness

-----------------------------------------------------------------------------
(* A close that returns normally leaves the printer disconnected, and      *)
(* nothing that could connect it again; a connection that is still there   *)
(* is still owned, so that the next close or connect finds it.             *)
BsClosedIsDisconnected ==
  /\ bsClosed => ~bsLink /\ bsPending = {}
  /\ bsLink \/ bsPending # {} => bsClient

-----------------------------------------------------------------------------
(* What holds between any two steps, from which it follows for every       *)
(* number of endpoints, calls and troubles.                                *)
BsState ==
  /\ bsState \in {"idle", "setup", "open", "cleanup"}
  /\ bsState = "setup" => bsStage \in {"connect", "subscribe"}
  /\ bsState = "cleanup" => bsStage \in {"runtime", "unsubscribe", "disconnect", "quiesce", "again", "end"}
  /\ bsFlag \in BOOLEAN /\ bsLink \in BOOLEAN /\ bsMayReconnect \in BOOLEAN /\ bsError \in BOOLEAN

(* Nothing is under way while a client is set up and used; a client that   *)
(* was let go has left nothing, and one that was not counts as connected.  *)
BsClientInv ==
  /\ bsState # "idle" => bsClient
  /\ bsState \in {"setup", "open"} => ~bsFlag /\ bsPending = {}
  /\ bsState = "setup" => ~bsRuntime /\ (bsStage = "connect" => bsStarted = {})
  /\ bsState = "idle" /\ bsClient => ~bsFlag
  /\ ~bsClient => bsPending = {} /\ ~bsLink /\ bsStarted = {} /\ ~bsRuntime
  /\ bsClosed => bsState = "idle" /\ ~bsLink /\ bsPending = {}

(* A connect that is still under way is that of a client which was not set *)
(* up further.  It may undo the disconnect: then there is another one.     *)
BsCleanupInv ==
  /\ "connect" \in bsPending => bsStarted = {} /\ ~bsRuntime
  /\ bsState = "cleanup" =>
       /\ bsStage = "runtime" => bsRuntime
       /\ bsFlag /\ bsLink => bsStage \in {"disconnect", "quiesce", "end"}
       /\ bsFlag /\ bsLink /\ bsStage # "end" => bsMayReconnect
       /\ bsFlag /\ bsLink /\ bsStage = "end" => bsError
       /\ bsStage \in {"disconnect", "quiesce"} /\ "connect" \in bsPending => bsMayReconnect
       /\ bsStage = "again" => bsPending = {}
       /\ bsStage = "end" /\ ~bsError => bsPending = {}
BsInv == BsState /\ BsClientInv /\ BsCleanupInv
=============================================================================
