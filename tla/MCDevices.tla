----------------------------- MODULE MCDevices -----------------------------
(* The parts below the executor, which meet only in the calls one makes of *)
(* another: a behaviour picks one of them and runs it by itself.           *)
EXTENDS NiimbotClient, PhomemoClient, GenericClient, RuntimeV5X, RuntimeV5C,
        RuntimeV5G, RuntimeFunnyLX, BluetoothLink, BleSocket, OwnedSocket, BleChannel, GattEndpoints,
        PacketStreams, PageEncodings

VARIABLE device

deviceVars == <<device, nbVars, phVars, gcVars, vxVars, vcVars, vgVars, fxVars, blVars, bsVars, osVars, bcVars, geVars, psVars, enVars>>

MCAttempts == <<"classic", "ble">>
MCTemperatures == {-1, 45, 57, 67, 72}
MCServices == {10, 20}
MCCharacteristic(uuid, can) == [uuid |-> uuid, can |-> can]
MCCharacteristics ==
  {MCCharacteristic(1, {"wnr"}), MCCharacteristic(2, {"wnr"}), MCCharacteristic(3, {"notify", "write"}),
   MCCharacteristic(4, {"notify"}), MCCharacteristic(5, {"write", "wnr"})}
MCKnown == [service |-> {10}, write |-> {1, 2}, notify |-> {3}]
MCProfiles ==
  {[service |-> 0, write |-> 0, notify |-> 0, anyNotify |-> TRUE, bulk |-> 0, control |-> 0],
   [service |-> 20, write |-> 2, notify |-> 3, anyNotify |-> FALSE, bulk |-> 0, control |-> 0],
   [service |-> 0, write |-> 1, notify |-> 0, anyNotify |-> TRUE, bulk |-> 2, control |-> 3],
   [service |-> 0, write |-> 0, notify |-> 0, anyNotify |-> FALSE, bulk |-> 0, control |-> 4]}
MCLzo == [first |-> 3, run |-> 4, match |-> 2, more |-> 2, distance |-> 5]
MCLines == {<<line>> : line \in [1..7 -> {0, 1}]} \cup {<<<<0, 1, 1, 0>>, line>> : line \in [1..4 -> {0, 1}]}
MCRows ==
  [1..4 -> {<<0, 0, 0, 0, 0, 0>>, <<0, 1, 0, 0, 0, 1>>, <<1, 1, 0, 1, 0, 0>>}]
    \cup {<<row>> : row \in [1..4 -> {0, 1}]}
MCGray ==
  {<<data>> : data \in UNION {[1..n -> {0, 1}] : n \in 1..9}}
    \cup {<<a, b, a>> : a \in [1..3 -> {0, 1}], b \in [1..3 -> {0, 1}]}
MCListed == CHOOSE t \in GeTables : t[1].uuid = 10 /\ t[2].uuid = 20

(* A part that does not run waits in one initial state.                    *)
DeviceInit ==
  /\ device \in {"niimbot", "phomemo", "generic", "v5x", "v5c", "v5g", "funny", "link", "socket", "owned", "channel", "gatt", "stream", "encoding"}
  /\ NbInit /\ (device # "niimbot" => nbVariant = "plain")
  /\ PhInit /\ (device # "phomemo" => phDialect = "d")
  /\ GcInit /\ (device # "generic" => gcFamily = "plain")
  /\ VxInit /\ (device # "v5x" => vxRoutes = {})
  /\ VgInit /\ (device # "v5g" => vgHelper = "none" /\ ~vgLoop /\ vgUser = VgLevels.low)
  /\ FxInit /\ (device # "funny" => fxVerified)
  /\ OsInit /\ (device # "owned" => osKind = "mac")
  /\ BcInit /\ (device # "channel" => ~bcListening)
  /\ GeInit /\ (device # "gatt" => geListed = MCListed /\ geProfile = NoProfile)
  /\ PsInit /\ (device # "stream" => psDialect = "yk")
  /\ EnInit /\ (device # "encoding" => enKind = "rows" /\ enPage = <<<<0, 0, 1, 0>>>>)
  /\ VcInit /\ BlInit /\ BsInit

(* Steps of the program that get to run, and what only may happen.         *)
DeviceWorks ==
  \/ device = "niimbot" /\ NbStep /\ UNCHANGED <<device, phVars, gcVars, vxVars, vcVars, vgVars, fxVars, blVars, bsVars, osVars, bcVars, geVars, psVars, enVars>>
  \/ device = "phomemo" /\ PhStep /\ UNCHANGED <<device, nbVars, gcVars, vxVars, vcVars, vgVars, fxVars, blVars, bsVars, osVars, bcVars, geVars, psVars, enVars>>
  \/ device = "generic" /\ GcClientStep /\ UNCHANGED <<device, nbVars, phVars, vxVars, vcVars, vgVars, fxVars, blVars, bsVars, osVars, bcVars, geVars, psVars, enVars>>
  \/ device = "v5x" /\ VxControllerStep /\ UNCHANGED <<device, nbVars, phVars, gcVars, vcVars, vgVars, fxVars, blVars, bsVars, osVars, bcVars, geVars, psVars, enVars>>
  \/ device = "v5c" /\ VcControllerStep /\ UNCHANGED <<device, nbVars, phVars, gcVars, vxVars, vgVars, fxVars, blVars, bsVars, osVars, bcVars, geVars, psVars, enVars>>
  \/ device = "v5g" /\ VgStep /\ UNCHANGED <<device, nbVars, phVars, gcVars, vxVars, vcVars, fxVars, blVars, bsVars, osVars, bcVars, geVars, psVars, enVars>>
  \/ device = "funny" /\ FxClientStep /\ UNCHANGED <<device, nbVars, phVars, gcVars, vxVars, vcVars, vgVars, blVars, bsVars, osVars, bcVars, geVars, psVars, enVars>>
  \/ device = "link" /\ BlWorkerStep /\ UNCHANGED <<device, nbVars, phVars, gcVars, vxVars, vcVars, vgVars, fxVars, bsVars, osVars, bcVars, geVars, psVars, enVars>>
  \/ device = "socket" /\ BsStep /\ UNCHANGED <<device, nbVars, phVars, gcVars, vxVars, vcVars, vgVars, fxVars, blVars, osVars, bcVars, geVars, psVars, enVars>>
  \/ device = "owned" /\ OsStep /\ UNCHANGED <<device, nbVars, phVars, gcVars, vxVars, vcVars, vgVars, fxVars, blVars, bsVars, bcVars, geVars, psVars, enVars>>
  \/ device = "channel" /\ BcStep /\ UNCHANGED <<device, nbVars, phVars, gcVars, vxVars, vcVars, vgVars, fxVars, blVars, bsVars, osVars, geVars, psVars, enVars>>

DeviceHears ==
  \/ device = "v5x" /\ VxNotify /\ UNCHANGED <<device, nbVars, phVars, gcVars, vcVars, vgVars, fxVars, blVars, bsVars, osVars, bcVars, geVars, psVars, enVars>>
  \/ device = "link" /\ BlStopReader /\ UNCHANGED <<device, nbVars, phVars, gcVars, vxVars, vcVars, vgVars, fxVars, bsVars, osVars, bcVars, geVars, psVars, enVars>>

DeviceMeets ==
  \/ device = "niimbot" /\ NbNext /\ UNCHANGED <<device, phVars, gcVars, vxVars, vcVars, vgVars, fxVars, blVars, bsVars, osVars, bcVars, geVars, psVars, enVars>>
  \/ device = "phomemo" /\ PhNext /\ UNCHANGED <<device, nbVars, gcVars, vxVars, vcVars, vgVars, fxVars, blVars, bsVars, osVars, bcVars, geVars, psVars, enVars>>
  \/ device = "generic" /\ GcNext /\ UNCHANGED <<device, nbVars, phVars, vxVars, vcVars, vgVars, fxVars, blVars, bsVars, osVars, bcVars, geVars, psVars, enVars>>
  \/ device = "v5x" /\ VxNext /\ UNCHANGED <<device, nbVars, phVars, gcVars, vcVars, vgVars, fxVars, blVars, bsVars, osVars, bcVars, geVars, psVars, enVars>>
  \/ device = "v5c" /\ VcNext /\ UNCHANGED <<device, nbVars, phVars, gcVars, vxVars, vgVars, fxVars, blVars, bsVars, osVars, bcVars, geVars, psVars, enVars>>
  \/ device = "v5g" /\ VgNext /\ UNCHANGED <<device, nbVars, phVars, gcVars, vxVars, vcVars, fxVars, blVars, bsVars, osVars, bcVars, geVars, psVars, enVars>>
  \/ device = "funny" /\ FxNext /\ UNCHANGED <<device, nbVars, phVars, gcVars, vxVars, vcVars, vgVars, blVars, bsVars, osVars, bcVars, geVars, psVars, enVars>>
  \/ device = "link" /\ BlNext /\ UNCHANGED <<device, nbVars, phVars, gcVars, vxVars, vcVars, vgVars, fxVars, bsVars, osVars, bcVars, geVars, psVars, enVars>>
  \/ device = "socket" /\ BsNext /\ UNCHANGED <<device, nbVars, phVars, gcVars, vxVars, vcVars, vgVars, fxVars, blVars, osVars, bcVars, geVars, psVars, enVars>>
  \/ device = "owned" /\ OsNext /\ UNCHANGED <<device, nbVars, phVars, gcVars, vxVars, vcVars, vgVars, fxVars, blVars, bsVars, bcVars, geVars, psVars, enVars>>
  \/ device = "channel" /\ BcNext /\ UNCHANGED <<device, nbVars, phVars, gcVars, vxVars, vcVars, vgVars, fxVars, blVars, bsVars, osVars, geVars, psVars, enVars>>
  \/ device = "gatt" /\ GeNext /\ UNCHANGED <<device, nbVars, phVars, gcVars, vxVars, vcVars, vgVars, fxVars, blVars, bsVars, osVars, bcVars, psVars, enVars>>
  \/ device = "stream" /\ PsNext /\ UNCHANGED <<device, nbVars, phVars, gcVars, vxVars, vcVars, vgVars, fxVars, blVars, bsVars, osVars, bcVars, geVars, enVars>>
  \/ device = "encoding" /\ EnNext /\ UNCHANGED <<device, nbVars, phVars, gcVars, vxVars, vcVars, vgVars, fxVars, blVars, bsVars, osVars, bcVars, geVars, psVars>>

DeviceSpec ==
  /\ DeviceInit /\ [][DeviceMeets]_deviceVars
  /\ WF_deviceVars(DeviceWorks) /\ WF_deviceVars(DeviceHears)

-----------------------------------------------------------------------------
(* Every client keeps the promise its executor relies on                   *)
(* (services/print_executor.py): a print that returns has delivered every  *)
(* page, one that says nothing was sent has sent nothing.                  *)
ClientsKeepPromise == NiimbotKeepsPromise /\ PhomemoKeepsPromise /\ GenericKeepsPromise

(* A fault that the printer reports ends the job: it is not printed on,    *)
(* and not reported as printed, whatever healthy statuses follow; the      *)
(* completion that ends a page was reported for it                         *)
(* (printing/runtime/phomemo_released.py, v5c.py).                         *)
FaultsEndJobs == PhReportStopsJob /\ VcFaultEndsJob /\ VcCompletionCurrent

(* What is on the paper is the page: accepted, at the density chosen for   *)
(* it, whole, and the bytes sent for it read back as its pixels            *)
(* (printing/runtime/v5x.py, v5g.py, funny_lx.py; protocol/encoding.py,    *)
(* _lzo.py, families/niimbot_core.py).                                     *)
PagesAreRight == VxRasterAccepted /\ VgPageAtItsDensity /\ FxFooterWholeImage /\ EnPageReadBack

(* A connection that is open has an owner that can close it, and a close   *)
(* that returns well leaves none (transport/bluetooth/backend.py,          *)
(* adapters/bleak_adapter.py, macos_iobluetooth.py, windows_winrt.py).     *)
ConnectionsAreOwned == BlOwnsWhatIsOpen /\ BsClosedIsDisconnected /\ OsForgetsOnlyClosed

(* Writing stops when it has to: after a disconnect at most the send under *)
(* way goes on, a chunk on Classic or the payload a BLE socket was given;  *)
(* after a pause of the printer at most the BLE chunk under way; and after *)
(* a stop that returned well its receiver is not called again              *)
(* (transport/bluetooth/backend.py, adapters/bleak_adapter_transport.py,   *)
(* macos_iobluetooth.py, windows_winrt.py).                                *)
StopsHold == BlDisconnectStopsWrite /\ BcPauseHolds /\ OsStopIsFinal

(* What the printer says is heard by whoever waits for it, and every       *)
(* connection listens and writes at the same characteristics, in a way     *)
(* they allow, whatever order the system lists them in; every whole frame  *)
(* is decoded, however the stream was cut (protocol/packet.py, families,   *)
(* transport/bluetooth/backend.py, adapters/bleak_adapter_transport.py,   *)
(* bleak_adapter_endpoint_resolver.py).                                    *)
NothingMissed == BlNothingMissed /\ BcNothingMissed /\ GeSameEndpoints /\ GeCoherent
                 /\ PsCutsDoNotMatter /\ PsWholeIsHeard

(* Prints and disconnects come to their end whatever the printer does.     *)
DeviceEnded ==
  CASE device = "niimbot" -> nbPhase = "closed"
    [] device = "phomemo" -> phPhase = "closed"
    [] device = "generic" -> gcPhase = "closed"
    [] device = "v5x" -> vxPhase = "stopped"
    [] device = "v5c" -> vcPhase = "closed"
    [] device = "v5g" -> vgPhase = "stopped"
    [] device = "funny" -> fxPhase \in {"printed", "failed"}
    [] device = "link" -> blClient # "stopping"
    [] device = "socket" -> bsState \in {"idle", "open"}
    [] device = "owned" -> OsEnded
    [] device = "channel" -> BcEnded
    [] device \in {"gatt", "stream", "encoding"} -> TRUE
DevicesEnd == <>[]DeviceEnded
=============================================================================
