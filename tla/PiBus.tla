--------------------------------- MODULE PiBus ---------------------------------
(***************************************************************************)
(* The parallel interface bus: its core (parallel_interface.c), the host   *)
(* that the rpmsg channel brings up (pi-bus.c) and one driver of the bus   *)
(* (dc782a.c).  Two threads meet on the children of the host: the one that *)
(* binds or unbinds the channel, and the one that loads or unloads the     *)
(* driver.  The driver core of the kernel they both call is external; what *)
(* the bus adds to it is a match that stores dev->driver by itself, before *)
(* the core has taken the device's lock and probed.                        *)
(***************************************************************************)
EXTENDS FiniteSets

CONSTANTS
  Nodes,       \* available children of the host's device tree node
  Matching,    \* those the driver has an id or the name for
  NoNode

ASSUME PiBusAssumption == Matching \subseteq Nodes /\ NoNode \notin Nodes

VARIABLES
  host,        \* the pi_bus_host, and the loop over its children
  todo,        \* nodes that loop has not come to
  populated,   \* OF_POPULATED, per node
  child,       \* the pi_device of a node: on the bus, and then attached
  driver,      \* dev->driver is set
  bound,       \* the device is in the driver's list
  probed,      \* the driver's probe succeeded and its remove has not run
  loader,      \* the driver's module: unloaded, walking the bus, or loaded
  visited,     \* children the walk of driver_register has been to
  checking,    \* the child it has matched but not locked yet
  oops,        \* a NULL, freed or stack address was followed
  late,        \* history: driver_register met a child nobody had bound
  refused,     \* history: nodes whose registration failed
  hostFailed,  \* history: the host could not be registered
  noMemory     \* history: there was no memory for a child

hostVars == <<host, todo>>
deviceVars == <<populated, child, driver, bound, probed>>
loaderVars == <<loader, visited, checking>>
failures == <<hostFailed, noMemory>>
history == <<late, refused, failures>>
vars == <<hostVars, deviceVars, loaderVars, oops, history>>

OnBus == {n \in Nodes : child[n] # "none"}
InProbe == {n \in Nodes : child[n] = "probing"}

Init ==
  /\ host = "none" /\ todo = {}
  /\ populated = [n \in Nodes |-> FALSE] /\ child = [n \in Nodes |-> "none"]
  /\ driver = [n \in Nodes |-> FALSE] /\ bound = [n \in Nodes |-> FALSE]
  /\ probed = [n \in Nodes |-> FALSE]
  /\ loader = "unloaded" /\ visited = {} /\ checking = NoNode
  /\ oops = FALSE /\ late = FALSE /\ refused = {}
  /\ hostFailed = FALSE /\ noMemory = FALSE

--------------------------------------------------------------------------------
(* pi_bus_rpmsg_probe registers the platform driver, whose probe registers *)
(* the host and starts on its children.                                    *)
ChannelUp ==
  /\ host = "none" /\ ~oops
  /\ host' = "probing" /\ todo' = Nodes
  /\ UNCHANGED <<deviceVars, loaderVars, oops, history>>

(* A host that cannot be allocated or registered: its own error path frees *)
(* a stack address, or the caller goes on with NULL.                       *)
HostFails ==
  /\ host = "none" /\ ~oops
  /\ oops' = TRUE /\ hostFailed' = TRUE
  /\ UNCHANGED <<hostVars, deviceVars, loaderVars, late, refused, noMemory>>

(* The next child, when the one before has been attached. *)
AllAttached == \A n \in Nodes : child[n] \in {"none", "attached"}
AtNode(n) == host = "probing" /\ n \in todo /\ AllAttached /\ ~oops

SkipNode(n) ==
  /\ AtNode(n) /\ populated[n]
  /\ todo' = todo \ {n}
  /\ UNCHANGED <<host, deviceVars, loaderVars, oops, history>>

(* Every child is called "pidev": the bus takes one at a time. *)
AddChild(n) ==
  /\ AtNode(n) /\ ~populated[n] /\ OnBus = {}
  /\ populated' = [populated EXCEPT ![n] = TRUE]
  /\ child' = [child EXCEPT ![n] = "added"]
  /\ todo' = todo \ {n}
  /\ UNCHANGED <<host, driver, bound, probed, loaderVars, oops, history>>

(* A node without modalias, or the name taken: NULL, which the caller      *)
(* takes for a device.  The node keeps its flag.                           *)
RefuseNode(n) ==
  /\ AtNode(n) /\ ~populated[n]
  /\ populated' = [populated EXCEPT ![n] = TRUE]
  /\ refused' = refused \cup {n}
  /\ todo' = todo \ {n}
  /\ UNCHANGED <<host, child, driver, bound, probed, loaderVars, oops, late, failures>>

(* No memory for the pi_device: the result of devm_kzalloc is not tested,  *)
(* and of_modalias_node writes the modalias of a node that has one behind  *)
(* the NULL pointer.                                                       *)
NoMemory(n) ==
  /\ AtNode(n) /\ ~populated[n]
  /\ populated' = [populated EXCEPT ![n] = TRUE]
  /\ todo' = todo \ {n}
  /\ oops' = TRUE /\ noMemory' = TRUE
  /\ UNCHANGED <<host, child, driver, bound, probed, loaderVars, late, refused, hostFailed>>

(* The second half of device_register, under the device's lock: a device   *)
(* that has its driver already is bound as it is, without a probe; one     *)
(* that matches is probed.                                                 *)
AttachBound(n) ==
  /\ child[n] = "added" /\ driver[n] /\ ~oops
  /\ child' = [child EXCEPT ![n] = "attached"]
  /\ bound' = [bound EXCEPT ![n] = TRUE]
  /\ UNCHANGED <<populated, driver, probed, hostVars, loaderVars, oops, history>>

AttachMatch(n) ==
  /\ child[n] = "added" /\ ~driver[n] /\ ~oops
  /\ IF loader # "unloaded" /\ n \in Matching
     THEN /\ driver' = [driver EXCEPT ![n] = TRUE]
          /\ child' = [child EXCEPT ![n] = "probing"]
     ELSE /\ child' = [child EXCEPT ![n] = "attached"]
          /\ UNCHANGED driver
  /\ UNCHANGED <<populated, bound, probed, hostVars, loaderVars, oops, history>>

(* Mutant: pi_core_bus_probe drops the error of the driver's probe. *)
ProbeResultIgnored(n, ok) ==
  /\ driver' = [driver EXCEPT ![n] = TRUE]
  /\ bound' = [bound EXCEPT ![n] = TRUE]
  /\ probed' = [probed EXCEPT ![n] = ok]

(* pi_core_bus_probe calls the driver's; the core binds the device, or     *)
(* takes the driver away again.                                            *)
ProbeResult(n, ok) ==
  /\ driver' = [driver EXCEPT ![n] = ok]
  /\ bound' = [bound EXCEPT ![n] = ok]
  /\ probed' = [probed EXCEPT ![n] = ok]

AttachProbe(n) ==
  /\ child[n] = "probing" /\ ~oops
  /\ child' = [child EXCEPT ![n] = "attached"]
  /\ \E ok \in BOOLEAN : ProbeResult(n, ok)
  /\ UNCHANGED <<populated, hostVars, loaderVars, oops, history>>

HostReady ==
  /\ host = "probing" /\ todo = {} /\ AllAttached /\ ~oops
  /\ host' = "registered"
  /\ UNCHANGED <<todo, deviceVars, loaderVars, oops, history>>

--------------------------------------------------------------------------------
(* pi_bus_rpmsg_remove unregisters the platform driver, whose remove calls *)
(* pi_core_unregister_host: each child, then the host.                     *)
ChannelDown ==
  /\ host = "registered" /\ ~oops
  /\ host' = "removing"
  /\ UNCHANGED <<todo, deviceVars, loaderVars, oops, history>>

(* Mutant: the node keeps its flag. *)
RemoveChildPopulated(n) ==
  /\ host = "removing" /\ child[n] # "none" /\ ~oops
  /\ child' = [child EXCEPT ![n] = "none"]
  /\ driver' = [driver EXCEPT ![n] = FALSE]
  /\ bound' = [bound EXCEPT ![n] = FALSE]
  /\ probed' = [probed EXCEPT ![n] = FALSE]
  /\ oops' = (driver[n] /\ ~bound[n])
  /\ checking' = IF checking = n THEN NoNode ELSE checking
  /\ UNCHANGED <<hostVars, populated, loader, visited, history>>

(* pi_core_unregister_pidev.  The core calls the remove of the driver that *)
(* is set, and takes the device off that driver's list: a device that was  *)
(* never put there, or a driver that is gone, is the end of it.            *)
RemoveChild(n) ==
  /\ host = "removing" /\ child[n] # "none" /\ ~oops
  /\ populated' = [populated EXCEPT ![n] = FALSE]
  /\ child' = [child EXCEPT ![n] = "none"]
  /\ driver' = [driver EXCEPT ![n] = FALSE]
  /\ bound' = [bound EXCEPT ![n] = FALSE]
  /\ probed' = [probed EXCEPT ![n] = FALSE]
  /\ oops' = (driver[n] /\ ~bound[n])
  /\ checking' = IF checking = n THEN NoNode ELSE checking
  /\ UNCHANGED <<hostVars, loader, visited, history>>

RemoveHost ==
  /\ host = "removing" /\ OnBus = {} /\ ~oops
  /\ host' = "none"
  /\ UNCHANGED <<todo, deviceVars, loaderVars, oops, history>>

--------------------------------------------------------------------------------
(* __pi_register_driver: the driver is on the bus, and driver_register     *)
(* walks the devices.                                                      *)
Load ==
  /\ loader = "unloaded" /\ ~oops
  /\ loader' = "walking" /\ visited' = {}
  /\ UNCHANGED <<hostVars, deviceVars, checking, oops, history>>

(* pi_core_bus_match, called without the device's lock. *)
WalkMatch(n) ==
  /\ loader = "walking" /\ checking = NoNode /\ n \in OnBus \ visited /\ ~oops
  /\ visited' = visited \cup {n}
  /\ IF n \in Matching
     THEN /\ driver' = [driver EXCEPT ![n] = TRUE]
          /\ checking' = n
          /\ late' = (late \/ ~driver[n])
     ELSE UNCHANGED <<driver, checking, late>>
  /\ UNCHANGED <<hostVars, populated, child, bound, probed, loader, oops, refused, failures>>

(* Under the lock the core probes only what has no driver by now: what the *)
(* match has just set is taken for a driver that is there.                 *)
WalkCheck ==
  /\ checking \in Nodes \ InProbe /\ ~oops
  /\ IF driver[checking]
     THEN UNCHANGED <<driver, bound, probed>>
     ELSE \E ok \in BOOLEAN : ProbeResult(checking, ok)
  /\ checking' = NoNode
  /\ UNCHANGED <<hostVars, populated, child, loader, visited, oops, history>>

WalkDone ==
  /\ loader = "walking" /\ checking = NoNode /\ OnBus \subseteq visited /\ ~oops
  /\ loader' = "loaded"
  /\ UNCHANGED <<hostVars, deviceVars, visited, checking, oops, history>>

(* Mutant: the devices keep the driver that goes away. *)
UnloadKeeps ==
  /\ loader = "loaded" /\ InProbe = {} /\ ~oops
  /\ loader' = "unloaded"
  /\ probed' = [n \in Nodes |-> FALSE]
  /\ bound' = [n \in Nodes |-> FALSE]
  /\ UNCHANGED <<hostVars, populated, child, driver, visited, checking, oops, history>>

(* pi_unregister_driver waits for a probe and then detaches the devices in *)
(* the driver's list.                                                      *)
Unload ==
  /\ loader = "loaded" /\ InProbe = {} /\ ~oops
  /\ loader' = "unloaded"
  /\ driver' = [n \in Nodes |-> driver[n] /\ ~bound[n]]
  /\ probed' = [n \in Nodes |-> FALSE]
  /\ bound' = [n \in Nodes |-> FALSE]
  /\ UNCHANGED <<hostVars, populated, child, visited, checking, oops, history>>

--------------------------------------------------------------------------------
Attach(n) == AttachBound(n) \/ AttachMatch(n) \/ AttachProbe(n)
Registering ==
  \/ HostReady
  \/ \E n \in Nodes : SkipNode(n) \/ AddChild(n) \/ RefuseNode(n) \/ NoMemory(n) \/ Attach(n)
Removing == RemoveHost \/ \E n \in Nodes : RemoveChild(n)
Walking == WalkCheck \/ WalkDone \/ \E n \in Nodes : WalkMatch(n)

Next ==
  \/ ChannelUp \/ HostFails \/ Registering \/ ChannelDown \/ Removing
  \/ Load \/ Walking \/ Unload

Spec == Init /\ [][Next]_vars

--------------------------------------------------------------------------------
TypeOK ==
  /\ host \in {"none", "probing", "registered", "removing"} /\ todo \subseteq Nodes
  /\ populated \in [Nodes -> BOOLEAN]
  /\ child \in [Nodes -> {"none", "added", "probing", "attached"}]
  /\ driver \in [Nodes -> BOOLEAN] /\ bound \in [Nodes -> BOOLEAN]
  /\ probed \in [Nodes -> BOOLEAN]
  /\ loader \in {"unloaded", "walking", "loaded"} /\ visited \subseteq Nodes
  /\ checking \in Nodes \cup {NoNode}
  /\ todo # {} => host = "probing"
  /\ checking # NoNode => loader = "walking" /\ checking \in visited \cap OnBus
  /\ oops \in BOOLEAN /\ late \in BOOLEAN /\ refused \subseteq Nodes
  /\ hostFailed \in BOOLEAN /\ noMemory \in BOOLEAN

(* Devices exist only under a host, and a node has its OF_POPULATED flag   *)
(* just when it has a device or was refused one: once refused, it never    *)
(* gets one, however often the channel comes back.  Short of memory the    *)
(* kernel has stopped over the node it had come to.                        *)
PopulatedOnce ==
  ~noMemory =>
    /\ host = "none" => OnBus = {}
    /\ \A n \in Nodes : populated[n] <=> (n \in OnBus) # (n \in refused)

(* As long as no driver was registered over a device that nobody had       *)
(* bound, dev->driver is what it is on other buses: set while a loaded     *)
(* driver is bound to the device by a probe of its own, or probing.        *)
DriverMeansProbed ==
  ~late =>
    \A n \in Nodes :
      /\ bound[n] = probed[n]
      /\ driver[n] => (bound[n] \/ n \in InProbe) /\ loader # "unloaded" /\ n \in Matching
      /\ bound[n] => driver[n]

(* A kernel oops has one of three causes: the host could not be            *)
(* registered, there was no memory for a child, or a driver was loaded     *)
(* after the device it is for.                                             *)
OopsTraced == oops => late \/ hostFailed \/ noMemory

--------------------------------------------------------------------------------
(* What the code does not keep; each has a cfg whose run shows how.        *)

(* pi_core_register_devices returns 0 "if all the child devices are        *)
(* registered successfully".                                               *)
ReadyMeansRegistered == host = "registered" => OnBus = Nodes

(* The driver's remove is called for devices it has probed. *)
RemoveAfterProbe == [][\A n \in Nodes : bound[n] /\ ~bound'[n] => probed[n]]_vars

(* No oops while the host can be registered and there is memory. *)
NoOops == oops => hostFailed \/ noMemory
================================================================================
