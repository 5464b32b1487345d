------------------------------ MODULE PiBusProofs ------------------------------
(***************************************************************************)
(* Proofs about PiBus for every set of nodes and of matching nodes.  What  *)
(* the invariants lack to be inductive is about the devices between the    *)
(* two halves of their registration, and about the child the walk has      *)
(* matched and not locked yet.                                             *)
(***************************************************************************)
EXTENDS PiBus, TLAPS

(* A device is being registered only while the host is being probed, one   *)
(* that is being probed has a loaded driver that matches it, and so has    *)
(* the device the walk is at.                                              *)
Registration ==
  /\ \A n \in Nodes : child[n] \in {"added", "probing"} => host = "probing"
  /\ \A n \in InProbe : driver[n] /\ loader # "unloaded" /\ n \in Matching
  /\ checking # NoNode => checking \in Matching

OneChild == \A m, n \in OnBus : m = n
NoneRefusedOnBus == OnBus \cap refused = {}
StopsWithoutMemory == noMemory => oops

Inv ==
  /\ TypeOK /\ PopulatedOnce /\ OneChild /\ NoneRefusedOnBus /\ Registration
  /\ DriverMeansProbed /\ StopsWithoutMemory

(* Initially no device exists, and nothing is loaded. *)
LEMMA InitInv == Init => Inv /\ OopsTraced
BY PiBusAssumption DEF Init, Inv, TypeOK, PopulatedOnce, OneChild, NoneRefusedOnBus,
   StopsWithoutMemory, Registration, DriverMeansProbed, OopsTraced, OnBus, InProbe

(* Every step keeps the types. *)
LEMMA StepType == TypeOK /\ [Next]_vars => TypeOK'
<1> SUFFICES ASSUME TypeOK, [Next]_vars PROVE TypeOK'
  OBVIOUS
<1> USE PiBusAssumption DEF TypeOK, OnBus
<1>1. CASE ChannelUp
  BY <1>1 DEF ChannelUp, deviceVars, loaderVars, history, failures
<1>2. CASE HostFails
  BY <1>2 DEF HostFails, hostVars, deviceVars, loaderVars
<1>3. CASE HostReady
  BY <1>3 DEF HostReady, deviceVars, loaderVars, history, failures
<1>4. ASSUME NEW n \in Nodes, SkipNode(n) PROVE TypeOK'
  BY <1>4 DEF SkipNode, AtNode, deviceVars, loaderVars, history, failures
<1>5. ASSUME NEW n \in Nodes, AddChild(n) PROVE TypeOK'
  BY <1>5 DEF AddChild, AtNode, loaderVars, history, failures
<1>6. ASSUME NEW n \in Nodes, RefuseNode(n) PROVE TypeOK'
  BY <1>6 DEF RefuseNode, AtNode, loaderVars, failures
<1>19. ASSUME NEW n \in Nodes, NoMemory(n) PROVE TypeOK'
  BY <1>19 DEF NoMemory, AtNode, loaderVars
<1>7. ASSUME NEW n \in Nodes, AttachBound(n) PROVE TypeOK'
  BY <1>7 DEF AttachBound, hostVars, loaderVars, history, failures
<1>8. ASSUME NEW n \in Nodes, AttachMatch(n) PROVE TypeOK'
  BY <1>8 DEF AttachMatch, hostVars, loaderVars, history, failures
<1>9. ASSUME NEW n \in Nodes, AttachProbe(n) PROVE TypeOK'
  BY <1>9 DEF AttachProbe, ProbeResult, hostVars, loaderVars, history, failures
<1>10. CASE ChannelDown
  BY <1>10 DEF ChannelDown, deviceVars, loaderVars, history, failures
<1>11. ASSUME NEW n \in Nodes, RemoveChild(n) PROVE TypeOK'
  BY <1>11 DEF RemoveChild, hostVars, history, failures
<1>12. CASE RemoveHost
  BY <1>12 DEF RemoveHost, deviceVars, loaderVars, history, failures
<1>13. CASE Load
  BY <1>13 DEF Load, hostVars, deviceVars, history, failures
<1>14. ASSUME NEW n \in Nodes, WalkMatch(n) PROVE TypeOK'
  BY <1>14 DEF WalkMatch, hostVars, failures
<1>15. CASE WalkCheck
  BY <1>15 DEF WalkCheck, ProbeResult, hostVars, history, failures
<1>16. CASE WalkDone
  BY <1>16 DEF WalkDone, hostVars, deviceVars, history, failures
<1>17. CASE Unload
  BY <1>17 DEF Unload, hostVars, history, failures
<1>18. CASE UNCHANGED vars
  BY <1>18 DEF vars, hostVars, deviceVars, loaderVars, history, failures
<1> QED
  BY <1>1, <1>2, <1>3, <1>4, <1>5, <1>6, <1>7, <1>8, <1>9, <1>10, <1>11, <1>12, <1>13,
     <1>14, <1>15, <1>16, <1>17, <1>18, <1>19
     DEF Next, Registering, Attach, Removing, Walking

(* A flag is set where a device appears or is refused, and cleared only    *)
(* where the device goes; the name keeps a second device away; and nothing *)
(* happens after a node without memory.                                    *)
LEMMA StepPopulated ==
  Inv /\ [Next]_vars => (PopulatedOnce /\ OneChild /\ NoneRefusedOnBus /\ StopsWithoutMemory)'
<1> DEFINE Children == PopulatedOnce /\ OneChild /\ NoneRefusedOnBus /\ StopsWithoutMemory
<1> SUFFICES ASSUME Inv, [Next]_vars PROVE Children'
  OBVIOUS
<1> USE DEF Inv, TypeOK, PopulatedOnce, OneChild, NoneRefusedOnBus, StopsWithoutMemory, OnBus
<1>1. ASSUME UNCHANGED <<host, populated, child, refused, noMemory>>, oops => oops' PROVE Children'
  BY <1>1
<1>2. CASE ChannelUp \/ HostReady \/ ChannelDown \/ RemoveHost
  BY <1>2 DEF ChannelUp, HostReady, ChannelDown, RemoveHost, deviceVars, history, failures
<1>3. ASSUME NEW n \in Nodes, AddChild(n) PROVE Children'
  BY <1>3 DEF AddChild, AtNode, history, failures
<1>4. ASSUME NEW n \in Nodes, RefuseNode(n) PROVE Children'
  BY <1>4 DEF RefuseNode, AtNode, failures
<1>10. ASSUME NEW n \in Nodes, NoMemory(n) PROVE Children'
  BY <1>10 DEF NoMemory
<1>5. ASSUME NEW n \in Nodes, Attach(n) PROVE Children'
  BY <1>5 DEF Attach, AttachBound, AttachMatch, AttachProbe, hostVars, history, failures
<1>6. ASSUME NEW n \in Nodes, RemoveChild(n) PROVE Children'
  BY <1>6 DEF RemoveChild, hostVars, history, failures
<1>7. CASE HostFails \/ Load \/ Walking \/ Unload
  <2>1. UNCHANGED <<host, populated, child, refused, noMemory>> /\ (oops => oops')
    BY <1>7 DEF HostFails, Load, Walking, WalkCheck, WalkDone, WalkMatch, Unload,
       hostVars, deviceVars, history, failures
  <2> QED BY <2>1, <1>1
<1>8. ASSUME NEW n \in Nodes, SkipNode(n) PROVE Children'
  BY <1>1, <1>8 DEF SkipNode, deviceVars, history, failures
<1>9. CASE UNCHANGED vars
  BY <1>1, <1>9 DEF vars, hostVars, deviceVars, history, failures
<1> QED
  BY <1>2, <1>3, <1>4, <1>5, <1>6, <1>7, <1>8, <1>9, <1>10 DEF Next, Registering, Removing

(* Every step keeps what is known of the devices being registered and of   *)
(* the child the walk is at.                                               *)
LEMMA StepRegistration == Inv /\ [Next]_vars => Registration'
<1> SUFFICES ASSUME Inv, [Next]_vars PROVE Registration'
  OBVIOUS
<1> USE PiBusAssumption DEF Inv, TypeOK, PopulatedOnce, Registration, OnBus, InProbe
<1>1. CASE UNCHANGED <<host, child, driver, loader, checking>>
  BY <1>1
<1>2. CASE ChannelUp \/ HostReady \/ ChannelDown \/ RemoveHost
  BY <1>2 DEF ChannelUp, HostReady, ChannelDown, RemoveHost, deviceVars, loaderVars, AllAttached
<1>3. ASSUME NEW n \in Nodes, AddChild(n) PROVE Registration'
  BY <1>3 DEF AddChild, AtNode, loaderVars
<1>4. ASSUME NEW n \in Nodes, AttachBound(n) PROVE Registration'
  BY <1>4 DEF AttachBound, hostVars, loaderVars
<1>5. ASSUME NEW n \in Nodes, AttachMatch(n) PROVE Registration'
  BY <1>5 DEF AttachMatch, hostVars, loaderVars
<1>6. ASSUME NEW n \in Nodes, AttachProbe(n) PROVE Registration'
  BY <1>6 DEF AttachProbe, ProbeResult, hostVars, loaderVars
<1>7. ASSUME NEW n \in Nodes, RemoveChild(n) PROVE Registration'
  BY <1>7 DEF RemoveChild, hostVars
<1>8. CASE Load
  BY <1>8 DEF Load, hostVars, deviceVars
<1>9. ASSUME NEW n \in Nodes, WalkMatch(n) PROVE Registration'
  BY <1>9 DEF WalkMatch, hostVars, failures
<1>10. CASE WalkCheck
  BY <1>10 DEF WalkCheck, ProbeResult, hostVars
<1>11. CASE WalkDone
  BY <1>11 DEF WalkDone, hostVars, deviceVars
<1>12. CASE Unload
  BY <1>12 DEF Unload, hostVars
<1>13. CASE HostFails
  BY <1>1, <1>13 DEF HostFails, hostVars, deviceVars, loaderVars
<1>14. ASSUME NEW n \in Nodes, SkipNode(n) \/ RefuseNode(n) \/ NoMemory(n) PROVE Registration'
  BY <1>1, <1>14 DEF SkipNode, RefuseNode, NoMemory, deviceVars, loaderVars
<1>15. CASE UNCHANGED vars
  BY <1>1, <1>15 DEF vars, hostVars, deviceVars, loaderVars
<1> QED
  BY <1>2, <1>3, <1>4, <1>5, <1>6, <1>7, <1>8, <1>9, <1>10, <1>11, <1>12, <1>13, <1>14,
     <1>15 DEF Next, Registering, Attach, Removing, Walking

(* Only a match of a device nobody has bound sets dev->driver without a    *)
(* probe to follow.                                                        *)
LEMMA StepDriver == Inv /\ [Next]_vars => DriverMeansProbed'
<1> SUFFICES ASSUME Inv, [Next]_vars, ~late' PROVE DriverMeansProbed'
  BY DEF DriverMeansProbed
<1> USE PiBusAssumption DEF Inv, TypeOK, Registration, DriverMeansProbed, OnBus, InProbe
<1>1. CASE UNCHANGED <<child, driver, bound, probed, loader, late>>
  BY <1>1
<1>2. ASSUME NEW n \in Nodes, AddChild(n) PROVE DriverMeansProbed'
  BY <1>2 DEF AddChild, AtNode, loaderVars, history, failures
<1>3. ASSUME NEW n \in Nodes, AttachBound(n) PROVE DriverMeansProbed'
  BY <1>3 DEF AttachBound, hostVars, loaderVars, history, failures
<1>4. ASSUME NEW n \in Nodes, AttachMatch(n) PROVE DriverMeansProbed'
  BY <1>4 DEF AttachMatch, hostVars, loaderVars, history, failures
<1>5. ASSUME NEW n \in Nodes, AttachProbe(n) PROVE DriverMeansProbed'
  BY <1>5 DEF AttachProbe, ProbeResult, hostVars, loaderVars, history, failures
<1>6. ASSUME NEW n \in Nodes, RemoveChild(n) PROVE DriverMeansProbed'
  BY <1>6 DEF RemoveChild, hostVars, history, failures
<1>7. CASE Load
  BY <1>7 DEF Load, hostVars, deviceVars, history, failures
<1>8. ASSUME NEW n \in Nodes, WalkMatch(n) PROVE DriverMeansProbed'
  BY <1>8 DEF WalkMatch, hostVars, failures
<1>9. CASE WalkCheck
  BY <1>9 DEF WalkCheck, ProbeResult, hostVars, history, failures
<1>10. CASE WalkDone
  BY <1>10 DEF WalkDone, hostVars, deviceVars, history, failures
<1>11. CASE Unload
  BY <1>11 DEF Unload, hostVars, history, failures
<1>12. CASE HostFails \/ ChannelUp \/ HostReady \/ ChannelDown \/ RemoveHost
  BY <1>1, <1>12 DEF HostFails, ChannelUp, HostReady, ChannelDown, RemoveHost, hostVars,
     deviceVars, loaderVars, history, failures
<1>13. ASSUME NEW n \in Nodes, SkipNode(n) \/ RefuseNode(n) \/ NoMemory(n) PROVE DriverMeansProbed'
  BY <1>1, <1>13 DEF SkipNode, RefuseNode, NoMemory, deviceVars, loaderVars, history, failures
<1>14. CASE UNCHANGED vars
  BY <1>1, <1>14 DEF vars, hostVars, deviceVars, loaderVars, history, failures
<1> QED
  BY <1>2, <1>3, <1>4, <1>5, <1>6, <1>7, <1>8, <1>9, <1>10, <1>11, <1>12, <1>13, <1>14
     DEF Next, Registering, Attach, Removing, Walking

(* Only a host that fails, a child without memory, and a device that is    *)
(* removed with a driver it is not on the list of, are an oops; the third  *)
(* takes a late driver.                                                    *)
LEMMA StepOops == Inv /\ OopsTraced /\ [Next]_vars => OopsTraced'
<1> SUFFICES ASSUME Inv, OopsTraced, [Next]_vars PROVE OopsTraced'
  OBVIOUS
<1> USE DEF OopsTraced
<1>1. CASE HostFails
  BY <1>1 DEF HostFails
<1>2. ASSUME NEW n \in Nodes, RemoveChild(n) PROVE OopsTraced'
  BY <1>2 DEF RemoveChild, history, failures, Inv, TypeOK, Registration, DriverMeansProbed, InProbe
<1>3. CASE UNCHANGED <<oops, late, failures>>
  BY <1>3 DEF failures
<1>8. ASSUME NEW n \in Nodes, NoMemory(n) PROVE OopsTraced'
  BY <1>8 DEF NoMemory
<1>4. CASE ChannelUp \/ HostReady \/ ChannelDown \/ RemoveHost \/ Load \/ WalkCheck \/ WalkDone \/ Unload
  BY <1>3, <1>4 DEF ChannelUp, HostReady, ChannelDown, RemoveHost, Load, WalkCheck, WalkDone,
     Unload, history, failures
<1>5. ASSUME NEW n \in Nodes,
             SkipNode(n) \/ AddChild(n) \/ RefuseNode(n) \/ Attach(n)
      PROVE  OopsTraced'
  BY <1>3, <1>5 DEF SkipNode, AddChild, RefuseNode, Attach, AttachBound, AttachMatch,
     AttachProbe, history, failures
<1>6. ASSUME NEW n \in Nodes, WalkMatch(n) PROVE OopsTraced'
  BY <1>6 DEF WalkMatch
<1>7. CASE UNCHANGED vars
  BY <1>3, <1>7 DEF vars, history, failures
<1> QED
  BY <1>1, <1>2, <1>4, <1>5, <1>6, <1>7, <1>8 DEF Next, Registering, Removing, Walking

--------------------------------------------------------------------------------
LEMMA Inductive == Spec => [](Inv /\ OopsTraced)
<1>1. Inv /\ OopsTraced /\ [Next]_vars => (Inv /\ OopsTraced)'
  BY StepType, StepPopulated, StepRegistration, StepDriver, StepOops DEF Inv
<1> QED BY <1>1, InitInv, PTL DEF Spec

(* The types, for every set of nodes. *)
THEOREM TypeCorrect == Spec => []TypeOK
BY Inductive, PTL DEF Inv

(* A node has its OF_POPULATED flag just when it has a device or was       *)
(* refused one, and there is no device without a host.                     *)
THEOREM FlagFollowsDevice == Spec => []PopulatedOnce
BY Inductive, PTL DEF Inv

(* Unless a driver is registered over a device that nobody has bound,      *)
(* dev->driver, the driver's list and its probe agree on every device.     *)
THEOREM BoundByProbe == Spec => []DriverMeansProbed
BY Inductive, PTL DEF Inv

(* No oops but for a host that failed, a child without memory or a driver  *)
(* loaded late.                                                            *)
THEOREM OopsHasCause == Spec => []OopsTraced
BY Inductive, PTL DEF Inv
================================================================================
