----------------------------- MODULE VxlanProofs -----------------------------
(* The safety properties of the vxlan link, for any number of retries,       *)
(* failures and kills.                                                       *)
EXTENDS Vxlan, TLAPS

\* How far init_vxlan has come when no link was there at its start: fewer
\* failures than one loop retries leave no loop by its counter, so each loop
\* has had its command done.
Progress ==
    /\ pc = "exists" => link = found /\ failed = 0 /\ retry = 0
    /\ found = "absent" =>
          /\ pc \in {"exists", "add_link"} => link = "absent"
          /\ pc \in {"add_link", "set_link", "set_route"} => retry <= failed
          /\ pc = "set_link" /\ failed < MaxRetries => link = "down" /\ fdb = "none"
          /\ pc = "set_route" /\ failed < MaxRetries => link = "up" /\ fdb = "none"
          /\ pc = "running" /\ failed < MaxRetries => link = "up" /\ fdb = "this_tun"

\* Before the first fault and the first kill a process that does not run has
\* no link; a stop that never reaches the deletion comes of a fault.
CleanSoFar ==
    /\ faults = 0 => tun = "up"
    /\ faults = 0 /\ crashes = 0 /\ pc \in {"down", "exists"} => link = "absent"

IInv == TypeOK /\ Progress /\ CleanSoFar

LEMMA InitIInv == Init => IInv
  BY RetriesAssumption, BoundsAssumption
     DEF Init, IInv, TypeOK, Progress, CleanSoFar, Points

LEMMA StartIInv == IInv /\ Start => IInv'
  <1> SUFFICES ASSUME IInv, Start PROVE IInv'
    OBVIOUS
  <1> USE RetriesAssumption, BoundsAssumption DEF IInv, Start, Fault, kernel
  <1>1. TypeOK'
    BY DEF TypeOK, Points
  <1>2. Progress'
    BY DEF TypeOK, Progress
  <1>3. CleanSoFar'
    BY DEF TypeOK, CleanSoFar
  <1>. QED  BY <1>1, <1>2, <1>3

LEMMA VxlanExistsIInv == IInv /\ VxlanExists => IInv'
  <1> SUFFICES ASSUME IInv, VxlanExists PROVE IInv'
    OBVIOUS
  <1> USE RetriesAssumption, BoundsAssumption DEF IInv, VxlanExists, Fault, kernel
  <1>1. TypeOK'
    BY DEF TypeOK, Points
  <1>2. Progress'
    <2>1. CASE pc' = "running"
      BY <2>1 DEF TypeOK, Progress
    <2>2. CASE pc' = "add_link"
      BY <2>2 DEF TypeOK, Progress
    <2>. QED  BY <2>1, <2>2
  <1>3. CleanSoFar'
    BY DEF TypeOK, CleanSoFar
  <1>. QED  BY <1>1, <1>2, <1>3

LEMMA AddLinkIInv == IInv /\ AddLink => IInv'
  <1> SUFFICES ASSUME IInv, AddLink PROVE IInv'
    OBVIOUS
  <1> USE RetriesAssumption, BoundsAssumption DEF IInv, AddLink, Try, CommandFails, GiveUp, Fault,
         kernel
  <1>1. TypeOK'
    BY DEF TypeOK, Points
  <1>2. Progress'
    BY DEF TypeOK, Progress
  <1>3. CleanSoFar'
    BY DEF TypeOK, CleanSoFar
  <1>. QED  BY <1>1, <1>2, <1>3

LEMMA SetLinkIInv == IInv /\ SetLink => IInv'
  <1> SUFFICES ASSUME IInv, SetLink PROVE IInv'
    OBVIOUS
  <1> USE RetriesAssumption, BoundsAssumption DEF IInv, SetLink, Try, CommandFails, GiveUp, Fault,
         kernel
  <1>1. TypeOK'
    BY DEF TypeOK, Points
  <1>2. Progress'
    BY DEF TypeOK, Progress
  <1>3. CleanSoFar'
    BY DEF TypeOK, CleanSoFar
  <1>. QED  BY <1>1, <1>2, <1>3

LEMMA SetRouteIInv == IInv /\ SetRoute => IInv'
  <1> SUFFICES ASSUME IInv, SetRoute PROVE IInv'
    OBVIOUS
  <1> USE RetriesAssumption, BoundsAssumption DEF IInv, SetRoute, Try, CommandFails, GiveUp, Fault,
         kernel
  <1>1. TypeOK'
    BY DEF TypeOK, Points
  <1>2. Progress'
    BY DEF TypeOK, Progress
  <1>3. CleanSoFar'
    BY DEF TypeOK, CleanSoFar
  <1>. QED  BY <1>1, <1>2, <1>3

LEMMA ShutdownRoutingIInv == IInv /\ ShutdownRouting => IInv'
  <1> SUFFICES ASSUME IInv, ShutdownRouting PROVE IInv'
    OBVIOUS
  <1> USE RetriesAssumption, BoundsAssumption DEF IInv, ShutdownRouting, TunGone, kernel
  <1>1. TypeOK'
    BY DEF TypeOK, Points
  <1>2. Progress'
    BY DEF TypeOK, Progress
  <1>3. CleanSoFar'
    BY DEF TypeOK, CleanSoFar
  <1>. QED  BY <1>1, <1>2, <1>3

LEMMA ShutdownVxlanIInv == IInv /\ ShutdownVxlan => IInv'
  <1> SUFFICES ASSUME IInv, ShutdownVxlan PROVE IInv'
    OBVIOUS
  <1> USE RetriesAssumption, BoundsAssumption DEF IInv, ShutdownVxlan, Fault, kernel
  <1>1. TypeOK'
    BY DEF TypeOK, Points
  <1>2. Progress'
    BY DEF TypeOK, Progress
  <1>3. CleanSoFar'
    BY DEF TypeOK, CleanSoFar
  <1>. QED  BY <1>1, <1>2, <1>3

LEMMA CrashIInv == IInv /\ Crash => IInv'
  <1> SUFFICES ASSUME IInv, Crash PROVE IInv'
    OBVIOUS
  <1> USE RetriesAssumption, BoundsAssumption DEF IInv, Crash, TunGone, kernel
  <1>1. TypeOK'
    BY DEF TypeOK, Points
  <1>2. Progress'
    BY DEF TypeOK, Progress
  <1>3. CleanSoFar'
    BY DEF TypeOK, CleanSoFar
  <1>. QED  BY <1>1, <1>2, <1>3

LEMMA NextIInv == IInv /\ [Next]_vars => IInv'
  <1> SUFFICES ASSUME IInv, [Next]_vars PROVE IInv'
    OBVIOUS
  <1>1. CASE Start
    BY <1>1, StartIInv
  <1>2. CASE InitVxlan
    BY <1>2, VxlanExistsIInv, AddLinkIInv, SetLinkIInv, SetRouteIInv DEF InitVxlan
  <1>3. CASE ShutdownRouting \/ ShutdownVxlan \/ Crash
    BY <1>3, ShutdownRoutingIInv, ShutdownVxlanIInv, CrashIInv
  <1>4. CASE UNCHANGED vars
    BY <1>4 DEF vars, kernel, IInv, TypeOK, Progress, CleanSoFar
  <1>. QED  BY <1>1, <1>2, <1>3, <1>4 DEF Next

LEMMA AlwaysIInv == Spec => []IInv
  BY InitIInv, NextIInv, PTL DEF Spec

\* Every variable keeps its range whatever fails and whenever the process is
\* killed; in particular no entry is left without a link.
THEOREM TypeCorrect == Spec => []TypeOK
  <1>1. IInv => TypeOK
    BY DEF IInv
  <1>. QED  BY <1>1, AlwaysIInv, PTL

\* The retry loops of init_vxlan (vxlan.c:44-82) do their work: starting
\* without a link, fewer failures than one loop retries leave the link up and
\* led to this process, however the failures fall on the three loops.
THEOREM RetriesHelp == Spec => []RetriesSuffice
  <1>1. IInv => RetriesSuffice
    BY DEF IInv, Progress, RetriesSuffice
  <1>. QED  BY <1>1, AlwaysIInv, PTL

\* Without faults and kills every stop (vxlan.c:84-94) leaves the kernel as
\* the first start found it.
THEOREM StopsClean == Spec => []StopCleans
  <1>1. IInv => StopCleans
    BY DEF IInv, CleanSoFar, StopCleans
  <1>. QED  BY <1>1, AlwaysIInv, PTL
=============================================================================
