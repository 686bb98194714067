------------------------------- MODULE Vxlan -------------------------------
(***************************************************************************)
(* Setting up and tearing down the vxlan link (src/src/vxlan.c) around the *)
(* life of the process: init_routing and shutdown_routing of               *)
(* src/src/route.c, and kills.  The link, its state and its forwarding     *)
(* entry are the kernel's and outlive the process; the tun device that the *)
(* entry names does not (src/src/tun.c opens it without TUNSETPERSIST).    *)
(* The other commands of init_tun are left out.                            *)
(***************************************************************************)
EXTENDS Integers

CONSTANTS
    MaxRetries,    \* server.vxlan_max_retries
    MaxFaults,     \* bound: commands that fail though the kernel would do them
    MaxCrashes     \* bound: times the process is killed

ASSUME RetriesAssumption == MaxRetries \in Nat
ASSUME BoundsAssumption == MaxFaults \in Nat /\ MaxCrashes \in Nat

VARIABLES
    pc,         \* where the process is, see Points
    retry,      \* the counter of the loop it is in
    tun,        \* what init_tun came to: "up" or "failed"
    success,    \* the variable of init_vxlan: -1, or the status of a command
    link,       \* the vxlan link
    fdb,        \* its entry for 00:00:00:00:00:00: the tun device it leads to
    faults, crashes,
    found,      \* history: the link when init_vxlan was called
    failed      \* history: commands that have failed since

kernel == <<link, fdb>>
vars   == <<pc, retry, tun, success, kernel, faults, crashes, found, failed>>

Points == {"down", "exists", "add_link", "set_link", "set_route", "running", "delete"}

Init ==
    /\ pc = "down" /\ retry = 0 /\ tun = "up" /\ success = -1
    /\ link = "absent" /\ fdb = "none"
    /\ faults = 0 /\ crashes = 0
    /\ found = "absent" /\ failed = 0

\* A call that could succeed fails all the same.
Fault == faults < MaxFaults /\ faults' = faults + 1

\* init_tun: a new tun device, which no entry in the kernel leads to.  It may
\* fail, and init_routing goes on: route.c:86 ignores what it returns.
Start ==
    /\ pc = "down"
    /\ pc' = "exists" /\ retry' = 0 /\ success' = -1
    /\ \/ tun' = "up" /\ UNCHANGED faults
       \/ tun' = "failed" /\ Fault
    /\ found' = link /\ failed' = 0
    /\ UNCHANGED <<kernel, crashes>>

\* init_vxlan when it does not return at once: success is still -1 for a
\* link that exists.
VxlanExists ==
    /\ pc = "exists"
    /\ \/ link # "absent" /\ pc' = "running" /\ UNCHANGED <<faults, failed>>
       \/ link = "absent" /\ pc' = "add_link" /\ UNCHANGED <<faults, failed>>
       \/ link # "absent" /\ Fault /\ pc' = "add_link" /\ failed' = failed + 1
    /\ UNCHANGED <<retry, tun, success, kernel, crashes, found>>

\* A status that is not 0: 256, for exit(1), when the kernel refuses or the
\* command fails by itself; -1 when fork fails, which it may do either way.
CommandFails(can) ==
    \/ ~can /\ success' = 256 /\ UNCHANGED faults
    \/ can /\ Fault /\ success' = 256
    \/ Fault /\ success' = -1

\* Variant with a bug, for the mutants of PROJECT.json: the counter is reset
\* by every failure.
TryForever(here, next, can, effect) ==
    /\ pc = here /\ retry < MaxRetries
    /\ \/ /\ can /\ effect
          /\ success' = 0 /\ pc' = next
          /\ UNCHANGED <<faults, failed>>
       \/ /\ CommandFails(can)
          /\ UNCHANGED <<pc, kernel, failed>>
    /\ retry' = 0
    /\ UNCHANGED <<tun, crashes, found>>

\* One pass of a retry loop; one left by its counter goes on like one left by a
\* success unless the last status is -1.
Try(here, next, can, effect) ==
    /\ pc = here /\ retry < MaxRetries
    /\ \/ /\ can /\ effect
          /\ success' = 0 /\ pc' = next /\ retry' = 0
          /\ UNCHANGED <<faults, failed>>
       \/ /\ CommandFails(can)
          /\ retry' = retry + 1 /\ failed' = failed + 1
          /\ UNCHANGED <<pc, kernel>>
    /\ UNCHANGED <<tun, crashes, found>>

GiveUp(here, next) ==
    /\ pc = here /\ retry = MaxRetries
    /\ pc' = IF success = -1 THEN "running" ELSE next
    /\ retry' = 0
    /\ UNCHANGED <<tun, success, kernel, faults, crashes, found, failed>>

AddLink ==
    \/ Try("add_link", "set_link", link = "absent", link' = "down" /\ fdb' = fdb)
    \/ GiveUp("add_link", "set_link")

\* Variant with a bug: the loop is left after the first status, whatever it is.
SetLinkOnce ==
    /\ pc = "set_link"
    /\ \/ link # "absent" /\ link' = "up" /\ success' = 0 /\ UNCHANGED <<faults, failed>>
       \/ Fault /\ success' = 256 /\ failed' = failed + 1 /\ link' = link
    /\ pc' = "set_route"
    /\ UNCHANGED <<retry, tun, fdb, crashes, found>>

SetLink ==
    \/ Try("set_link", "set_route", link # "absent", link' = "up" /\ fdb' = fdb)
    \/ GiveUp("set_link", "set_route")

\* bridge fdb add refuses a second entry.  Without a tun device its name is
\* NULL, which cuts the command short: it fails.
SetRoute ==
    \/ Try("set_route", "running", link # "absent" /\ fdb = "none" /\ tun = "up",
           fdb' = "this_tun" /\ link' = link)
    \/ GiveUp("set_route", "running")

\* The process goes, and its tun device with it.
TunGone == fdb' = IF fdb = "this_tun" THEN "dead_tun" ELSE fdb

\* The signal handler: shutdown_tun and shutdown_udp.  Without a tun device
\* async_io_shutdown walks queues that were never initialised and the process
\* ends there, before shutdown_vxlan.
ShutdownRouting ==
    /\ pc = "running"
    /\ pc' = IF tun = "up" THEN "delete" ELSE "down"
    /\ TunGone
    /\ UNCHANGED <<retry, tun, success, link, faults, crashes, found, failed>>

\* Variant with a bug: the status of vxlan_exists is read as a truth value.
ShutdownVxlanInverted ==
    /\ pc = "delete"
    /\ pc' = "down"
    /\ UNCHANGED <<retry, tun, success, kernel, faults, crashes, found, failed>>

\* shutdown_vxlan.  Either of its two commands may fail; it does not retry.
ShutdownVxlan ==
    /\ pc = "delete"
    /\ pc' = "down"
    /\ \/ link' = "absent" /\ fdb' = "none" /\ UNCHANGED faults
       \/ link # "absent" /\ Fault /\ UNCHANGED kernel
    /\ UNCHANGED <<retry, tun, success, crashes, found, failed>>

\* The kill of a process, of SIGTERM and SIGUSR1 too: redd.c:151 starts one
\* handle three times, and only SIGINT stays handled.
Crash ==
    /\ pc # "down" /\ crashes < MaxCrashes
    /\ crashes' = crashes + 1
    /\ pc' = "down"
    /\ TunGone
    /\ UNCHANGED <<retry, tun, success, link, faults, found, failed>>

InitVxlan == VxlanExists \/ AddLink \/ SetLink \/ SetRoute

Next == Start \/ InitVxlan \/ ShutdownRouting \/ ShutdownVxlan \/ Crash

\* The process runs: a command ends, and sleep(1) returns.
Fairness == WF_vars(InitVxlan)

Spec == Init /\ [][Next]_vars /\ Fairness

----------------------------------------------------------------------------
(* Properties.                                                             *)

TypeOK ==
    /\ pc \in Points
    /\ retry \in Nat /\ retry <= MaxRetries
    /\ tun \in {"up", "failed"} /\ success \in {-1, 0, 256}
    /\ link \in {"absent", "down", "up"} /\ found \in {"absent", "down", "up"}
    /\ fdb \in {"none", "this_tun", "dead_tun"}
    /\ (link = "absent" => fdb = "none")
    /\ faults \in Nat /\ faults <= MaxFaults /\ crashes \in Nat /\ crashes <= MaxCrashes
    /\ failed \in Nat

\* When no link was there at the start and fewer commands failed than one
\* loop retries, the server runs with the link up and the multicast of the
\* link led to its own tun device.
RetriesSuffice ==
    pc = "running" /\ found = "absent" /\ failed < MaxRetries =>
        link = "up" /\ fdb = "this_tun"

\* An orderly stop leaves nothing behind in the kernel, unless the deletion
\* itself failed or an earlier process was killed.
StopCleans ==
    pc = "down" /\ faults = 0 /\ crashes = 0 => link = "absent"

\* init_vxlan comes to an end however its commands fare: the main loop is
\* reached, unless the process is killed.
Starts == pc = "exists" ~> pc \in {"running", "down"}

\* Whenever the server runs and no command failed, the link is up and leads
\* to its tun device.  It fails after a kill: init_vxlan finds the old link
\* and returns without setting it up or giving it the entry for the new tun.
Routed == pc = "running" /\ failed = 0 => link = "up" /\ fdb = "this_tun"
=============================================================================
