----------------------------- MODULE UpnpMapper -----------------------------
(***************************************************************************)
(* The thread that keeps the host's ports open on the router (upnp.cpp):   *)
(* it finds the router, maps each port with a lease or, for routers that   *)
(* know none, for good, opens pinholes for IPv6, sleeps and does it again; *)
(* at shutdown it removes the mappings, and leaves the pinholes to their   *)
(* lease.  The router is external: it may be out of reach, forget its      *)
(* table, know no leases, or refuse a call.                                *)
(***************************************************************************)
EXTENDS Integers

CONSTANTS
  UpPorts,     \* ports to map, the web interface's only if it is open: 1 .. n
  UpLifetime,  \* PORT_MAPPING_LIFETIME, in refresh intervals
  UpRouters,   \* kinds of router: "leases", "static", "strange" (no queries)
  UpMaxEvents  \* bound: router restarts, losses of the connection, refusals

ASSUME UpAssumption == UpPorts \in Nat /\ UpLifetime \in Nat /\ UpLifetime > 1

VARIABLES
  upRouter,   \* the kind of router there is
  upGuarded,  \* it lets nobody delete another machine's mapping
  upReach,    \* the router answers
  upOwner,    \* per port: "none", "us", "other"
  upLease,    \* per port: intervals left, 0 when for good
  upPinholes, \* pinholes of the IPv6 firewall: intervals left, 0 for none
  upMapped,   \* mapped
  upStep,     \* "discover", "map", "pinholes", "sleep", "unmap", "ended"
  upPort,     \* the next port of the loop, of mapping or of unmapping
  upShutdown, \* the shutdown event
  upRefused,  \* the router left a call of this round unanswered, or refused it
  upKept,     \* ports whose deletion at the end did not succeed
  upEvents    \* router events so far

upVars == <<upRouter, upGuarded, upReach, upOwner, upLease, upPinholes, upMapped, upStep, upPort, upShutdown,
            upRefused, upKept, upEvents>>

\* The loop goes over all mappings.
LastPort == UpPorts

\* The wait for the shutdown event between rounds has ended.
NextRound(mapped) == IF upShutdown THEN (IF mapped THEN "unmap" ELSE "ended") ELSE "sleep"

\* upnpDiscover and UPNP_GetValidIGD.
Discover ==
  /\ upStep = "discover"
  /\ \/ upReach /\ upStep' = "map" /\ upPort' = 1 /\ UNCHANGED upMapped
     \/ ~upReach /\ upMapped' = FALSE /\ upStep' = NextRound(FALSE) /\ UNCHANGED upPort
  /\ upRefused' = FALSE
  /\ UNCHANGED <<upRouter, upGuarded, upReach, upOwner, upLease, upPinholes, upShutdown, upEvents, upKept>>

\* The lease asked for and, when it is refused, none: the lease got.
Granted(indefinite) == IF indefinite \/ upRouter = "static" THEN 0 ELSE UpLifetime

\* A call the router refuses is one of its events.
Refuses == upEvents < UpMaxEvents /\ upEvents' = upEvents + 1
Accepts == UNCHANGED upEvents

\* map_upnp_port: what is there is looked up; an own entry for good is left
\* alone, another machine's is deleted, or written over by a router without
\* queries, if the router allows it.  A refusal to map may follow the deletion.
MapUpnpPort(p) ==
  LET queried == upRouter # "strange"
      static == queried /\ upOwner[p] = "us" /\ upLease[p] = 0
  IN IF static \/ (upOwner[p] = "other" /\ upGuarded)
       THEN Accepts /\ UNCHANGED <<upOwner, upLease, upRefused>>
       ELSE \/ /\ Accepts /\ UNCHANGED upRefused
               /\ upOwner' = [upOwner EXCEPT ![p] = "us"]
               /\ upLease' = [upLease EXCEPT ![p] = Granted(~queried)]
            \/ /\ Refuses /\ upRefused' = TRUE /\ UNCHANGED upLease
               /\ \/ UNCHANGED upOwner
                  \/ queried /\ upOwner[p] = "other" /\ upOwner' = [upOwner EXCEPT ![p] = "none"]

\* One port of the loop, which shutdown ends.
MapPort ==
  /\ upStep = "map"
  /\ IF upPort > LastPort \/ upShutdown
       THEN upStep' = "pinholes" /\ upPort' = 1 /\ UNCHANGED <<upOwner, upLease, upRefused, upEvents>>
       ELSE /\ upPort' = upPort + 1 /\ UNCHANGED upStep
            /\ IF upReach THEN MapUpnpPort(upPort)
               ELSE upRefused' = TRUE /\ UNCHANGED <<upOwner, upLease, upEvents>>
  /\ UNCHANGED <<upRouter, upGuarded, upReach, upPinholes, upMapped, upShutdown, upKept>>

\* create_ipv6_pinholes: if the firewall allows them; then the round is done.
CreatePinholes ==
  /\ upStep = "pinholes"
  /\ \/ upReach /\ ~upShutdown /\ upPinholes' = UpLifetime
     \/ UNCHANGED upPinholes
  /\ upMapped' = TRUE /\ upStep' = NextRound(TRUE)
  /\ UNCHANGED <<upRouter, upGuarded, upReach, upOwner, upLease, upPort, upShutdown, upRefused, upEvents, upKept>>

\* An interval passes on the router: leases grow shorter and end.
Ages ==
  /\ upLease' = [p \in 1 .. UpPorts |-> IF upLease[p] = 0 THEN 0 ELSE upLease[p] - 1]
  /\ upOwner' = [p \in 1 .. UpPorts |-> IF upLease[p] = 1 THEN "none" ELSE upOwner[p]]
  /\ upPinholes' = IF upPinholes = 0 THEN 0 ELSE upPinholes - 1

\* REFRESH_INTERVAL passes in the wait between rounds.
Refresh ==
  /\ upStep = "sleep" /\ ~upShutdown /\ upStep' = "discover" /\ Ages
  /\ UNCHANGED <<upRouter, upGuarded, upReach, upMapped, upPort, upShutdown, upRefused, upKept, upEvents>>

\* Time goes on after the thread's end.
AfterTheEnd ==
  /\ upStep = "ended" /\ Ages
  /\ UNCHANGED <<upRouter, upGuarded, upReach, upMapped, upStep, upPort, upShutdown, upRefused, upKept, upEvents>>

WakeForShutdown ==
  /\ upStep = "sleep" /\ upShutdown /\ upStep' = NextRound(upMapped) /\ upPort' = 1 /\ UNCHANGED upMapped
  /\ UNCHANGED <<upRouter, upGuarded, upReach, upOwner, upLease, upPinholes, upShutdown, upRefused, upEvents, upKept>>

\* unmap_all_upnp_ports: every port, whatever became of the others; a deletion
\* that is refused or not answered is logged and left at that.
UnmapPort ==
  /\ upStep = "unmap"
  /\ IF upPort > LastPort
       THEN upStep' = "ended" /\ UNCHANGED <<upPort, upOwner, upKept, upEvents>>
       ELSE /\ upPort' = upPort + 1 /\ UNCHANGED upStep
            /\ \/ /\ upReach /\ ~(upOwner[upPort] = "other" /\ upGuarded) /\ Accepts
                  /\ upOwner' = [upOwner EXCEPT ![upPort] = "none"] /\ UNCHANGED upKept
               \/ /\ IF upReach /\ ~(upOwner[upPort] = "other" /\ upGuarded) THEN Refuses ELSE UNCHANGED upEvents
                  /\ upKept' = upKept \cup {upPort} /\ UNCHANGED upOwner
  /\ UNCHANGED <<upRouter, upGuarded, upReach, upLease, upPinholes, upMapped, upShutdown, upRefused>>

RaiseShutdown ==
  /\ ~upShutdown /\ upShutdown' = TRUE
  /\ UNCHANGED <<upRouter, upGuarded, upReach, upOwner, upLease, upPinholes, upMapped, upStep, upPort, upRefused, upEvents, upKept>>

\* The router restarts with an empty table, or is out of reach for a while.
RouterRestarts ==
  /\ upEvents < UpMaxEvents /\ upEvents' = upEvents + 1
  /\ upOwner' = [p \in 1 .. UpPorts |-> "none"] /\ upLease' = [p \in 1 .. UpPorts |-> 0] /\ upPinholes' = 0
  /\ UNCHANGED <<upRouter, upGuarded, upReach, upMapped, upStep, upPort, upShutdown, upRefused, upKept>>

RouterReach ==
  /\ upReach => upEvents < UpMaxEvents
  /\ upReach' = ~upReach /\ upEvents' = IF upReach THEN upEvents + 1 ELSE upEvents
  /\ UNCHANGED <<upRouter, upGuarded, upOwner, upLease, upPinholes, upMapped, upStep, upPort, upShutdown, upRefused, upKept>>

UpInit ==
  /\ upRouter \in UpRouters /\ upGuarded \in BOOLEAN /\ upReach = TRUE
  /\ upOwner \in [1 .. UpPorts -> {"none", "other"}] /\ upLease = [p \in 1 .. UpPorts |-> 0]
  /\ upPinholes = 0 /\ upMapped = FALSE /\ upStep = "discover" /\ upPort = 1 /\ upShutdown = FALSE
  /\ upRefused = FALSE /\ upKept = {} /\ upEvents = 0

UpThread == Discover \/ MapPort \/ CreatePinholes \/ Refresh \/ WakeForShutdown \/ UnmapPort

UpNext == UpThread \/ AfterTheEnd \/ RaiseShutdown \/ RouterRestarts \/ RouterReach

\* The thread runs: it blocks in timed waits only.  Time passes.
UpFairness == WF_upVars(UpThread) /\ WF_upVars(AfterTheEnd)

UpSpec == UpInit /\ [][UpNext]_upVars /\ UpFairness

-----------------------------------------------------------------------------
\* A port that can be had: no other machine's entry is in its way for good.
Available(p) == upOwner[p] # "other" \/ ~upGuarded

\* While the router is in reach for good, and does not refuse for ever, a port
\* that is not mapped to the host when the thread goes to sleep, or loses its
\* mapping then because the router restarts, is mapped by a later round, or the
\* host goes down.
PortsReopened ==
  \A p \in 1 .. UpPorts :
    (upStep = "sleep" /\ upOwner[p] # "us" /\ Available(p)) ~> (upOwner[p] = "us" \/ upShutdown \/ ~upReach)

\* The lease of a port that was mapped in the last round does not run out
\* before the thread has had its next round.
LeaseOutlivesSleep ==
  upStep = "sleep" /\ upMapped /\ ~upRefused => \A p \in 1 .. UpPorts : upOwner[p] = "us" /\ upLease[p] # 0 => upLease[p] > 1

\* After a last round that found the router, wherever the shutdown came in it,
\* the IPv4 mappings left are those whose own deletion the router refused or did
\* not answer: one failure costs no other port.
MappingsRemoved ==
  upStep = "ended" /\ upMapped => \A p \in 1 .. UpPorts : upOwner[p] = "us" => p \in upKept

\* What the thread leaves behind closes by itself: the IPv6 pinholes, which
\* nothing removes, and mappings it could not delete or, having lost the router
\* in its last round, did not try to; all but the entries without a lease.
LeasesRunOut ==
  upStep = "ended" ~> upPinholes = 0 /\ \A p \in 1 .. UpPorts : upOwner[p] = "us" => upLease[p] = 0
=============================================================================
