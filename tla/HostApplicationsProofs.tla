----------------------- MODULE HostApplicationsProofs -----------------------
(* Proofs for the parts of MCHostApplications.  Each part has an inductive  *)
(* invariant of its own, proved for the part's specification; a behaviour   *)
(* of MCSpec is one of every part, which carries the results over.          *)
EXTENDS MCHostApplications, FiniteSetTheorems, WellFoundedInduction, TLAPS

-----------------------------------------------------------------------------
(* The Windows service (ServiceSupervisor) *)

LEMMA NoHostLeftStep == NoHostLeft /\ [SvNext]_svVars => NoHostLeft'
<1> SUFFICES ASSUME NoHostLeft, [SvNext]_svVars PROVE NoHostLeft' OBVIOUS
<1> USE DEF NoHostLeft
<1>1. CASE \E s \in SvSessions : ConsoleConnect(s) BY <1>1 DEF ConsoleConnect
<1>2. CASE ConsoleDisconnect \/ SessionChange \/ StopControl \/ HostExits
  BY <1>2 DEF ConsoleDisconnect, SessionChange, StopControl, HostExits
<1>3. CASE StartService \/ WaitForStop \/ CreateHost BY <1>3 DEF StartService, WaitForStop, CreateHost
<1>4. CASE WaitForHost BY <1>4 DEF WaitForHost
<1>5. CASE TerminateHost \/ ReportStopped BY <1>5 DEF TerminateHost, ReportStopped
<1>6. CASE UNCHANGED svVars BY <1>6 DEF svVars
<1> QED BY <1>1, <1>2, <1>3, <1>4, <1>5, <1>6 DEF SvNext, ServiceMain

\* Whatever ends ServiceMain's wait, the service starts no host next to
\* another and reports no stop while one runs.
THEOREM ServiceLeavesNoHost == SvSpec => []NoHostLeft
<1>1. SvInit => NoHostLeft BY DEF SvInit, NoHostLeft
<1> QED BY <1>1, NoHostLeftStep, PTL DEF SvSpec

-----------------------------------------------------------------------------
(* The UPnP thread (UpnpMapper) *)

\* A port whose lease is the host's and ends has more than an interval left.
UpFresh(p) == upOwner[p] = "us" /\ upLease[p] # 0 => upLease[p] > 1

UpTyped ==
  /\ upStep \in {"discover", "map", "pinholes", "sleep", "unmap", "ended"} /\ upPort \in Nat \ {0}
  /\ upMapped \in BOOLEAN /\ upShutdown \in BOOLEAN /\ upRefused \in BOOLEAN
  /\ upOwner \in [1 .. UpPorts -> {"none", "us", "other"}] /\ upLease \in [1 .. UpPorts -> Nat]

\* The ports the round has passed have fresh leases; after the loop all have,
\* unless the shutdown cut it short, in which case the thread does not sleep.
\* The ports the last loop has passed are gone, or kept by the router.
UpInv ==
  /\ UpTyped
  /\ upStep = "map" /\ ~upRefused => \A p \in 1 .. UpPorts : p < upPort => UpFresh(p)
  /\ upStep = "pinholes" /\ ~upRefused /\ ~upShutdown => \A p \in 1 .. UpPorts : UpFresh(p)
  /\ upStep = "pinholes" => upPort = 1
  /\ upStep = "unmap" => \A p \in 1 .. UpPorts : p < upPort /\ upOwner[p] = "us" => p \in upKept
  /\ LeaseOutlivesSleep
  /\ MappingsRemoved

LEMMA UpInvInit == UpInit => UpInv
<1> SUFFICES ASSUME UpInit PROVE UpInv OBVIOUS
<1>1. upStep = "discover" /\ upMapped = FALSE BY DEF UpInit
<1>2. UpTyped
  <2>1. upOwner \in [1 .. UpPorts -> {"none", "us", "other"}] /\ upLease \in [1 .. UpPorts -> Nat]
    BY DEF UpInit
  <2>2. upMapped \in BOOLEAN /\ upShutdown \in BOOLEAN /\ upRefused \in BOOLEAN BY DEF UpInit
  <2> QED BY <1>1, <2>1, <2>2 DEF UpInit, UpTyped
<1> QED BY <1>1, <1>2 DEF UpInv, LeaseOutlivesSleep, MappingsRemoved

LEMMA MapPortKeeps == UpInv /\ MapPort => UpInv'
<1> SUFFICES ASSUME UpInv, MapPort PROVE UpInv' OBVIOUS
<1> USE UpAssumption
<1>0. upStep = "map" /\ UNCHANGED <<upMapped, upShutdown>> BY DEF MapPort
<1>1. CASE upPort > LastPort \/ upShutdown
  <2>1. upStep' = "pinholes" /\ upPort' = 1 /\ UNCHANGED <<upOwner, upLease, upRefused>>
    BY <1>1 DEF MapPort
  <2>2. UpTyped' BY <1>0, <2>1 DEF UpInv, UpTyped
  <2>3. ASSUME ~upRefused, ~upShutdown, NEW p \in 1 .. UpPorts PROVE UpFresh(p)
    BY <1>0, <1>1, <2>3 DEF UpInv, UpTyped, LastPort
  <2> QED BY <1>0, <2>1, <2>2, <2>3 DEF UpInv, UpFresh, LeaseOutlivesSleep, MappingsRemoved
<1>2. CASE ~(upPort > LastPort \/ upShutdown)
  <2>1. /\ upStep' = "map" /\ upPort' = upPort + 1
        /\ IF upReach THEN MapUpnpPort(upPort)
           ELSE upRefused' = TRUE /\ UNCHANGED <<upOwner, upLease, upEvents>>
    BY <1>0, <1>2 DEF MapPort
  <2>2. upPort \in 1 .. UpPorts BY <1>2 DEF LastPort, UpInv, UpTyped
  <2>3. \A b \in BOOLEAN : Granted(b) \in Nat /\ (Granted(b) # 0 => Granted(b) > 1)
    BY DEF Granted
  <2>4. MapUpnpPort(upPort) =>
          /\ upOwner' \in [1 .. UpPorts -> {"none", "us", "other"}]
          /\ upLease' \in [1 .. UpPorts -> Nat] /\ upRefused' \in BOOLEAN
          /\ upRefused' = FALSE =>
               /\ upRefused = FALSE
               /\ \A p \in 1 .. UpPorts :
                    IF p = upPort THEN upOwner'[p] = "us" /\ upLease'[p] # 0 => upLease'[p] > 1
                                  ELSE upOwner'[p] = upOwner[p] /\ upLease'[p] = upLease[p]
    <3> SUFFICES ASSUME MapUpnpPort(upPort)
                 PROVE  /\ upOwner' \in [1 .. UpPorts -> {"none", "us", "other"}]
                        /\ upLease' \in [1 .. UpPorts -> Nat] /\ upRefused' \in BOOLEAN
                        /\ upRefused' = FALSE =>
                             /\ upRefused = FALSE
                             /\ \A p \in 1 .. UpPorts :
                                  IF p = upPort THEN upOwner'[p] = "us" /\ upLease'[p] # 0 => upLease'[p] > 1
                                                ELSE upOwner'[p] = upOwner[p] /\ upLease'[p] = upLease[p]
      OBVIOUS
    <3> DEFINE queried == upRouter # "strange"
               static == queried /\ upOwner[upPort] = "us" /\ upLease[upPort] = 0
    <3>1. UpTyped BY DEF UpInv
    <3>2. CASE upRefused' = TRUE /\ UNCHANGED upLease /\ (UNCHANGED upOwner \/ upOwner' = [upOwner EXCEPT ![upPort] = "none"])
      BY <2>2, <3>1, <3>2 DEF UpTyped
    <3>3. CASE (static \/ (upOwner[upPort] = "other" /\ upGuarded)) /\ UNCHANGED <<upOwner, upLease, upRefused>>
      BY <2>2, <3>1, <3>3 DEF UpTyped
    <3>4. CASE /\ UNCHANGED upRefused /\ upOwner' = [upOwner EXCEPT ![upPort] = "us"]
               /\ upLease' = [upLease EXCEPT ![upPort] = Granted(~queried)]
      BY <2>2, <2>3, <3>1, <3>4 DEF UpTyped
    <3> QED BY <3>2, <3>3, <3>4, Zenon DEF MapUpnpPort, Accepts
  <2>5. UpTyped'
    <3>1. /\ upOwner' \in [1 .. UpPorts -> {"none", "us", "other"}]
          /\ upLease' \in [1 .. UpPorts -> Nat] /\ upRefused' \in BOOLEAN
      <4>1. CASE upReach BY <2>1, <2>4, <4>1
      <4>2. CASE ~upReach BY <2>1, <4>2 DEF UpInv, UpTyped
      <4> QED BY <4>1, <4>2
    <3>2. upPort' \in Nat \ {0} BY <2>1, <2>2
    <3> QED BY <1>0, <2>1, <3>1, <3>2 DEF UpInv, UpTyped
  <2>6. ASSUME ~upRefused', NEW p \in 1 .. UpPorts, p < upPort' PROVE UpFresh(p)'
    <3>1. upReach /\ MapUpnpPort(upPort) BY <2>1, <2>6
    <3>2. upRefused' = FALSE BY <2>4, <2>6, <3>1
    <3>3. upRefused = FALSE BY <2>4, <3>1, <3>2
    <3>4. p = upPort \/ p < upPort BY <2>1, <2>2, <2>6
    <3>5. CASE p = upPort BY <2>4, <3>1, <3>2, <3>5 DEF UpFresh
    <3>6. CASE p # upPort
      <4>1. upOwner'[p] = upOwner[p] /\ upLease'[p] = upLease[p] BY <2>4, <3>1, <3>2, <3>6
      <4>2. UpFresh(p) BY <1>0, <3>3, <3>4, <3>6 DEF UpInv
      <4> QED BY <4>1, <4>2 DEF UpFresh
    <3> QED BY <3>5, <3>6
  <2> QED BY <2>1, <2>5, <2>6 DEF UpInv, LeaseOutlivesSleep, MappingsRemoved
<1> QED BY <1>1, <1>2

LEMMA UnmapPortKeeps == UpInv /\ UnmapPort => UpInv'
<1> SUFFICES ASSUME UpInv, UnmapPort PROVE UpInv' OBVIOUS
<1>1. upStep = "unmap" /\ UNCHANGED <<upLease, upMapped, upShutdown, upRefused>> BY DEF UnmapPort
<1>2. UpTyped /\ \A p \in 1 .. UpPorts : p < upPort /\ upOwner[p] = "us" => p \in upKept BY <1>1 DEF UpInv
<1>3. CASE upPort > LastPort
  <2>1. upStep' = "ended" /\ UNCHANGED <<upPort, upOwner, upKept>> BY <1>3 DEF UnmapPort
  <2>2. \A p \in 1 .. UpPorts : p < upPort BY <1>2, <1>3, UpAssumption DEF LastPort, UpTyped
  <2>3. UpTyped' BY <1>1, <1>2, <2>1 DEF UpTyped
  <2> QED BY <1>2, <2>1, <2>2, <2>3 DEF UpInv, LeaseOutlivesSleep, MappingsRemoved
<1>4. CASE ~(upPort > LastPort)
  <2>1. upStep' = "unmap" /\ upPort' = upPort + 1 BY <1>1, <1>4 DEF UnmapPort
  <2>2. \/ upOwner' = [upOwner EXCEPT ![upPort] = "none"] /\ UNCHANGED upKept
        \/ upKept' = upKept \cup {upPort} /\ UNCHANGED upOwner
    BY <1>4 DEF UnmapPort
  <2>3. upPort \in 1 .. UpPorts BY <1>2, <1>4, UpAssumption DEF LastPort, UpTyped
  <2>4. UpTyped' BY <1>1, <1>2, <2>1, <2>2, <2>3 DEF UpTyped
  <2>5. ASSUME NEW p \in 1 .. UpPorts, p < upPort', upOwner'[p] = "us" PROVE p \in upKept'
    <3>1. p = upPort \/ p < upPort BY <2>1, <2>3, <2>5
    <3> QED BY <1>2, <2>2, <2>3, <2>5, <3>1 DEF UpTyped
  <2> QED BY <2>1, <2>4, <2>5 DEF UpInv, LeaseOutlivesSleep, MappingsRemoved
<1> QED BY <1>3, <1>4

LEMMA UpInvStep == UpInv /\ [UpNext]_upVars => UpInv'
<1> SUFFICES ASSUME UpInv, [UpNext]_upVars PROVE UpInv' OBVIOUS
<1> USE UpAssumption DEF UpInv, UpTyped, UpFresh, LeaseOutlivesSleep, MappingsRemoved
<1>1. CASE Discover
  <2>1. CASE upStep' = "map"
    <3>1. upPort' = 1 /\ upRefused' \in BOOLEAN
          /\ UNCHANGED <<upMapped, upShutdown, upOwner, upLease>>
      BY <1>1, <2>1 DEF Discover, NextRound
    <3> QED BY <2>1, <3>1
  <2>2. CASE upStep' # "map"
    <3>1. upMapped' = FALSE /\ upStep' \in {"sleep", "ended"} BY <1>1, <2>2 DEF Discover, NextRound
    <3> QED BY <1>1, <3>1 DEF Discover
  <2> QED BY <2>1, <2>2
<1>2. CASE MapPort BY <1>2, MapPortKeeps
<1>3. CASE CreatePinholes BY <1>3 DEF CreatePinholes, NextRound
<1>4. CASE Refresh \/ AfterTheEnd
  <2>1. /\ upStep' # "pinholes" /\ upStep' # "unmap" /\ upStep' # "map" /\ upStep' # "sleep"
        /\ UNCHANGED <<upMapped, upPort, upShutdown, upRefused, upKept>>
        /\ upStep' \in {"discover", "ended"} /\ (upStep' = "ended" => upStep = "ended")
    BY <1>4 DEF Refresh, AfterTheEnd
  <2>2. /\ upLease' = [p \in 1 .. UpPorts |-> IF upLease[p] = 0 THEN 0 ELSE upLease[p] - 1]
        /\ upOwner' = [p \in 1 .. UpPorts |-> IF upLease[p] = 1 THEN "none" ELSE upOwner[p]]
    BY <1>4, Zenon DEF Refresh, AfterTheEnd, Ages
  <2> QED BY <2>1, <2>2
<1>5. CASE WakeForShutdown BY <1>5 DEF WakeForShutdown, NextRound
<1>6. CASE UnmapPort BY <1>6, UnmapPortKeeps
<1>7. CASE RaiseShutdown BY <1>7 DEF RaiseShutdown
<1>8. CASE RouterRestarts BY <1>8 DEF RouterRestarts
<1>9. CASE RouterReach \/ UNCHANGED upVars BY <1>9 DEF RouterReach, upVars
<1> QED BY <1>1, <1>2, <1>3, <1>4, <1>5, <1>6, <1>7, <1>8, <1>9 DEF UpNext, UpThread

\* For any number of ports and any router: no lease runs out while the thread
\* sleeps, and after a last round that found the router only the ports are left
\* whose own deletion it refused or did not answer.
THEOREM PortsLeasedAndRemoved == UpSpec => [](LeaseOutlivesSleep /\ MappingsRemoved)
<1>1. UpInv => LeaseOutlivesSleep /\ MappingsRemoved BY DEF UpInv
<1> QED BY <1>1, UpInvInit, UpInvStep, PTL DEF UpSpec

-----------------------------------------------------------------------------
(* The configuration UI server (ConfigServer) *)

\* The certificate is written last, so one that is whole is that of the key,
\* unless the key file was cut.
CsKeysSound ==
  /\ csKeys \in [pkey : Nat, cert : Nat, made : Nat]
  /\ csKeys.cert # 0 => csKeys.cert = csKeys.pkey \/ "pkey" \in csEmpty
  /\ "cert" \in csEmpty => There("pkey")
  /\ csUp \in {"pkey", "between", "cert"} => csKeys.cert = 0 /\ csKeys.made # 0
  /\ csUp \in {"between", "cert"} => csKeys.pkey = csKeys.made \/ "pkey" \in csEmpty
  /\ csUp \in {"up", "saving"} => csKeys.cert = csKeys.pkey
  /\ \A f \in {"pkey", "cert"} : csUp = f => f \in csEmpty
  /\ csUp = "down" => KeyPairMatches

\* The file is what the memory is loaded from, unless it was cut: then the
\* memory is what it was, or empty.
CsCredsSound ==
  /\ csUp \notin {"up", "saving"} => csMem = {} /\ csCookie = {} /\ ~csApp
  /\ csUp = "saving" => \A p \in csTold : OpensLogin(p) \/ csMem = {}
  /\ csUp = "up" => csMem = csFile \/ (csFile = {} /\ "creds" \in csEmpty)
  /\ csUp = "up" => \A p \in csTold : OpensLogin(p) \/ (csMem = {} /\ "creds" \in csEmpty)
  /\ csUp # "saving" => csSaving = {}
  /\ csUp = "saving" => csFile = {} /\ csSaving # {} /\ "creds" \in csEmpty
  /\ "creds" \in csEmpty \/ \A p \in csTold : \E m \in csFile : m.hash = Hash(p, m.salt)
  /\ "creds" \in csEmpty => csFile = {}
  /\ \A p, q \in csSaving : p = q
  /\ \A m1, m2 \in csFile : m1 = m2
  /\ \A m1, m2 \in csMem : m1 = m2

\* The cookie in force is the last one issued, for the password now set.
CsInv ==
  /\ csUp \in {"down", "pkey", "between", "cert", "up", "saving"}
  /\ CsKeysSound /\ CsCredsSound
  /\ csIssued \in Seq(CsPasswords)
  /\ \A k \in csCookie : \E m \in csMem :
       /\ k = Hash(Len(csIssued), m.salt) /\ Len(csIssued) > 0
       /\ m.hash = Hash(csIssued[Len(csIssued)], m.salt)

LEMMA CsInvInit == CsInit => CsInv
  BY DEF CsInit, CsInv, CsKeysSound, CsCredsSound, KeyPairMatches, KeysMissing, There

LEMMA CsKeysStep == CsInv /\ [CsNext]_csVars => CsKeysSound'
<1> SUFFICES ASSUME CsInv, [CsNext]_csVars PROVE CsKeysSound' OBVIOUS
<1> USE DEF CsInv, CsKeysSound, KeyPairMatches, KeysMissing, There
<1>1. ASSUME NEW f \in {"pkey", "cert"}, OpenKeyFile(f) PROVE CsKeysSound'
  <2>1. CASE f = "pkey"
    <3>1. csUp = "down" /\ csUp' = "pkey" /\ csEmpty' = csEmpty \cup {"pkey"} /\ csKeys.cert = 0
      BY <1>1, <2>1 DEF OpenKeyFile
    <3>2. csKeys' = [csKeys EXCEPT !["pkey"] = 0, !.made = csKeys.made + 1] BY <1>1, <2>1 DEF OpenKeyFile
    <3>3. PICK a, b \in Nat : csKeys = [pkey |-> a, cert |-> 0, made |-> b] BY <3>1
    <3>4. csKeys' = [pkey |-> 0, cert |-> 0, made |-> b + 1] BY <3>2, <3>3, Zenon
    <3>5. csKeys' \in [pkey : Nat, cert : Nat, made : Nat] /\ csKeys'.cert = 0 /\ csKeys'.made # 0 BY <3>4
    <3> QED BY <3>1, <3>5
  <2>2. CASE f = "cert"
    <3>1. csUp = "between" /\ csUp' = "cert" /\ csEmpty' = csEmpty \cup {"cert"}
      BY <1>1, <2>2 DEF OpenKeyFile
    <3>2. csKeys' = [csKeys EXCEPT !["cert"] = 0, !.made = csKeys.made] BY <1>1, <2>2 DEF OpenKeyFile
    <3>3. PICK a, b \in Nat : csKeys = [pkey |-> a, cert |-> 0, made |-> b] BY <3>1
    <3>6. csKeys' = [pkey |-> a, cert |-> 0, made |-> b] BY <3>2, <3>3, Zenon
    <3>4. csKeys' = csKeys BY <3>3, <3>6
    <3>5. There("pkey") BY <3>1, <3>3
    <3>7. There("pkey")' BY <3>1, <3>4, <3>5
    <3> HIDE DEF There
    <3> QED BY <3>1, <3>4, <3>7
  <2> QED BY <2>1, <2>2
<1>2. ASSUME NEW f \in {"pkey", "cert"}, NEW w \in BOOLEAN, WriteKeyFile(f, w) PROVE CsKeysSound'
  <2>1. PICK a, b, m \in Nat : csKeys = [pkey |-> a, cert |-> b, made |-> m] OBVIOUS
  <2>2. csUp = f /\ b = 0 /\ m # 0 /\ f \in csEmpty BY <1>2, <2>1 DEF WriteKeyFile
  <2>3. CASE w /\ f = "pkey"
    <3>6. csKeys' = [csKeys EXCEPT !["pkey"] = csKeys.made] BY <1>2, <2>3 DEF WriteKeyFile
    <3>7. csKeys' = [pkey |-> m, cert |-> 0, made |-> m] BY <2>1, <2>2, <3>6, Zenon
    <3>1. csKeys' = [pkey |-> m, cert |-> 0, made |-> m] /\ csUp' = "between" /\ csEmpty' = csEmpty \ {"pkey"}
      BY <1>2, <2>3, <3>7 DEF WriteKeyFile
    <3> QED BY <2>2, <3>1
  <2>4. CASE w /\ f = "cert"
    <3>6. csKeys' = [csKeys EXCEPT !["cert"] = csKeys.made] BY <1>2, <2>4 DEF WriteKeyFile
    <3>7. csKeys' = [pkey |-> a, cert |-> m, made |-> m] BY <2>1, <2>2, <3>6, Zenon
    <3>1. csKeys' = [pkey |-> a, cert |-> m, made |-> m] /\ csUp' = "down" /\ csEmpty' = csEmpty \ {"cert"}
      BY <1>2, <2>4, <3>7 DEF WriteKeyFile
    <3>2. a = m \/ "pkey" \in csEmpty BY <2>1, <2>2, <2>4
    <3> QED BY <2>2, <3>1, <3>2
  <2>5. CASE ~w /\ f = "pkey"
    <3>1. UNCHANGED <<csKeys, csEmpty>> /\ csUp' = "between" BY <1>2, <2>5 DEF WriteKeyFile
    <3> QED BY <2>1, <2>2, <2>5, <3>1
  <2>6. CASE ~w /\ f = "cert"
    <3>1. UNCHANGED <<csKeys, csEmpty>> /\ csUp' = "down" BY <1>2, <2>6 DEF WriteKeyFile
    <3> QED BY <2>1, <2>2, <2>6, <3>1
  <2> QED BY <2>3, <2>4, <2>5, <2>6
<1>3. CASE Start BY <1>3 DEF Start, csDisk
<1>4. CASE Crash BY <1>4 DEF Crash, Forgets
<1>5. CASE \E w \in BOOLEAN : FinishSave(w) BY <1>5 DEF FinishSave
<1>6. ASSUME NEW c \in CsClients, NEW q, NEW o \in BOOLEAN,
             \E p \in CsPasswords : SavePassword(c, p, q, o) PROVE CsKeysSound'
  BY <1>6 DEF SavePassword
<1>7. CASE CookieAges \/ (\E c \in CsClients : Quit(c)) BY <1>7 DEF CookieAges, Quit, Forgets, Serves, csDisk
<1>8. CASE UNCHANGED <<csUp, csDisk>> BY <1>8 DEF csDisk
<1> QED BY <1>1, <1>2, <1>3, <1>4, <1>5, <1>6, <1>7, <1>8
        DEF CsNext, Login, CookieExpires, DeviceRequest, ReadRequest, SettingsRequest, PairingRequest,
            CallsOnly, UnpairAllRequest, LaunchApp, csVars, csDisk

\* What a request changes that neither saves a password nor ends the process.
CsQuiet ==
  /\ csUp = "up" /\ UNCHANGED <<csUp, csFile, csEmpty, csSaving, csMem, csTold>>

LEMMA CsCredsStep == CsInv /\ [CsNext]_csVars => CsCredsSound'
<1> SUFFICES ASSUME CsInv, [CsNext]_csVars PROVE CsCredsSound' OBVIOUS
<1> USE DEF CsInv, CsCredsSound, OpensLogin
<1>1. ASSUME NEW f \in {"pkey", "cert"}, OpenKeyFile(f) \/ (\E w \in BOOLEAN : WriteKeyFile(f, w))
      PROVE CsCredsSound'
  <2>1. /\ csUp \notin {"up", "saving"} /\ csUp' \notin {"up", "saving"}
        /\ UNCHANGED <<csFile, csSaving, csMem, csCookie, csTold, csApp>>
        /\ ("creds" \in csEmpty' <=> "creds" \in csEmpty)
    BY <1>1 DEF OpenKeyFile, WriteKeyFile, csLogin
  <2> QED BY <2>1
<1>2. CASE Start
  <2>1. csUp = "down" /\ csUp' = "up" /\ csMem = {} /\ csMem' = csFile
        /\ UNCHANGED <<csFile, csEmpty, csSaving, csTold>>
    BY <1>2 DEF Start, ReloadUserCreds, csDisk
  <2> QED BY <2>1
<1>3. CASE Crash BY <1>3 DEF Crash, Forgets
<1>4. ASSUME NEW w \in BOOLEAN, FinishSave(w) PROVE CsCredsSound'
  <2>1. /\ csUp = "saving" /\ csUp' = "up" /\ csSaving' = {} /\ csFile = {} /\ csSaving # {}
        /\ "creds" \in csEmpty
    BY <1>4 DEF FinishSave
  <2>2. CASE ~w
    <3>1. csFile' = {} /\ csEmpty' = csEmpty /\ csTold' = csTold /\ csMem' = csMem
      BY <1>4, <2>2 DEF FinishSave, ReloadUserCreds
    <3> QED BY <2>1, <3>1
  <2>3. CASE w
    <3>1. /\ csFile' = {SavedCreds(p) : p \in csSaving} /\ csEmpty' = csEmpty \ {"creds"}
          /\ csTold' = csSaving
      BY <1>4, <2>3 DEF FinishSave
    <3>2. \A p : SavedCreds(p).hash = Hash(p, SavedCreds(p).salt) BY DEF SavedCreds, Hash
    <3>3. \A p \in csTold' : \E m \in csFile' : m.hash = Hash(p, m.salt) BY <3>1, <3>2
    <3>4. csFile' = {} \/ csMem' = csFile' BY <1>4 DEF FinishSave, ReloadUserCreds
    <3>5. csFile' # {} BY <3>1, <2>1
    <3> QED BY <2>1, <3>1, <3>3, <3>4, <3>5
  <2> QED BY <2>2, <2>3
<1>5. ASSUME NEW c \in CsClients, NEW q, NEW o \in BOOLEAN,
             \E p \in CsPasswords : SavePassword(c, p, q, o) PROVE CsCredsSound'
  <2>1. csUp = "up" /\ csTold' = csTold BY <1>5 DEF SavePassword
  <2>2. CASE o /\ "creds" \notin csEmpty
    <3>1. /\ csUp' = "saving" /\ csSaving' = {q} /\ csFile' = {} /\ "creds" \in csEmpty'
          /\ csMem' = csMem
      BY <1>5, <2>2 DEF SavePassword
    <3> QED BY <2>1, <3>1
  <2>3. CASE ~(o /\ "creds" \notin csEmpty)
    <3>1. /\ UNCHANGED <<csUp, csFile, csEmpty, csSaving>>
          /\ csMem' = IF csFile = {} THEN csMem ELSE csFile
      BY <1>5, <2>3 DEF SavePassword, ReloadUserCreds
    <3>2. csMem' = csMem BY <2>1, <3>1
    <3> QED BY <2>1, <3>1, <3>2
  <2> QED BY <2>2, <2>3
<1>6. ASSUME NEW c \in CsClients, Quit(c) PROVE CsCredsSound'
  BY <1>6 DEF Quit, Forgets, Serves, csDisk
<1>7. CASE CookieAges
  <2>1. /\ UNCHANGED <<csUp, csFile, csEmpty, csSaving, csMem, csTold, csCookie, csApp>>
    BY <1>7 DEF CookieAges, csDisk
  <2> QED BY <2>1
<1>8. CASE CsQuiet BY <1>8 DEF CsQuiet
<1>9. CASE UNCHANGED csVars BY <1>9 DEF csVars
<1>10. CASE \E c \in CsClients :
              \/ \E p \in CsPasswords : Login(c, p)
              \/ CookieExpires(c) \/ DeviceRequest(c) \/ ReadRequest(c) \/ SettingsRequest(c)
              \/ PairingRequest(c) \/ UnpairAllRequest(c) \/ \E ok \in BOOLEAN : LaunchApp(c, ok)
  <2> CsQuiet
    BY <1>10 DEF CsQuiet, Login, CookieExpires, DeviceRequest, ReadRequest, SettingsRequest, PairingRequest,
                 CallsOnly, UnpairAllRequest, LaunchApp, Serves, csDisk
  <2> QED BY <1>8
<1> QED BY <1>1, <1>2, <1>3, <1>4, <1>5, <1>6, <1>7, <1>9, <1>10 DEF CsNext

LEMMA CsInvStep == CsInv /\ [CsNext]_csVars => CsInv'
<1> SUFFICES ASSUME CsInv, [CsNext]_csVars PROVE CsInv' OBVIOUS
<1>1. CsKeysSound' /\ CsCredsSound' BY CsKeysStep, CsCredsStep
<1> DEFINE Loc == csUp \in {"down", "pkey", "between", "cert", "up", "saving"}
           Cookies == \A k \in csCookie : \E m \in csMem :
                         /\ k = Hash(Len(csIssued), m.salt) /\ Len(csIssued) > 0
                         /\ m.hash = Hash(csIssued[Len(csIssued)], m.salt)
<1>2. Loc /\ Cookies /\ csIssued \in Seq(CsPasswords) /\ (csUp = "down" => csCookie = {})
  BY DEF CsInv, CsCredsSound
<1>3. ASSUME NEW c \in CsClients, NEW q \in CsPasswords, Login(c, q)
      PROVE Loc' /\ Cookies' /\ csIssued' \in Seq(CsPasswords)
  BY <1>2, <1>3, SMTT(30) DEF Login, Hash
<1>4. CASE /\ csIssued' = csIssued /\ (csCookie' = {} \/ UNCHANGED <<csCookie, csMem>>) /\ Loc'
  BY <1>1, <1>2, <1>4 DEF CsInv
<1>5. CASE \E f \in {"pkey", "cert"} : OpenKeyFile(f) \/ \E w \in BOOLEAN : WriteKeyFile(f, w)
  <2> Loc' BY <1>5 DEF OpenKeyFile, WriteKeyFile
  <2> csIssued' = csIssued /\ UNCHANGED <<csCookie, csMem>>
    BY <1>5 DEF OpenKeyFile, WriteKeyFile, csLogin
  <2> QED BY <1>4
<1>6. CASE Start
  <2> csUp = "down" /\ csUp' = "up" /\ csIssued' = csIssued /\ csCookie' = csCookie
    BY <1>6 DEF Start, csLogin
  <2> QED BY <1>2, <1>4
<1>7. CASE Crash \/ (\E c \in CsClients : Quit(c))
  <2> csUp' = "down" /\ csIssued' = csIssued /\ csCookie' = {} BY <1>7 DEF Crash, Quit, Forgets
  <2> QED BY <1>4
<1>8. CASE \E w \in BOOLEAN : FinishSave(w)
  <2> csUp' = "up" /\ csIssued' = csIssued /\ csCookie' = {} BY <1>8 DEF FinishSave
  <2> QED BY <1>4
<1>9. CASE \E c \in CsClients, p, q \in CsPasswords, o \in BOOLEAN : SavePassword(c, p, q, o)
  <2> csIssued' = csIssued /\ (csCookie' = {} \/ UNCHANGED <<csCookie, csMem>>) /\ Loc'
    BY <1>2, <1>9 DEF SavePassword
  <2> QED BY <1>4
<1>10. CASE CookieAges \/ UNCHANGED csVars
            \/ \E c \in CsClients :
                 \/ CookieExpires(c) \/ DeviceRequest(c) \/ ReadRequest(c) \/ SettingsRequest(c)
                 \/ PairingRequest(c) \/ UnpairAllRequest(c) \/ \E ok \in BOOLEAN : LaunchApp(c, ok)
  <2> csIssued' = csIssued /\ (csCookie' = {} \/ UNCHANGED <<csCookie, csMem>>) /\ csUp' = csUp
    BY <1>10 DEF CookieAges, CookieExpires, DeviceRequest, ReadRequest, SettingsRequest, PairingRequest,
                 CallsOnly, UnpairAllRequest, LaunchApp, csLogin, csVars
  <2> QED BY <1>2, <1>4
<1> HIDE DEF Loc, Cookies
<1>11. CASE \E c \in CsClients, q \in CsPasswords : Login(c, q)
  BY <1>1, <1>3, <1>11 DEF CsInv, Loc, Cookies
<1> QED BY <1>5, <1>6, <1>7, <1>8, <1>9, <1>10, <1>11 DEF CsNext

\* Wherever the process is killed or fails to write a file it opened, the
\* password last written opens the next login or the file holds none, the key
\* and the certificate belong together or cannot be used, and no application
\* is left without a host.
THEOREM CredentialsKept == CsSpec => []CredentialsConsistent
<1>1. CsInv => CredentialsConsistent
  <2>1. CsInv => SavedPasswordWorks BY DEF CsInv, CsCredsSound, SavedPasswordWorks
  <2>2. CsInv => KeyPairMatches BY DEF CsInv, CsKeysSound, KeyPairMatches
  <2>3. CsInv => NothingLeftRunning BY DEF CsInv, CsCredsSound, NothingLeftRunning
  <2> QED BY <2>1, <2>2, <2>3 DEF CredentialsConsistent
<1> QED BY <1>1, CsInvInit, CsInvStep, PTL DEF CsSpec

LEMMA LoginNeeded == CsInv /\ CsNext => LoggedInWithCurrentPassword
<1> SUFFICES ASSUME CsInv, CsNext, NEW s \in csServed', csServed' # csServed
             PROVE  /\ s.raw = Len(csIssued) /\ ~s.aged
                    /\ \E m \in csMem : m.hash = Hash(csIssued[s.raw], m.salt)
  BY DEF LoggedInWithCurrentPassword
<1>1. PICK c \in CsClients, a \in {"devices", "read", "settings", "pairing", "app", "host"} : Serves(c, a)
  BY DEF CsNext, OpenKeyFile, WriteKeyFile, Start, Crash, CookieAges, Login, SavePassword, FinishSave, CookieExpires,
         DeviceRequest, ReadRequest, SettingsRequest, PairingRequest, CallsOnly,
         UnpairAllRequest, Quit, LaunchApp
<1>2. s.raw = csHeld[c] /\ s.aged = csOld BY <1>1 DEF Serves
<1>3. ~csOld /\ csMem # {} /\ (\A m \in csMem : Hash(csHeld[c], m.salt) \in csCookie)
  BY <1>1 DEF Serves, Authenticate
<1>4. PICK m \in csMem : Hash(csHeld[c], m.salt) \in csCookie BY <1>3
<1>5. PICK n \in csMem : /\ Hash(csHeld[c], m.salt) = Hash(Len(csIssued), n.salt)
                         /\ n.hash = Hash(csIssued[Len(csIssued)], n.salt)
  BY <1>4 DEF CsInv
<1>6. csHeld[c] = Len(csIssued) BY <1>5 DEF Hash
<1> QED BY <1>2, <1>3, <1>5, <1>6

\* A request is served only on the cookie of the last login, while it is
\* young, and only if that login was for the password now set.
THEOREM ServedAfterLogin == CsSpec => [][LoggedInWithCurrentPassword]_csVars
<1>1. CsInv /\ [CsNext]_csVars => [LoggedInWithCurrentPassword]_csVars BY LoginNeeded
<1> QED BY <1>1, CsInvInit, CsInvStep, PTL DEF CsSpec

-----------------------------------------------------------------------------
(* The virtual display driver (VirtualDriver) *)

VdThread == [pc : {"ping", "failed", "close", "ended"}, fails : Nat, due : BOOLEAN]

VdTyped ==
  /\ vdStatus \in {"unknown", "ok", "failed", "incompatible", "watchdog"}
  /\ vdOpener \in [VdOpeners -> {"idle", "open", "again", "check", "ping", "close"}]
  /\ vdPing \in Seq(VdThread)
  /\ vdCount \in Int /\ vdWatchdog \in BOOLEAN

\* Since the last good ping at most one interval has passed, and if one has,
\* every thread that still pings owes a ping.
VdCounted ==
  ~vdMissed => vdCount = 3 \/ (vdCount = 2 /\ \A p \in DOMAIN vdPing : vdPing[p].pc = "ping" => vdPing[p].due)

VdModeSet == vdMode = <<>> \/ \E r \in VdRates : \E b \in BaselineRates(r) : vdMode = <<r, b>>

\* A ready driver with a watchdog has a thread that has not been given up.
VdWatched ==
  vdStatus = "ok" /\ vdWatchdog =>
    (\E p \in DOMAIN vdPing : vdPing[p].pc \in {"ping", "failed"}) \/ (\E o \in VdOpeners : vdOpener[o] = "ping")

VdInv == VdTyped /\ VdCounted /\ ~vdDropped /\ VdWatched /\ VdModeSet

LEMMA VdInvInit == VdInit => VdInv
<1> SUFFICES ASSUME VdInit PROVE VdInv OBVIOUS
<1>1. VdTyped BY DEF VdInit, VdTyped, PingShare
<1>2. VdCounted BY DEF VdInit, VdCounted
<1> QED BY <1>1, <1>2 DEF VdInit, VdInv, VdWatched, VdModeSet

\* A step of an opener touches neither the count nor the ping threads there are.
LEMMA VdOpenerKeeps ==
  ASSUME VdInv, NEW o \in VdOpeners, InitDriver(o) \/ VdOpening(o)
  PROVE  VdInv'
<1> USE DEF VdInv
<1>0. UNCHANGED <<vdCount, vdMissed, vdDropped, vdMode, vdWatchdog>>
  BY DEF InitDriver, VdOpening, OpenDevice, CheckProtocol, StartPingThread, GiveUp
<1>1. CASE InitDriver(o) \/ OpenDevice(o) \/ CheckProtocol(o) \/ GiveUp(o)
  <2>1. UNCHANGED vdPing BY <1>1 DEF InitDriver, OpenDevice, CheckProtocol, GiveUp
  <2>2. VdTyped' BY <1>0, <1>1, <2>1 DEF InitDriver, OpenDevice, CheckProtocol, GiveUp, VdTyped
  <2>3. VdWatched'
    BY <1>0, <1>1, <2>1 DEF InitDriver, OpenDevice, CheckProtocol, GiveUp, VdWatched, VdTyped
  <2> QED BY <1>0, <2>1, <2>2, <2>3 DEF VdCounted, VdModeSet
<1>2. CASE StartPingThread(o)
  <2>1. CASE vdPing' = PingingFrom(vdPing) /\ vdWatchdog
    <3> DEFINE w == [pc |-> "ping", fails |-> 0, due |-> TRUE]
    <3>1. w \in VdThread /\ w.pc = "ping" /\ w.due BY DEF VdThread
    <3> HIDE DEF w
    <3>2. vdPing' = Append(vdPing, w) /\ vdPing \in Seq(VdThread) BY <2>1 DEF PingingFrom, w, VdTyped
    <3>3. /\ vdPing' \in Seq(VdThread) /\ DOMAIN vdPing' = 1 .. Len(vdPing) + 1
          /\ DOMAIN vdPing = 1 .. Len(vdPing) /\ Len(vdPing) \in Nat
          /\ \A p \in DOMAIN vdPing : vdPing'[p] = vdPing[p]
          /\ vdPing'[Len(vdPing) + 1] = w
      BY <3>1, <3>2
    <3>4. VdTyped' BY <1>0, <1>2, <3>3 DEF StartPingThread, VdTyped
    <3>5. VdCounted'
      <4>1. \A p \in DOMAIN vdPing' : p \in DOMAIN vdPing \/ p = Len(vdPing) + 1 BY <3>3
      <4> QED BY <1>0, <3>1, <3>3, <4>1 DEF VdCounted
    <3>6. VdWatched'
      <4>1. Len(vdPing) + 1 \in DOMAIN vdPing' BY <3>3
      <4> QED BY <4>1, <3>1, <3>3 DEF VdWatched
    <3> QED BY <1>0, <3>4, <3>5, <3>6 DEF VdModeSet
  <2>3. CASE vdPing' = PingingFrom(vdPing) /\ ~vdWatchdog
    <3>1. UNCHANGED vdPing BY <2>3 DEF PingingFrom
    <3> QED BY <1>0, <1>2, <2>3, <3>1 DEF StartPingThread, VdTyped, VdCounted, VdWatched, VdModeSet
  <2>2. CASE vdStatus' = "watchdog" /\ UNCHANGED vdPing
    BY <1>0, <1>2, <2>2 DEF StartPingThread, VdTyped, VdCounted, VdWatched, VdModeSet
  <2> QED BY <1>2, <2>1, <2>2, <2>3 DEF StartPingThread, VdTyped
<1> QED BY <1>1, <1>2 DEF VdOpening

LEMMA VdPingKeeps ==
  ASSUME VdInv, NEW p \in DOMAIN vdPing, VdPinging(p)
  PROVE  VdInv'
<1> USE DEF VdInv
<1>0. vdPing \in Seq(VdThread) /\ vdPing[p] \in VdThread /\ UNCHANGED <<vdOpener, vdDropped, vdMode, vdWatchdog>>
  BY DEF VdTyped, VdPinging, PingDriver, MarkFailed, CloseAfterFailure
<1>1. ASSUME NEW w \in VdThread, vdPing' = [vdPing EXCEPT ![p] = w]
      PROVE  /\ vdPing' \in Seq(VdThread) /\ DOMAIN vdPing' = DOMAIN vdPing
             /\ vdPing'[p] = w /\ \A q \in DOMAIN vdPing : q # p => vdPing'[q] = vdPing[q]
  BY <1>0, <1>1
<1>2. CASE PingDriver(p)
  <2>1. PICK answered \in {FALSE, vdHandle} :
          /\ vdPing' = [vdPing EXCEPT ![p].due = FALSE,
                       ![p].fails = IF answered THEN @ ELSE @ + 1,
                       ![p].pc = IF ~answered /\ vdPing[p].fails = MaxFails THEN "failed" ELSE @]
          /\ vdCount' = IF answered THEN PingShare ELSE vdCount
          /\ vdMissed' = ~answered
    BY <1>2 DEF PingDriver
  <2>2. vdPing[p].pc = "ping" /\ UNCHANGED <<vdStatus>> BY <1>2 DEF PingDriver
  <2>3. PICK w \in VdThread : vdPing' = [vdPing EXCEPT ![p] = w] /\ w.pc \in {"ping", "failed"}
    <3> DEFINE f == IF answered THEN vdPing[p].fails ELSE vdPing[p].fails + 1
               c == IF ~answered /\ vdPing[p].fails = MaxFails THEN "failed" ELSE vdPing[p].pc
               w0 == [vdPing[p] EXCEPT !.due = FALSE, !.fails = f, !.pc = c]
    <3>1. vdPing' = [vdPing EXCEPT ![p] = w0] BY <1>0, <2>1
    <3>3. f \in Nat BY <1>0 DEF VdThread
    <3>4. c \in {"ping", "failed"} BY <2>2
    <3> HIDE DEF f, c
    <3>2. w0 \in VdThread /\ w0.pc \in {"ping", "failed"} BY <1>0, <3>3, <3>4 DEF VdThread
    <3> HIDE DEF w0
    <3> QED BY <3>1, <3>2
  <2>4. /\ vdPing' \in Seq(VdThread) /\ DOMAIN vdPing' = DOMAIN vdPing
        /\ vdPing'[p] = w /\ \A q \in DOMAIN vdPing : q # p => vdPing'[q] = vdPing[q]
    BY <1>1, <2>3
  <2>5. VdTyped' BY <1>0, <2>1, <2>2, <2>4 DEF VdTyped, PingShare
  <2>6. VdCounted' BY <2>1 DEF VdCounted, PingShare
  <2>7. VdWatched' BY <1>0, <2>2, <2>3, <2>4 DEF VdWatched
  <2> QED BY <1>0, <2>5, <2>6, <2>7 DEF VdModeSet
<1>3. ASSUME NEW c \in {"close", "ended"}, vdPing' = [vdPing EXCEPT ![p].pc = c], vdPing[p].pc # "ping",
             UNCHANGED <<vdCount, vdMissed>>,
             vdStatus' \in {"unknown", "ok", "failed", "incompatible", "watchdog"},
             VdWatched'
      PROVE  VdInv'
  <2>1. PICK w \in VdThread : vdPing' = [vdPing EXCEPT ![p] = w] /\ w.pc = c
    <3> DEFINE w0 == [vdPing[p] EXCEPT !.pc = c]
    <3>1. vdPing' = [vdPing EXCEPT ![p] = w0] BY <1>0, <1>3
    <3>2. w0 \in VdThread /\ w0.pc = c BY <1>0 DEF VdThread
    <3> HIDE DEF w0
    <3> QED BY <3>1, <3>2
  <2>2. /\ vdPing' \in Seq(VdThread) /\ DOMAIN vdPing' = DOMAIN vdPing
        /\ vdPing'[p] = w /\ \A q \in DOMAIN vdPing : q # p => vdPing'[q] = vdPing[q]
    BY <1>1, <2>1
  <2>3. VdCounted' BY <1>3, <2>1, <2>2 DEF VdCounted
  <2> QED BY <1>0, <1>3, <2>2, <2>3 DEF VdTyped, VdModeSet
<1>4. CASE MarkFailed(p)
  <2>1. vdStatus' = "watchdog" BY <1>4 DEF MarkFailed
  <2>2. VdWatched' BY <2>1 DEF VdWatched
  <2> QED BY <1>3, <1>4, <2>1, <2>2 DEF MarkFailed
<1>5. CASE CloseAfterFailure(p)
  <2>1. /\ vdPing[p].pc = "close" /\ UNCHANGED <<vdStatus, vdOpener>>
        /\ vdPing' = [vdPing EXCEPT ![p].pc = "ended"]
    BY <1>5 DEF CloseAfterFailure
  <2>2. \A q \in DOMAIN vdPing : q # p => vdPing'[q] = vdPing[q] BY <1>0, <2>1
  <2>3. DOMAIN vdPing' = DOMAIN vdPing BY <1>0, <2>1
  <2>4. VdWatched' BY <1>0, <2>1, <2>2, <2>3 DEF VdWatched
  <2>5. vdStatus' \in {"unknown", "ok", "failed", "incompatible", "watchdog"} BY <2>1 DEF VdTyped
  <2> QED BY <1>3, <1>5, <2>1, <2>4, <2>5 DEF CloseAfterFailure
<1> QED BY <1>2, <1>4, <1>5 DEF VdPinging

LEMMA VdIntervalKeeps == VdInv /\ PingInterval => VdInv'
<1> SUFFICES ASSUME VdInv, PingInterval PROVE VdInv' OBVIOUS
<1> USE DEF VdInv
<1>0. vdPing \in Seq(VdThread) BY DEF VdTyped
<1>1. /\ DOMAIN vdPing' = DOMAIN vdPing
      /\ \A p \in DOMAIN vdPing : vdPing'[p] = [vdPing[p] EXCEPT !.due = p \in Pinging]
  BY DEF PingInterval
<1>2. \A p \in DOMAIN vdPing :
        /\ vdPing'[p] \in VdThread /\ vdPing'[p].pc = vdPing[p].pc
        /\ vdPing[p].pc = "ping" => vdPing'[p].due
  <2> SUFFICES ASSUME NEW p \in DOMAIN vdPing
               PROVE  /\ vdPing'[p] \in VdThread /\ vdPing'[p].pc = vdPing[p].pc
                      /\ vdPing[p].pc = "ping" => vdPing'[p].due
    OBVIOUS
  <2>1. vdPing[p] \in VdThread BY <1>0
  <2>2. vdPing[p].pc = "ping" => p \in Pinging BY DEF Pinging
  <2>3. (p \in Pinging) \in BOOLEAN BY DEF Pinging
  <2> QED BY <1>1, <2>1, <2>2, <2>3, ZenonT(40) DEF VdThread
<1>3. vdPing' \in Seq(VdThread)
  <2>1. vdPing' = [p \in 1 .. Len(vdPing) |-> vdPing'[p]] /\ DOMAIN vdPing = 1 .. Len(vdPing) /\ Len(vdPing) \in Nat
    BY <1>0, <1>1 DEF PingInterval
  <2> QED BY <1>2, <2>1
<1>4. VdTyped' BY <1>3 DEF PingInterval, VdTyped, PingShare
<1>9. CASE ~vdWatchdog
  <2>1. UNCHANGED <<vdCount, vdDropped, vdWatchdog, vdMode, vdStatus, vdOpener>> /\ (~vdMissed' => ~vdMissed)
    BY <1>9 DEF PingInterval
  <2>2. VdCounted' BY <1>1, <1>2, <2>1 DEF VdCounted
  <2> QED BY <1>4, <1>9, <2>1, <2>2 DEF VdWatched, VdModeSet
<1>10. CASE vdWatchdog
  <2>5. ~vdMissed' => ~vdMissed /\ vdCount = 3
    <3> SUFFICES ASSUME ~vdMissed' PROVE ~vdMissed /\ vdCount = 3 OBVIOUS
    <3>1. ~vdMissed /\ Pinging # {} BY DEF PingInterval
    <3>2. PICK p \in Pinging : ~vdPing[p].due BY <3>1 DEF PingInterval
    <3> QED BY <3>1, <3>2 DEF VdCounted, Pinging
  <2>6. VdCounted' BY <1>1, <1>2, <1>10, <2>5 DEF VdCounted, PingInterval
  <2>7. ~vdDropped'
    <3>1. CASE vdCount <= 1
      <4>1. vdMissed' BY <2>5, <3>1
      <4> QED BY <1>10, <3>1, <4>1 DEF PingInterval
    <3>2. CASE ~(vdCount <= 1) BY <1>10, <3>2 DEF PingInterval
    <3> QED BY <3>1, <3>2
  <2>8. VdWatched' BY <1>1, <1>2 DEF VdWatched, PingInterval
  <2> QED BY <1>4, <2>6, <2>7, <2>8 DEF PingInterval, VdModeSet
<1> QED BY <1>4, <1>9, <1>10 DEF VdTyped

LEMMA VdInvStep == VdInv /\ [VdNext]_vdVars => VdInv'
<1> SUFFICES ASSUME VdInv, [VdNext]_vdVars PROVE VdInv' OBVIOUS
<1>1. CASE (\E r \in VdRates : CreateVirtualDisplay(r)) \/ RemoveVirtualDisplay \/ UNCHANGED vdVars
  <2>1. UNCHANGED <<vdStatus, vdOpener, vdPing, vdCount, vdMissed, vdDropped, vdWatchdog>>
    BY <1>1 DEF CreateVirtualDisplay, RemoveVirtualDisplay, vdVars
  <2>2. VdModeSet' BY <1>1 DEF CreateVirtualDisplay, RemoveVirtualDisplay, vdVars, VdInv, VdModeSet
  <2> QED BY <2>1, <2>2 DEF VdInv, VdTyped, VdCounted, VdWatched
<1> QED BY <1>1, VdOpenerKeeps, VdPingKeeps, VdIntervalKeeps DEF VdNext

\* However openers and ping threads interleave: a driver the host calls ready
\* is pinged or about to be, its watchdog takes no display away while pings are
\* answered, and the rate set is within a hertz of the one asked for.
THEOREM DisplayWatched == VdSpec => []VirtualDisplayWatched
<1>1. VdModeSet => BaselineRateClose
  <2> SUFFICES ASSUME VdModeSet, vdMode # <<>> PROVE vdMode[2] * 1000 - vdMode[1] \in -1000 .. 1000
    BY DEF BaselineRateClose
  <2>0. PICK r \in VdRates : \E b \in BaselineRates(r) : vdMode = <<r, b>> BY DEF VdModeSet
  <2>1. PICK b \in BaselineRates(r) : vdMode = <<r, b>> BY <2>0
  <2>2. r \in Nat BY VdAssumption
  <2> DEFINE w == r \div 1000
             x == r % 1000
  <2>3. w \in Int /\ x \in 0 .. 999 /\ r = 1000 * w + x BY <2>2
  <2>4. b \in IF x = 0 THEN {w, w - 1} ELSE {w, w + 1} BY <2>1 DEF BaselineRates
  <2> HIDE DEF w, x
  <2> QED BY <2>1, <2>2, <2>3, <2>4
<1>2. VdInv => VirtualDisplayWatched
  BY <1>1 DEF VdInv, VdWatched, VirtualDisplayWatched, PingsKeepDisplay, ReadyMeansWatched, ReadyUnwatched, Pinging
<1> QED BY <1>2, VdInvInit, VdInvStep, PTL DEF VdSpec

-----------------------------------------------------------------------------
(* NVIDIA driver preferences (NvPrefs) *)

NpTyped ==
  /\ npSaved \in NpValues /\ npSession \in NpValues /\ npUser \in NpValues /\ npUndo \subseteq NpValues
  /\ npFile \in {<<>>, <<"blank">>} \cup {<<v>> : v \in NpValues}

\* Between load and save the session's copy is the driver's value, and from the
\* check on it is not the host's; the undo file the host owns holds its undo
\* value, if it could be written.
NpSteps ==
  /\ npPc \in {"restore", "delete", "check", "create", "write", "save"} => npSession = npSaved
  /\ npPc \in {"create", "write", "save"} => npSession # NpOurs
  /\ npPc \in {"restore", "delete"} => npOwn = "none"
  /\ npPc = "save" => npOwn = "open" /\ npFile = <<npSession>>
  /\ npOwn = "open" => npFile = <<"blank">> \/ \E v \in NpValues : npFile = <<v>> /\ npUndo = {v}

\* The host's value is in force only with another one in the undo file, the
\* user's unless the user chose the host's; else the user's is in force.
NpOwed ==
  /\ npByUs => npSaved = NpOurs
  /\ npByUs /\ ~npGaveUp =>
       \E v \in NpValues \ {NpOurs} : npFile = <<v>> /\ (npUser # NpOurs => v = npUser)
  /\ ~npByUs /\ ~npGaveUp /\ npUser # NpOurs => npSaved = npUser
  /\ npPc = "delete" /\ ~npGaveUp => ~npByUs
  /\ CleanEndRestores

NpInv == NpTyped /\ NpSteps /\ NpOwed

LEMMA NpInvInit == NpInit => NpInv
  BY DEF NpInit, NpInv, NpTyped, NpSteps, NpOwed, CleanEndRestores

LEMMA NpInvStep == NpInv /\ [NpNext]_npVars => NpInv'
<1> SUFFICES ASSUME NpInv, [NpNext]_npVars PROVE NpInv' OBVIOUS
<1> USE NpAssumption DEF NpInv, NpTyped, NpSteps, NpOwed, CleanEndRestores, npDriver
<1>1. CASE Load BY <1>1 DEF Load
<1>2. CASE RestoreFromUndoFile
  <2>1. CASE UNCHANGED <<npSaved, npByUs, npSession, npGaveUp>> /\ npPc' = "check"
    BY <1>2, <2>1 DEF RestoreFromUndoFile
  <2>2. CASE /\ npFile # <<>> /\ npFile # <<"blank">> /\ npPc' = "delete"
             /\ npSession' = Restored(npFile[1]) /\ SaveSettings(npSession', FALSE) /\ UNCHANGED npGaveUp
    <3>1. PICK v \in NpValues : npFile = <<v>> BY <2>2
    <3>2. npSession' = IF npSaved = NpOurs THEN v ELSE npSaved BY <1>2, <2>2, <3>1 DEF Restored, RestoreFromUndoFile
    <3>3. npSaved' = npSession' /\ npByUs' = IF npSaved' = npSaved THEN npByUs ELSE FALSE
      BY <2>2 DEF SaveSettings
    <3>4. npPc = "restore" /\ UNCHANGED <<npFile, npUndo, npOwn, npUser, npClean>>
      BY <1>2 DEF RestoreFromUndoFile
    <3>5. NpTyped' BY <3>2, <3>3, <3>4
    <3>6. NpSteps' BY <2>2, <3>3, <3>4
    <3>7. npByUs' => npGaveUp
      BY <3>1, <3>2, <3>3
    <3>8. ~npByUs' /\ ~npGaveUp /\ npUser # NpOurs => npSaved' = npUser
      BY <3>1, <3>2, <3>3
    <3>9. npByUs' => npSaved' = NpOurs BY <3>3
    <3> QED BY <2>2, <3>4, <3>5, <3>6, <3>7, <3>8, <3>9
  <2>3. CASE /\ npFile # <<>> /\ npPc' = "delete" /\ npGaveUp' = (npGaveUp \/ npFile # <<"blank">>)
             /\ UNCHANGED <<npSaved, npByUs, npSession>>
    <3>1. npPc = "restore" /\ UNCHANGED <<npFile, npUndo, npOwn, npUser, npClean>>
      BY <1>2 DEF RestoreFromUndoFile
    <3>2. npByUs => npGaveUp'
      <4>1. ASSUME npByUs, ~npGaveUp PROVE npFile # <<"blank">>
        <5>1. PICK v \in NpValues : npFile = <<v>> BY <4>1
        <5> QED BY <5>1
      <4>2. npGaveUp' <=> (npGaveUp \/ npFile # <<"blank">>) BY <2>3
      <4> QED BY <4>1, <4>2, Zenon
    <3> QED BY <2>3, <3>1, <3>2
  <2> QED BY <1>2, <2>1, <2>2, <2>3 DEF RestoreFromUndoFile
<1>3. CASE DeleteUndoFile BY <1>3 DEF DeleteUndoFile
<1>4. CASE CheckGlobalProfile BY <1>4 DEF CheckGlobalProfile
<1>5. CASE CreateUndoFile BY <1>5 DEF CreateUndoFile
<1>6. CASE WriteUndoData
  <2>1. ~npByUs /\ ~npByUs' /\ npPc' \in {"save", "run"} /\ UNCHANGED <<npDriver, npSession, npGaveUp, npClean>>
    BY <1>6 DEF WriteUndoData, WriteFails
  <2> QED BY <1>6, <2>1 DEF WriteUndoData, WriteFails
<1>7. CASE SaveGlobalProfile
  <2>1. npPc' = "run" /\ UNCHANGED <<npFile, npUndo, npOwn, npUser, npGaveUp, npClean>> /\ npPc = "save"
    BY <1>7 DEF SaveGlobalProfile
  <2>2. CASE npSession' = NpOurs /\ SaveSettings(NpOurs, TRUE)
    <3>1. npSaved' = NpOurs /\ ~npByUs BY <2>1, <2>2 DEF SaveSettings
    <3>2. npFile = <<npSession>> /\ npSession \in NpValues \ {NpOurs} BY <2>1
    <3>3. ~npGaveUp /\ npUser # NpOurs => npSession = npUser BY <2>1, <3>1
    <3>4. npByUs' BY <2>1, <2>2 DEF SaveSettings
    <3> QED BY <2>1, <2>2, <3>1, <3>2, <3>3, <3>4
  <2>3. CASE npSession' = npSaved /\ UNCHANGED <<npSaved, npByUs>> BY <2>1, <2>3
  <2> QED BY <1>7, <2>2, <2>3 DEF SaveGlobalProfile
<1>8. CASE StopHost
  <2>1. npPc' = "down" /\ npOwn' = "none" /\ npUndo' = {} /\ npSession' = npSaved' /\ UNCHANGED <<npUser, npGaveUp>>
    BY <1>8 DEF StopHost
  <2>2. CASE /\ npOwn = "open" /\ \E u \in npUndo : SaveSettings(IF npSaved = NpOurs THEN u ELSE npSaved, FALSE)
             /\ npFile' \in {<<>>, npFile}
    <3>1. PICK u \in npUndo : /\ npSaved' = IF npSaved = NpOurs THEN u ELSE npSaved
                              /\ npByUs' = IF npSaved' = npSaved THEN npByUs ELSE FALSE
      BY <2>2 DEF SaveSettings
    <3>2. npByUs /\ ~npGaveUp => u # NpOurs /\ (npUser # NpOurs => u = npUser) BY <2>2
    <3>3. npByUs' => npGaveUp /\ npSaved' = NpOurs BY <3>1, <3>2
    <3>4. ~npByUs' /\ ~npGaveUp /\ npUser # NpOurs => npSaved' = npUser BY <3>1, <3>2
    <3> QED BY <2>1, <2>2, <3>1, <3>3, <3>4
  <2>3. CASE UNCHANGED <<npSaved, npByUs, npFile>> /\ npClean' = (npOwn = "none" /\ npFile = <<>>)
    <3>1. npByUs /\ ~npGaveUp => ~npClean'
      <4>1. ASSUME npByUs, ~npGaveUp PROVE npFile # <<>>
        <5>1. PICK v \in NpValues : npFile = <<v>> BY <4>1
        <5> QED BY <5>1
      <4>2. npClean' => npFile = <<>> BY <2>3
      <4> QED BY <4>1, <4>2, Zenon
    <3> QED BY <2>1, <2>3, <3>1
  <2> QED BY <1>8, <2>2, <2>3 DEF StopHost
<1>9. CASE NpCrash
  <2>1. npPc = "write" => ~npByUs OBVIOUS
  <2>2. /\ npPc' = "down" /\ npOwn' = "none" /\ npUndo' = {} /\ npClean' = FALSE /\ npSession' = npSaved
        /\ npFile' = npFile \/ (npPc = "write" /\ npFile' = <<"blank">>)
        /\ UNCHANGED <<npSaved, npByUs, npUser, npGaveUp>>
    BY <1>9 DEF NpCrash
  <2> QED BY <2>1, <2>2
<1>10. ASSUME NEW v \in NpValues, UserChanges(v) PROVE NpInv' BY <1>10 DEF UserChanges
<1>11. CASE UNCHANGED npVars BY <1>11 DEF npVars
<1> QED BY <1>1, <1>2, <1>3, <1>4, <1>5, <1>6, <1>7, <1>8, <1>9, <1>10, <1>11 DEF NpNext

LEMMA NpInvHolds == NpInv => ChangeRecoverable /\ CleanEndRestores /\ UserValueBack
  BY DEF NpInv, NpOwed, ChangeRecoverable, UserValueBack

\* The driver setting the host changed can be put back from the undo file after
\* any crash or failed call, a proper end puts it back, and a new host that
\* finds no undo file finds the user's value.
THEOREM DriverSettingRecoverable ==
  NpSpec => [](ChangeRecoverable /\ CleanEndRestores /\ UserValueBack)
  BY NpInvHolds, NpInvInit, NpInvStep, PTL DEF NpSpec

-----------------------------------------------------------------------------
(* Display settings (DisplayDevice) *)

DdMode == DdModes \cup {DdUnset, "manual"}
DdRecord == [sops : BOOLEAN, res : DdMode, rate : DdMode]
DdValid == {c \in DdRecord : c.res # DdUnset => c.sops}

LEMMA DdConfigsAre == DdConfigs = DdRecord
<1>1. DdConfigs \subseteq DdRecord BY DEF DdConfigs, DdRecord, DdMode
<1>2. ASSUME NEW c \in DdRecord PROVE c \in DdConfigs
  <2>1. c = [sops |-> c.sops, res |-> c.res, rate |-> c.rate] BY DEF DdRecord
  <2>2. c.sops \in BOOLEAN /\ c.res \in DdMode /\ c.rate \in DdMode BY DEF DdRecord
  <2>3. \E o \in BOOLEAN, r, f \in DdMode : c = [sops |-> o, res |-> r, rate |-> f] BY <2>1, <2>2, Zenon
  <2> QED BY <2>3 DEF DdConfigs, DdMode
<1> QED BY <1>1, <1>2

LEMMA DdTagsApart ==
  /\ DdOriginal \notin DdRecord
  /\ DdRevert # DdOriginal /\ DdKeep # DdOriginal
  BY DdInputs DEF DdOriginal, DdRevert, DdKeep, DdTag, DdRecord, DdMode, DdUnset

\* What a launch's wishes become: a configuration that changes the resolution
\* only for clients with "Optimize game settings", or a failure.
LEMMA ParsedConfiguration ==
  ASSUME NEW l \in DdLaunches, ParseConfiguration(l[1], l[2]) # DdFailed
  PROVE  ParseConfiguration(l[1], l[2]) \in DdValid
<1> DEFINE v == l[1]
           s == l[2]
           mode == [sops |-> s.sops,
                    res |-> ParseResolutionOption(v.resolution, s.sops, s.res, "manual"),
                    rate |-> ParseRefreshRateOption(v.rate, s.rate, "manual")]
           Entry(i) == ParseRemappingEntry(v, v.remap[i])
           Decides(i) == BadEntry(Entry(i)) \/ ~SkippedEntry(Entry(i), s.sops, mode)
           first == {i \in DOMAIN v.remap : Decides(i) /\ \A j \in 1..(i - 1) : ~Decides(j)}
           e == Entry(CHOOSE i \in first : TRUE)
           cfg == RemapDisplayModeIfNeeded(v, s.sops, mode)
<1>0. DdOptions(v) /\ s \in [sops : BOOLEAN, res : DdModes, rate : DdModes] BY DdInputs
<1>1. /\ mode.sops \in BOOLEAN /\ mode.res \in DdMode /\ mode.rate \in DdMode
      /\ mode.sops = s.sops /\ (~s.sops => mode.res = DdUnset)
  <2>1. ParseResolutionOption(v.resolution, s.sops, s.res, "manual") \in DdMode
    BY <1>0 DEF ParseResolutionOption, DdMode
  <2>2. ~s.sops => ParseResolutionOption(v.resolution, s.sops, s.res, "manual") = DdUnset
    BY DEF ParseResolutionOption
  <2>3. ParseRefreshRateOption(v.rate, s.rate, "manual") \in DdMode
    BY <1>0 DEF ParseRefreshRateOption, DdOptions, DdMode
  <2> HIDE DEF v, s
  <2> QED BY <1>0, <2>1, <2>2, <2>3
<1>2. mode \in DdValid
  BY <1>1 DEF DdValid, DdRecord
<1>3. cfg = ParseConfiguration(l[1], l[2]) BY DEF ParseConfiguration
<1>4. cfg = IF first = {} \/ ~(RemapsResolution(v) \/ RemapsRate(v)) THEN mode
            ELSE IF BadEntry(e) THEN DdFailed
                 ELSE [mode EXCEPT !.res = IF e.to.res # DdUnset THEN e.to.res ELSE @,
                                   !.rate = IF e.to.rate # DdUnset THEN e.to.rate ELSE @]
  BY DEF RemapDisplayModeIfNeeded
<1>5. CASE first = {} \/ ~(RemapsResolution(v) \/ RemapsRate(v)) BY <1>2, <1>3, <1>4, <1>5
<1>6. CASE ~(first = {} \/ ~(RemapsResolution(v) \/ RemapsRate(v)))
  <2>1. PICK i \in DOMAIN v.remap : e = Entry(i) /\ Decides(i)
    <3>1. (CHOOSE i \in first : TRUE) \in first BY <1>6
    <3> QED BY <3>1
  <2>2. e.to.res \in DdModes \cup {DdUnset} /\ e.to.rate \in DdModes \cup {DdUnset}
    <3>1. v.remap[i] \in [from : DdHalf, to : DdHalf] BY <1>0 DEF DdOptions
    <3>2. e = ParseRemappingEntry(v, v.remap[i]) BY <2>1
    <3> HIDE DEF v, e
    <3> QED BY <3>1, <3>2 DEF ParseRemappingEntry, DdHalf
  <2>3. ~BadEntry(e) BY <1>3, <1>4, <1>6
  <2>4. ~s.sops => e.to.res = DdUnset
    <3>1. ~SkippedEntry(e, s.sops, mode) BY <2>1, <2>3
    <3> HIDE DEF e, s, mode
    <3> QED BY <3>1 DEF SkippedEntry
  <2> DEFINE r == IF e.to.res # DdUnset THEN e.to.res ELSE mode.res
             f == IF e.to.rate # DdUnset THEN e.to.rate ELSE mode.rate
  <2>5. cfg = [mode EXCEPT !.res = r, !.rate = f] BY <1>4, <1>6, <2>3
  <2>6. r \in DdMode /\ f \in DdMode /\ (r # DdUnset => s.sops)
    <3> HIDE DEF e, s, mode, v
    <3> QED BY <1>1, <2>2, <2>4 DEF DdMode
  <2> HIDE DEF r, f, mode, cfg
  <2> QED BY <1>1, <1>2, <1>3, <2>5, <2>6 DEF DdValid, DdRecord
<1> QED BY <1>5, <1>6

DdAudioRecord == [held : BOOLEAN, released : BOOLEAN, retries : 0..DdAudioRetries, job : BOOLEAN]

\* The scheduler's job is what was asked for last.
DdInv ==
  /\ ddSettings \in DdValid \cup {DdOriginal} /\ ddSaved \in BOOLEAN
  /\ ddWanted \in DdValid \cup {DdRevert, DdKeep} /\ ddDevices \subseteq DdDevices
  /\ ddAudio \in DdAudioRecord
  /\ \/ ddJob = DdIdle \/ ddJob = [kind |-> "off"]
     \/ \E c \in DdValid : ddJob = [kind |-> "apply", cfg |-> c] /\ ddWanted = c
     \/ \E t \in SUBSET DdDevices : ddJob = RevertJob(t) /\ ddWanted = DdRevert
  /\ ChangedSettingsRecoverable

LEMMA DdInvInit == DdInit => DdInv
<1> SUFFICES ASSUME DdInit PROVE DdInv OBVIOUS
<1>1. DdNoAudio \in DdAudioRecord BY DdAssumption DEF DdNoAudio, DdAudioRecord
<1> QED BY <1>1 DEF DdInit, DdInv, ChangedSettingsRecoverable

\* The library applied, delayed or refused a configuration.
LEMMA ApplyKeeps ==
  ASSUME DdInv, NEW c \in DdValid, NEW a \in DdAnswers, ApplySettings(c, a),
         ddWanted' = c, UNCHANGED ddDevices
  PROVE  DdInv' /\ JobDoesWhatIsWanted
<1>1. ddSettings' = IF a = "ok" THEN c ELSE ddSettings BY DEF ApplySettings
<1>2. ddSaved' \in BOOLEAN /\ (ddSaved => ddSaved') /\ (a = "ok" => ddSaved') BY DEF ApplySettings
<1>3. ddAudio' \in DdAudioRecord
  <2>1. Captured(ddAudio) \in DdAudioRecord
    <3>1. DdAudioRetries \in 0..DdAudioRetries BY DdAssumption
    <3> QED BY <3>1 DEF Captured, DdInv, DdAudioRecord
  <2> QED BY <2>1 DEF ApplySettings, DdInv
<1>4. ddJob' = DdIdle \/ ddJob' = [kind |-> "apply", cfg |-> c] BY DEF ApplySettings
<1>5. ChangedSettingsRecoverable' BY <1>1, <1>2 DEF DdInv, ChangedSettingsRecoverable
<1>6. DdInv' BY <1>1, <1>2, <1>3, <1>4, <1>5 DEF DdInv
<1>7. c # DdOriginal BY DdTagsApart DEF DdValid
<1> QED BY <1>1, <1>6, <1>7 DEF JobDoesWhatIsWanted

\* The library reverted, or not yet, or not while these displays are there.
LEMMA RevertKeeps ==
  ASSUME DdInv, NEW t \in SUBSET DdDevices, NEW a \in DdAnswers, RunRevert(RevertJob(t), a),
         ddWanted' = DdRevert, UNCHANGED ddDevices
  PROVE  DdInv' /\ JobDoesWhatIsWanted
<1>1. ddDevices \in SUBSET DdDevices BY DEF DdInv
<1>2. ddJob' \in {DdIdle, RevertJob(t), RevertJob(ddDevices)}
  <2>1. [RevertJob(t) EXCEPT !.tried = ddDevices] = RevertJob(ddDevices) BY DEF RevertJob
  <2> QED BY <2>1 DEF RunRevert, DdAnswers
<1>3. CASE UNCHANGED <<ddSettings, ddSaved, ddAudio>>
  BY <1>1, <1>2, <1>3 DEF DdInv, ChangedSettingsRecoverable, JobDoesWhatIsWanted
<1>4. CASE RevertSettings(a)
  <2>1. ddSettings' \in {ddSettings, DdOriginal} BY <1>4 DEF RevertSettings
  <2>2. ddSaved' \in BOOLEAN /\ (ddSettings' # DdOriginal => ddSaved')
    <3>1. CASE a = "ok" BY <1>4, <3>1 DEF RevertSettings, DdInv, ChangedSettingsRecoverable
    <3>2. CASE a # "ok" BY <1>4, <3>2 DEF RevertSettings, DdInv, ChangedSettingsRecoverable
    <3> QED BY <3>1, <3>2
  <2>3. ddAudio' \in DdAudioRecord BY <1>4 DEF RevertSettings, DdInv, DdAudioRecord
  <2>4. DdInv' BY <1>1, <1>2, <2>1, <2>2, <2>3 DEF DdInv, ChangedSettingsRecoverable
  <2> QED BY <2>1, <2>4 DEF JobDoesWhatIsWanted
<1> QED BY <1>3, <1>4 DEF RunRevert

LEMMA DdInvStep == DdInv /\ DdNext => DdInv' /\ JobDoesWhatIsWanted
<1> SUFFICES ASSUME DdInv, DdNext PROVE DdInv' /\ JobDoesWhatIsWanted OBVIOUS
<1>1. ASSUME NEW l \in DdLaunches, NEW a \in DdAnswers, ConfigureDisplay(l[1], l[2], a)
      PROVE  DdInv' /\ JobDoesWhatIsWanted
  <2>1. ParseConfiguration(l[1], l[2]) \in DdValid BY <1>1, ParsedConfiguration DEF ConfigureDisplay
  <2> QED BY <1>1, <2>1, ApplyKeeps DEF ConfigureDisplay
<1>2. CASE RevertConfigurationDelayed
  BY <1>2 DEF RevertConfigurationDelayed, DdInv, ChangedSettingsRecoverable, JobDoesWhatIsWanted
<1>3. CASE ResetPersistence
  <2>1. ddWanted' = DdKeep /\ ddJob' = DdIdle /\ ddSaved' = FALSE /\ ddSettings' = DdOriginal
        /\ UNCHANGED <<ddDevices, ddAudio>>
    BY <1>3 DEF ResetPersistence
  <2> QED BY <2>1 DEF DdInv, ChangedSettingsRecoverable, JobDoesWhatIsWanted
<1>4. ASSUME NEW a \in DdAnswers, RevertConfigurationNow(a) PROVE DdInv' /\ JobDoesWhatIsWanted
  <2>1. {} \in SUBSET DdDevices OBVIOUS
  <2> QED BY <1>4, <2>1, RevertKeeps DEF RevertConfigurationNow
<1>5. ASSUME NEW a \in DdAnswers, SchedulerRuns(a) PROVE DdInv' /\ JobDoesWhatIsWanted
  <2>0. UNCHANGED <<ddWanted, ddDevices>> BY <1>5 DEF SchedulerRuns
  <2>1. CASE ddJob.kind = "apply" /\ ApplySettings(ddJob.cfg, a)
    <3>1. ddJob.cfg \in DdValid /\ ddWanted = ddJob.cfg BY <2>1 DEF DdInv, DdIdle, RevertJob
    <3> QED BY <2>0, <2>1, <3>1, ApplyKeeps
  <2>2. CASE ddJob.kind = "revert" /\ RunRevert(ddJob, a)
    <3>1. PICK t \in SUBSET DdDevices : ddJob = RevertJob(t) /\ ddWanted = DdRevert
      BY <2>2 DEF DdInv, DdIdle
    <3> QED BY <2>0, <2>2, <3>1, RevertKeeps
  <2> QED BY <1>5, <2>1, <2>2 DEF SchedulerRuns
<1>6. ASSUME NEW a \in DdAnswers, ShutDown(a) PROVE DdInv' /\ JobDoesWhatIsWanted
  <2>1. ddJob' = [kind |-> "off"] /\ ddAudio' = DdNoAudio /\ UNCHANGED <<ddWanted, ddDevices>>
    BY <1>6 DEF ShutDown
  <2>2. UNCHANGED <<ddSettings, ddSaved>> \/ (ddSettings' = DdOriginal /\ ddSaved' = FALSE)
    BY <1>6 DEF ShutDown
  <2>3. DdNoAudio \in DdAudioRecord BY DdAssumption DEF DdNoAudio, DdAudioRecord
  <2>4. DdInv' BY <2>1, <2>2, <2>3 DEF DdInv, ChangedSettingsRecoverable
  <2> QED BY <2>1, <2>4 DEF JobDoesWhatIsWanted
<1>7. ASSUME NEW b \in BOOLEAN, AudioReleaseRuns(b) PROVE DdInv' /\ JobDoesWhatIsWanted
  <2>1. ddAudio' \in DdAudioRecord
    <3>1. DdNoAudio \in DdAudioRecord BY DdAssumption DEF DdNoAudio, DdAudioRecord
    <3>2. ddAudio \in DdAudioRecord BY DEF DdInv
    <3>3. ASSUME ddAudio.retries > 0
          PROVE  [ddAudio EXCEPT !.released = TRUE, !.retries = @ - 1] \in DdAudioRecord
      <4> DEFINE r == ddAudio.retries - 1
      <4>1. r \in 0..DdAudioRetries BY <3>2, <3>3, DdAssumption DEF DdAudioRecord
      <4> HIDE DEF r
      <4>2. [ddAudio EXCEPT !.released = TRUE, !.retries = r] \in DdAudioRecord BY <3>2, <4>1 DEF DdAudioRecord
      <4> QED BY <4>2 DEF r
    <3> QED BY <1>7, <3>1, <3>3 DEF AudioReleaseRuns
  <2>2. UNCHANGED <<ddSettings, ddSaved, ddJob, ddWanted, ddDevices>> BY <1>7 DEF AudioReleaseRuns
  <2> QED BY <2>1, <2>2 DEF DdInv, ChangedSettingsRecoverable, JobDoesWhatIsWanted
<1>8. ASSUME NEW d \in SUBSET DdDevices, DevicesChange(d) PROVE DdInv' /\ JobDoesWhatIsWanted
  BY <1>8 DEF DevicesChange, DdInv, ChangedSettingsRecoverable, JobDoesWhatIsWanted
<1>9. ASSUME NEW x \in BOOLEAN, NEW a \in DdAnswers, StartUp(x, a) PROVE DdInv' /\ JobDoesWhatIsWanted
  <2>1. ddJob.kind = "off" /\ UNCHANGED <<ddDevices, ddAudio>> BY <1>9 DEF StartUp
  <2>2. CASE x
    <3>1. ddWanted' = DdKeep /\ ddSaved' = FALSE /\ ddJob' = DdIdle /\ ddSettings' = DdOriginal
      BY <1>9, <2>2 DEF StartUp
    <3> QED BY <2>1, <3>1 DEF DdInv, ChangedSettingsRecoverable, JobDoesWhatIsWanted
  <2>3. CASE ~x
    <3> DEFINE reverted == a = "ok" /\ ddDevices # {}
    <3>1. /\ ddWanted' = DdRevert
          /\ ddSettings' = IF ddSaved /\ reverted THEN DdOriginal ELSE ddSettings
          /\ ddSaved' = (ddSaved /\ ~reverted)
      BY <1>9, <2>3 DEF StartUp
    <3>2. ddJob' \in {DdIdle, RevertJob({}), RevertJob(ddDevices)}
      BY <1>9, <2>3 DEF StartUp, DdAnswers
    <3>3. ddSaved' \in BOOLEAN /\ (ddSettings' # DdOriginal => ddSaved')
      <4>1. CASE reverted BY <3>1, <4>1 DEF DdInv, ChangedSettingsRecoverable
      <4>2. CASE ~reverted BY <3>1, <4>2 DEF DdInv, ChangedSettingsRecoverable
      <4> QED BY <4>1, <4>2
    <3>4. DdInv'
      BY <2>1, <3>1, <3>2, <3>3 DEF DdInv, ChangedSettingsRecoverable
    <3> QED BY <2>1, <3>4 DEF JobDoesWhatIsWanted
  <2> QED BY <2>2, <2>3
<1> QED BY <1>1, <1>2, <1>3, <1>4, <1>5, <1>6, <1>7, <1>8, <1>9 DEF DdNext

LEMMA DdInvStays == DdInv /\ UNCHANGED ddVars => DdInv'
  BY DEF DdInv, ddVars, ChangedSettingsRecoverable

LEMMA DdInvHolds == DdInv => DdTypeOK /\ ChangedSettingsRecoverable /\ ResolutionNeedsSops
<1> SUFFICES ASSUME DdInv PROVE DdTypeOK /\ ChangedSettingsRecoverable /\ ResolutionNeedsSops OBVIOUS
<1>1. DdValid \subseteq DdConfigs BY DdConfigsAre DEF DdValid
<1>2. ddJob.kind \in {"none", "apply", "revert", "off"} BY DEF DdInv, DdIdle, RevertJob
<1>3. DdTypeOK BY <1>1, <1>2 DEF DdInv, DdTypeOK, DdAudioRecord
<1>4. ResolutionNeedsSops
  BY DdConfigsAre, DdTagsApart DEF DdInv, ResolutionNeedsSops, DdValid
<1> QED BY <1>3, <1>4 DEF DdInv

\* Across crashes, failed calls and displays that come and go, the original
\* mode is on file while another is in force, and no client without "Optimize
\* game settings" gets its resolution changed, by whatever remapping.
THEOREM DisplaySettingsRecoverable ==
  DdSpec => [](DdTypeOK /\ ChangedSettingsRecoverable /\ ResolutionNeedsSops)
<1>1. DdInv /\ [DdNext]_ddVars => DdInv' BY DdInvStep, DdInvStays
<1> QED BY <1>1, DdInvHolds, DdInvInit, PTL DEF DdSpec

\* A job that is retried never applies or reverts what has been superseded.
THEOREM RetriesDoWhatIsWanted == DdSpec => [][JobDoesWhatIsWanted]_ddVars
<1>1. DdInv /\ [DdNext]_ddVars => DdInv' BY DdInvStep, DdInvStays
<1>2. DdInv /\ [DdNext]_ddVars => [JobDoesWhatIsWanted]_ddVars BY DdInvStep
<1> QED BY <1>1, <1>2, DdInvInit, PTL DEF DdSpec

-----------------------------------------------------------------------------
(* The application of a stream (AppSession) *)

AppLaunch == [virtualDisplay : BOOLEAN, guid : Apps \cup {None}]

HostRecord ==
  [app : Apps \cup {InputOnly, None}, ctx : Apps \cup {None}, onPause : BOOLEAN, placebo : BOOLEAN,
   child : {"none", "alive", "exited"}, recent : BOOLEAN, prep : Nat, launch : AppLaunch,
   virtualDisplay : BOOLEAN, display : Displays \cup {""}, input : {"user", "app"},
   saved : {"user", None}, modeChanged : Displays \cup {""}, hdrChanged : SUBSET Displays,
   driver : BOOLEAN, virtual : SUBSET Apps, settings : {"applied", "kept", "reverting"}]

\* Without an application there is nothing to undo.
NothingOwed(h) ==
  /\ h.prep = 0 /\ ~h.placebo /\ h.child = "none" /\ h.saved = None
  /\ h.virtual = {} /\ h.hdrChanged = {}

\* What terminate() relies on: it knows the input setting to restore, the
\* virtual display to remove and the display whose HDR state was changed.
HostOK(h) ==
  /\ h \in HostRecord
  /\ h.saved = None => h.input = "user"
  /\ ~h.driver => h.virtual = {}
  /\ \A g \in h.virtual : h.launch.guid = g /\ h.launch.virtualDisplay
  /\ h.hdrChanged \subseteq {h.display} /\ h.hdrChanged \subseteq {h.modeChanged}
  /\ h.app = None => NothingOwed(h)

AppInv ==
  /\ host \in HostRecord
  /\ sessions \in 0..1 /\ hdrJobs \in 0..MaxHdrJobs
  /\ host.app = None => ~host.placebo /\ host.child = "none" /\ host.saved = None
  /\ ~replaced => HostOK(host) /\ done \subseteq UndonePrep(host)

\* The application is gone and all it changed undone, its display settings
\* as well if it is now that it went; or it stays, with its prep commands.
Gone(t, h) ==
  /\ HostOK(t) /\ t.app = None /\ t.prep = 0
  /\ h.app # None => t.settings \in {"kept", "reverting"}
Stays(t, h) == HostOK(t) /\ t.app = h.app /\ t.ctx = h.ctx /\ t.prep = h.prep

LEMMA TerminateHostEnds ==
  ASSUME NEW h, HostOK(h)
  PROVE  /\ HostOK(Terminate(h)) /\ Terminate(h).app = None /\ Terminate(h).ctx = None
         /\ NothingOwed(Terminate(h)) /\ Terminate(h).display = "" /\ Terminate(h).input = "user"
         /\ Terminate(h).driver = h.driver
         /\ h.app # None => Terminate(h).settings \in {"kept", "reverting"}
<1> DEFINE t == Terminate(h)
<1>0. h \in HostRecord BY DEF HostOK
<1>1. AfterRemoval(h) = {}
  BY DEF HostOK, AfterRemoval, UsedVirtualDisplay
<1>2. AfterStop(h) \in {"applied", "kept", "reverting"}
  BY <1>0 DEF AfterStop, HostRecord
<1>3. h.app # None => AfterStop(h) \in {"kept", "reverting"} BY DEF AfterStop
<1> DEFINE c == IF h.app # None THEN h.hdrChanged \ {h.modeChanged} ELSE h.hdrChanged
           u == IF h.saved # None THEN h.saved ELSE h.input
<1>4. c = {} BY DEF HostOK, NothingOwed
<1>5. u = "user" BY <1>0 DEF HostOK, HostRecord
<1>6. t = [h EXCEPT !.placebo = FALSE, !.child = "none", !.recent = FALSE, !.prep = 0,
            !.hdrChanged = {}, !.virtual = {}, !.settings = AfterStop(h),
            !.app = None, !.ctx = None, !.onPause = FALSE,
            !.display = "", !.modeChanged = "", !.launch = NoLaunch, !.virtualDisplay = FALSE,
            !.input = "user", !.saved = None]
  BY <1>1, <1>4, <1>5 DEF Terminate
<1>7. NoLaunch \in AppLaunch BY DEF NoLaunch, AppLaunch
<1> HIDE DEF t
<1>8. t \in HostRecord
  BY <1>0, <1>2, <1>6, <1>7, ZenonT(40) DEF HostRecord
<1>9. /\ t.placebo = FALSE /\ t.child = "none" /\ t.prep = 0 /\ t.hdrChanged = {} /\ t.virtual = {}
      /\ t.settings = AfterStop(h) /\ t.app = None /\ t.ctx = None /\ t.display = "" /\ t.input = "user"
      /\ t.saved = None /\ t.driver = h.driver
  BY <1>0, <1>6 DEF HostRecord
<1>10. NothingOwed(t) BY <1>9 DEF NothingOwed
<1>11. HostOK(t) BY <1>8, <1>9, <1>10 DEF HostOK
<1> QED BY <1>3, <1>9, <1>10, <1>11 DEF t

LEMMA ReopenKeeps ==
  ASSUME NEW h, HostOK(h), NEW b \in BOOLEAN
  PROVE  /\ HostOK(Reopen(h, b))
         /\ Reopen(h, b).app = h.app /\ Reopen(h, b).ctx = h.ctx /\ Reopen(h, b).prep = h.prep
         /\ Reopen(h, b).settings = h.settings /\ Reopen(h, b).launch = h.launch
         /\ Reopen(h, b).virtual = h.virtual /\ Reopen(h, b).hdrChanged = h.hdrChanged
         /\ Reopen(h, b).virtualDisplay = h.virtualDisplay /\ Reopen(h, b).display = h.display
<1> DEFINE d == h.driver \/ b
           t == [h EXCEPT !.driver = d]
<1>0. h \in HostRecord BY DEF HostOK
<1>1. d \in BOOLEAN /\ (h.driver => d) OBVIOUS
<1>2. Reopen(h, b) = t BY DEF Reopen
<1> HIDE DEF d
<1>3. t \in HostRecord BY <1>0, <1>1 DEF HostRecord
<1>4. /\ t.app = h.app /\ t.ctx = h.ctx /\ t.prep = h.prep /\ t.settings = h.settings
      /\ t.launch = h.launch /\ t.virtual = h.virtual /\ t.hdrChanged = h.hdrChanged
      /\ t.virtualDisplay = h.virtualDisplay /\ t.display = h.display /\ t.driver = d
      /\ t.saved = h.saved /\ t.input = h.input /\ t.modeChanged = h.modeChanged
      /\ t.placebo = h.placebo /\ t.child = h.child
  BY <1>0 DEF HostRecord
<1> HIDE DEF t
<1>5. HostOK(t) BY <1>1, <1>3, <1>4 DEF HostOK, NothingOwed
<1> QED BY <1>2, <1>4, <1>5

LEMMA TerminateAndRefreshGone ==
  ASSUME NEW h, HostOK(h), NEW b \in BOOLEAN
  PROVE  Gone(TerminateAndRefresh(h, b), h)
<1>1. /\ HostOK(Terminate(h)) /\ Terminate(h).app = None /\ Terminate(h).prep = 0
      /\ h.app # None => Terminate(h).settings \in {"kept", "reverting"}
  BY TerminateHostEnds DEF NothingOwed
<1> QED BY <1>1, ReopenKeeps DEF Gone, TerminateAndRefresh

\* A change of the display settings or of the placebo flag of an application.
LEMMA SettingsKeep ==
  ASSUME NEW h, HostOK(h), NEW v \in {"applied", "kept", "reverting"}
  PROVE  LET t == [h EXCEPT !.settings = v]
         IN  Stays(t, h) /\ t.settings = v
<1> DEFINE t == [h EXCEPT !.settings = v]
<1>0. h \in HostRecord BY DEF HostOK
<1>1. t \in HostRecord BY <1>0 DEF HostRecord
<1>2. /\ t.app = h.app /\ t.ctx = h.ctx /\ t.prep = h.prep /\ t.settings = v
      /\ t.launch = h.launch /\ t.virtual = h.virtual /\ t.hdrChanged = h.hdrChanged
      /\ t.display = h.display /\ t.driver = h.driver
      /\ t.saved = h.saved /\ t.input = h.input /\ t.modeChanged = h.modeChanged
      /\ t.placebo = h.placebo /\ t.child = h.child
  BY <1>0 DEF HostRecord
<1> HIDE DEF t
<1>3. HostOK(t) BY <1>1, <1>2 DEF HostOK, NothingOwed
<1> QED BY <1>2, <1>3 DEF Stays, t

LEMMA PlaceboKeeps ==
  ASSUME NEW h, HostOK(h), h.app # None
  PROVE  Stays([h EXCEPT !.placebo = TRUE], h) /\ [h EXCEPT !.placebo = TRUE].onPause = h.onPause
<1> DEFINE t == [h EXCEPT !.placebo = TRUE]
<1>0. h \in HostRecord BY DEF HostOK
<1>1. t \in HostRecord BY <1>0 DEF HostRecord
<1>2. /\ t.app = h.app /\ t.ctx = h.ctx /\ t.prep = h.prep /\ t.onPause = h.onPause
      /\ t.launch = h.launch /\ t.virtual = h.virtual /\ t.hdrChanged = h.hdrChanged
      /\ t.display = h.display /\ t.driver = h.driver
      /\ t.saved = h.saved /\ t.input = h.input /\ t.modeChanged = h.modeChanged
  BY <1>0 DEF HostRecord
<1> HIDE DEF t
<1>3. HostOK(t) BY <1>1, <1>2 DEF HostOK
<1> QED BY <1>2, <1>3 DEF Stays, t

\* running() either finds the application at its end and undoes everything, or
\* leaves it.
LEMMA AfterRunningEnds ==
  ASSUME NEW h, HostOK(h), NEW b \in BOOLEAN
  PROVE  \/ Gone(AfterRunning(h, b), h) /\ UndoneByRunning(h) = UndonePrep(h) /\ ~IsRunning(h)
         \/ /\ Stays(AfterRunning(h, b), h) /\ UndoneByRunning(h) = {}
            /\ AfterRunning(h, b).onPause = h.onPause
<1>0. h \in HostRecord BY DEF HostOK
<1>1. CASE h.placebo \/ h.child = "alive"
  <2>1. IsRunning(h) BY <1>1 DEF IsRunning
  <2>2. ~(~h.placebo /\ Detaches(h)) BY <1>1 DEF Detaches
  <2>3. AfterRunning(h, b) = h BY <1>1, <2>1, <2>2 DEF AfterRunning
  <2> QED BY <2>1, <2>3 DEF Stays, UndoneByRunning
<1>2. CASE ~(h.placebo \/ h.child = "alive") /\ Detaches(h)
  <2>1. AfterRunning(h, b) = [h EXCEPT !.placebo = TRUE] /\ IsRunning(h)
    BY <1>2 DEF AfterRunning, IsRunning
  <2>2. h.app # None BY <1>2 DEF Detaches, HostOK, NothingOwed
  <2> QED BY <2>1, <2>2, PlaceboKeeps DEF UndoneByRunning
<1>3. CASE ~(h.placebo \/ h.child = "alive") /\ ~Detaches(h) /\ h.child = "exited"
  <2>1. ~IsRunning(h) BY <1>3 DEF IsRunning
  <2>2. AfterRunning(h, b) = TerminateAndRefresh(h, b)
    BY <1>3, <2>1 DEF AfterRunning
  <2> QED BY <1>3, <2>1, <2>2, TerminateAndRefreshGone DEF UndoneByRunning
<1>4. CASE ~(h.placebo \/ h.child = "alive") /\ ~Detaches(h) /\ h.child = "none"
  <2>1. ~IsRunning(h) BY <1>4 DEF IsRunning
  <2>2. AfterRunning(h, b) = h BY <1>4, <2>1 DEF AfterRunning
  <2> QED BY <1>4, <2>1, <2>2 DEF Stays, UndoneByRunning
<1>5. h.child \in {"none", "alive", "exited"} BY <1>0 DEF HostRecord
<1> QED BY <1>1, <1>2, <1>3, <1>4, <1>5

\* The last session leaves the application, or ends it.
LEMMA AfterLastSessionEnds ==
  ASSUME NEW h, HostOK(h), NEW b \in BOOLEAN, NEW revert \in BOOLEAN
  PROVE  \/ Gone(AfterLastSession(h, b, revert), h) /\ UndonePrep(h) \subseteq UndoneByLastSession(h)
         \/ Stays(AfterLastSession(h, b, revert), h)
<1> DEFINE r == AfterRunning(h, b)
           p == IF IsRunning(h) /\ r.onPause THEN TerminateAndRefresh(r, b) ELSE r
           s == AfterLastSession(h, b, revert)
<1>1. s = p \/ s = [p EXCEPT !.settings = "reverting"] BY DEF AfterLastSession
<1>2. \/ Gone(p, h) /\ UndonePrep(h) \subseteq UndoneByLastSession(h)
      \/ Stays(p, h)
  <2>1. CASE Gone(r, h) /\ ~IsRunning(h) BY <2>1 DEF UndoneByLastSession
  <2>2. CASE Stays(r, h) /\ r.onPause = h.onPause
    <3>1. CASE IsRunning(h) /\ h.onPause
      <4>1. Gone(TerminateAndRefresh(r, b), r) /\ r.app = h.app BY <2>2, TerminateAndRefreshGone DEF Stays
      <4> QED BY <2>2, <3>1, <4>1 DEF Gone, UndoneByLastSession
    <3>2. CASE ~(IsRunning(h) /\ h.onPause) BY <2>2, <3>2
    <3> QED BY <3>1, <3>2
  <2> QED BY <2>1, <2>2, AfterRunningEnds
<1>3. HostOK(p) BY <1>2 DEF Gone, Stays
<1> HIDE DEF p, s
<1>4. CASE s = p BY <1>2, <1>4 DEF s
<1>5. CASE s = [p EXCEPT !.settings = "reverting"]
  <2>1. Stays(s, p) /\ s.settings = "reverting" BY <1>3, <1>5, SettingsKeep
  <2> QED BY <1>2, <2>1 DEF Gone, Stays, s
<1> QED BY <1>1, <1>4, <1>5

\* The two ways a call can end keep the invariant.
LEMMA HostStep ==
  ASSUME AppInv, ~replaced, UNCHANGED replaced, sessions' \in 0..1, hdrJobs' \in 0..MaxHdrJobs,
         \/ Gone(host', host) /\ done' = {}
         \/ Stays(host', host) /\ done' \subseteq done
  PROVE  AppInv' /\ SettingsFollowApp
<1>1. HostOK(host') BY DEF Gone, Stays
<1>2. done' \subseteq UndonePrep(host') BY DEF AppInv, Gone, Stays, UndonePrep
<1>3. AppInv' BY <1>1, <1>2 DEF AppInv, HostOK, NothingOwed
<1>4. SettingsFollowApp BY DEF SettingsFollowApp, Gone, Stays
<1> QED BY <1>3, <1>4

\* execute() up to the virtual display.
LEMMA Prepared ==
  ASSUME NEW h, HostOK(h), NEW a \in Apps, NEW w \in BOOLEAN
  PROVE  LET t == Prepare(h, a, w)
         IN  /\ HostOK(t) /\ t.app = a /\ t.ctx = a /\ t.launch.guid = a /\ t.virtual = {}
             /\ t.hdrChanged = {}
<1> DEFINE e == Terminate(h)
           l == [virtualDisplay |-> w, guid |-> a]
           s == IF AppOf[a].gamepad THEN e.input ELSE None
           i == IF AppOf[a].gamepad THEN "app" ELSE e.input
           t == Prepare(h, a, w)
<1>0. HostOK(e) /\ NothingOwed(e) /\ e.input = "user" BY TerminateHostEnds
<1>1. l \in AppLaunch /\ l.guid = a BY DEF AppLaunch
<1>2. AppOf[a].terminateOnPause \in BOOLEAN BY AppAssumption DEF AppRecord
<1>3. s \in {"user", None} /\ i \in {"user", "app"} /\ (s = None => i = "user")
  BY <1>0, NoneAssumption
<1>4. t = [e EXCEPT !.app = a, !.ctx = a, !.onPause = AppOf[a].terminateOnPause,
                    !.launch = l, !.saved = s, !.input = i]
  BY DEF Prepare
<1> HIDE DEF e, l, s, i, t
<1>9. e \in HostRecord BY <1>0 DEF HostOK
<1>5. t \in HostRecord BY <1>1, <1>2, <1>3, <1>4, <1>9, ZenonT(40) DEF HostRecord
<1>6. /\ t.app = a /\ t.ctx = a /\ t.launch = l /\ t.saved = s /\ t.input = i
      /\ t.virtual = {} /\ t.hdrChanged = {} /\ t.driver = e.driver
  BY <1>0, <1>4 DEF HostOK, HostRecord, NothingOwed
<1>7. a # None BY AppAssumption
<1>8. HostOK(t) BY <1>3, <1>5, <1>6, <1>7 DEF HostOK
<1> QED BY <1>1, <1>6, <1>8 DEF t

\* A host in which nothing has been changed for the application yet, and what
\* the steps of execute() make of it.
Fresh(h, a) ==
  HostOK(h) /\ h.app = a /\ h.ctx = a /\ h.launch.guid = a /\ h.hdrChanged = {}

LEMMA FreshFields ==
  ASSUME NEW h, NEW a \in Apps, Fresh(h, a), NEW t \in HostRecord, NEW l \in AppLaunch,
         t.app = h.app, t.ctx = h.ctx, t.saved = h.saved, t.input = h.input, t.driver = h.driver,
         t.hdrChanged = h.hdrChanged, t.launch = l, l.guid = a,
         t.virtual \subseteq {a}, t.virtual # {} => h.driver /\ l.virtualDisplay
  PROVE  Fresh(t, a)
<1>1. a # None BY AppAssumption
<1> QED BY <1>1 DEF Fresh, HostOK

LEMMA FreshSame ==
  ASSUME NEW h, NEW a \in Apps, Fresh(h, a), NEW t \in HostRecord,
         t.app = h.app, t.ctx = h.ctx, t.saved = h.saved, t.input = h.input, t.driver = h.driver,
         t.hdrChanged = h.hdrChanged, t.launch = h.launch, t.virtual = h.virtual
  PROVE  Fresh(t, a)
<1>1. h.launch \in AppLaunch /\ h.launch.guid = a BY DEF Fresh, HostOK, HostRecord
<1>2. h.virtual \subseteq {a} BY DEF Fresh, HostOK
<1>3. h.virtual # {} => h.driver /\ h.launch.virtualDisplay BY DEF Fresh, HostOK
<1> QED BY <1>1, <1>2, <1>3, FreshFields

LEMMA WithVirtualDisplayFresh ==
  ASSUME NEW h, NEW a \in Apps, Fresh(h, a), h.virtual = {}, NEW made \in {"named", "unnamed", "refused"}
  PROVE  Fresh(WithVirtualDisplay(h, made), a)
<1> DEFINE t == WithVirtualDisplay(h, made)
           yes == [h.launch EXCEPT !.virtualDisplay = TRUE]
           no == [h.launch EXCEPT !.virtualDisplay = FALSE]
<1>0. h \in HostRecord /\ h.launch \in AppLaunch /\ h.launch.guid = a /\ h.driver \in BOOLEAN
  BY DEF Fresh, HostOK, HostRecord
<1>1. /\ yes \in AppLaunch /\ yes.guid = a /\ yes.virtualDisplay
      /\ no \in AppLaunch /\ no.guid = a
  BY <1>0 DEF AppLaunch
<1>2. {} \cup {h.launch.guid} = {a} /\ {a} \in SUBSET Apps BY <1>0
<1>3. CASE ~h.driver
  <2>1. t = [h EXCEPT !.launch = no] BY <1>0, <1>3 DEF WithVirtualDisplay
  <2> HIDE DEF t, yes, no
  <2>2. t \in HostRecord BY <1>0, <1>1, <2>1 DEF HostRecord
  <2>3. /\ t.app = h.app /\ t.ctx = h.ctx /\ t.saved = h.saved /\ t.input = h.input /\ t.driver = h.driver
        /\ t.hdrChanged = h.hdrChanged /\ t.launch = no /\ t.virtual = {}
    BY <1>0, <2>1 DEF HostRecord
  <2>4. Fresh(t, a) BY <1>1, <2>2, <2>3, FreshFields
  <2> QED BY <2>4 DEF t
<1>4. CASE h.driver /\ made = "named"
  <2>1. t = [h EXCEPT !.launch = yes, !.virtual = {a}, !.virtualDisplay = TRUE, !.display = "virtual"]
    BY <1>0, <1>2, <1>4 DEF WithVirtualDisplay
  <2> HIDE DEF t, yes, no
  <2>2. t \in HostRecord BY <1>0, <1>1, <1>2, <2>1 DEF HostRecord, Displays
  <2>3. /\ t.app = h.app /\ t.ctx = h.ctx /\ t.saved = h.saved /\ t.input = h.input /\ t.driver = h.driver
        /\ t.hdrChanged = h.hdrChanged /\ t.launch = yes /\ t.virtual = {a}
    BY <1>0, <2>1 DEF HostRecord
  <2>4. Fresh(t, a) BY <1>1, <1>4, <2>2, <2>3, FreshFields
  <2> QED BY <2>4 DEF t
<1>5. CASE h.driver /\ made = "unnamed"
  <2>1. t = [h EXCEPT !.launch = yes, !.virtual = {a}]
    BY <1>0, <1>2, <1>5 DEF WithVirtualDisplay
  <2> HIDE DEF t, yes, no
  <2>2. t \in HostRecord BY <1>0, <1>1, <1>2, <2>1 DEF HostRecord
  <2>3. /\ t.app = h.app /\ t.ctx = h.ctx /\ t.saved = h.saved /\ t.input = h.input /\ t.driver = h.driver
        /\ t.hdrChanged = h.hdrChanged /\ t.launch = yes /\ t.virtual = {a}
    BY <1>0, <2>1 DEF HostRecord
  <2>4. Fresh(t, a) BY <1>1, <1>5, <2>2, <2>3, FreshFields
  <2> QED BY <2>4 DEF t
<1>6. CASE h.driver /\ made = "refused"
  <2>1. t = [h EXCEPT !.launch = yes] BY <1>0, <1>6 DEF WithVirtualDisplay
  <2> HIDE DEF t, yes, no
  <2>2. t \in HostRecord BY <1>0, <1>1, <2>1 DEF HostRecord
  <2>3. /\ t.app = h.app /\ t.ctx = h.ctx /\ t.saved = h.saved /\ t.input = h.input /\ t.driver = h.driver
        /\ t.hdrChanged = h.hdrChanged /\ t.launch = yes /\ t.virtual = {}
    BY <1>0, <2>1 DEF HostRecord
  <2>4. Fresh(t, a) BY <1>1, <2>2, <2>3, FreshFields
  <2> QED BY <2>4 DEF t
<1> QED BY <1>3, <1>4, <1>5, <1>6

LEMMA SetUpDisplayFresh ==
  ASSUME NEW h, NEW a \in Apps, Fresh(h, a), h.virtual = {}, NEW made \in {"named", "unnamed", "refused"},
         NEW b \in BOOLEAN, NEW probing
  PROVE  Fresh(SetUpDisplay(h, probing, b, made), a)
<1> DEFINE r == Reopen(h, b)
           v == IF h.launch.virtualDisplay \/ AppOf[h.ctx].virtualDisplay \/ ~probing
                THEN WithVirtualDisplay(r, made) ELSE h
           st == IF v.virtualDisplay THEN "kept" ELSE "applied"
<1>1. Fresh(r, a) /\ r.virtual = {} BY ReopenKeeps DEF Fresh
<1>2. Fresh(v, a) BY <1>1, WithVirtualDisplayFresh
<1>3. SetUpDisplay(h, probing, b, made) = [v EXCEPT !.settings = st] BY DEF SetUpDisplay
<1>4. st \in {"applied", "kept", "reverting"} OBVIOUS
<1> HIDE DEF v, st
<1> DEFINE t == [v EXCEPT !.settings = st]
<1>5. v \in HostRecord BY <1>2 DEF Fresh, HostOK
<1>6. t \in HostRecord BY <1>4, <1>5 DEF HostRecord
<1>7. /\ t.app = v.app /\ t.ctx = v.ctx /\ t.saved = v.saved /\ t.input = v.input /\ t.driver = v.driver
      /\ t.hdrChanged = v.hdrChanged /\ t.launch = v.launch /\ t.virtual = v.virtual
  BY <1>5 DEF HostRecord
<1> HIDE DEF t
<1>9. Fresh(t, a) BY <1>2, <1>6, <1>7, FreshSame
<1> QED BY <1>3, <1>9 DEF t

\* The whole of execute(): the application runs, or the host is as it was
\* without one.
LEMMA ExecuteEndsWell ==
  ASSUME AppInv, ~replaced, UNCHANGED <<replaced, sessions>>, NEW a \in Apps, NEW w \in BOOLEAN,
         NEW e \in ExecuteEnds(a), Execute(a, w, e)
  PROVE  AppInv' /\ SettingsFollowApp
<1>0. /\ HostOK(host) /\ done \subseteq UndonePrep(host) BY DEF AppInv
<1>1. /\ e.made \in {"named", "unnamed", "refused"} /\ e.opened \in BOOLEAN /\ e.n \in Nat
      /\ e.stage = "ok" => hdrJobs < MaxHdrJobs
  <2>1. PICK s \in ExecuteStages(a), p \in {TRUE, AppOf[a].virtualDisplay}, o \in {FALSE, ~host.driver},
             m \in {"named", "unnamed", "refused"} :
          e = [stage |-> s[1], n |-> s[2], probing |-> p, opened |-> o, made |-> m]
    BY DEF ExecuteEnds
  <2>2. AppOf[a].prep \in Nat BY AppAssumption DEF AppRecord
  <2>3. s[2] \in Nat /\ (s[1] = "ok" => hdrJobs < MaxHdrJobs) BY <2>2 DEF ExecuteStages
  <2> QED BY <2>1, <2>3
<1> DEFINE p == Prepare(host, a, w)
           d == SetUpDisplay(p, e.probing, e.opened, e.made)
           s == WithPrep(d, e.n)
<1>2. Fresh(p, a) /\ p.virtual = {} BY <1>0, Prepared DEF Fresh
<1>3. Fresh(d, a)
  <2> HIDE DEF p
  <2> QED BY <1>1, <1>2, SetUpDisplayFresh
<1>4. s = [d EXCEPT !.prep = e.n] BY DEF WithPrep
<1> HIDE DEF p, d, s
<1>5. d \in HostRecord BY <1>3 DEF Fresh, HostOK
<1>6. s \in HostRecord BY <1>1, <1>4, <1>5 DEF HostRecord
<1>7. /\ s.app = d.app /\ s.ctx = d.ctx /\ s.saved = d.saved /\ s.input = d.input /\ s.driver = d.driver
      /\ s.hdrChanged = d.hdrChanged /\ s.launch = d.launch /\ s.virtual = d.virtual /\ s.prep = e.n
  BY <1>4, <1>5 DEF HostRecord
<1>9. Fresh(s, a) BY <1>3, <1>6, <1>7, FreshSame
<1>10. done \ UndonePrep(host) = {} BY <1>0
<1>11. CASE e.stage = "ok"
  <2>1. host' = Started(s) /\ done' = UndonePrep(s) /\ hdrJobs' = hdrJobs + 1
    BY <1>10, <1>11 DEF Execute, s, d, p
  <2>2. AppOf[s.ctx].cmd \in BOOLEAN BY <1>9, AppAssumption DEF Fresh, AppRecord
  <2> DEFINE c == IF AppOf[s.ctx].cmd THEN "alive" ELSE "none"
             n == ~AppOf[s.ctx].cmd
             t == [s EXCEPT !.placebo = n, !.child = c, !.recent = TRUE]
  <2>3. host' = t BY <2>1 DEF Started
  <2>4. c \in {"none", "alive", "exited"} /\ n \in BOOLEAN OBVIOUS
  <2> HIDE DEF c, n
  <2>5. t \in HostRecord BY <1>6, <2>4 DEF HostRecord
  <2>6. /\ t.app = s.app /\ t.ctx = s.ctx /\ t.saved = s.saved /\ t.input = s.input /\ t.driver = s.driver
        /\ t.hdrChanged = s.hdrChanged /\ t.launch = s.launch /\ t.virtual = s.virtual /\ t.prep = s.prep
    BY <1>6 DEF HostRecord
  <2> HIDE DEF t
  <2>8. Fresh(t, a) BY <1>9, <2>5, <2>6, FreshSame
  <2>9. a # None BY AppAssumption
  <2>10. UndonePrep(s) = UndonePrep(t) BY <2>6 DEF UndonePrep
  <2>11. hdrJobs' \in 0..MaxHdrJobs /\ sessions' \in 0..1
    BY <1>1, <1>11, <2>1, NoneAssumption DEF AppInv
  <2>12. AppInv' BY <2>1, <2>3, <2>8, <2>9, <2>10, <2>11 DEF AppInv, Fresh, HostOK
  <2>13. SettingsFollowApp BY <2>3, <2>8, <2>9 DEF SettingsFollowApp, Fresh
  <2> QED BY <2>12, <2>13
<1>12. CASE e.stage # "ok"
  <2>1. host' = Failed(s, e.opened) /\ done' = {} /\ UNCHANGED hdrJobs
    BY <1>10, <1>12 DEF Execute, s, d, p
  <2> DEFINE t == TerminateAndRefresh(s, e.opened)
  <2>2. Gone(t, s) BY <1>1, <1>9, TerminateAndRefreshGone DEF Fresh
  <2>3. host' = [t EXCEPT !.settings = "reverting"] BY <2>1 DEF Failed
  <2> HIDE DEF t
  <2>4. Stays(host', t) /\ host'.settings = "reverting" BY <2>2, <2>3, SettingsKeep DEF Gone
  <2>5. Gone(host', host) BY <2>2, <2>4 DEF Gone, Stays
  <2>6. hdrJobs' \in 0..MaxHdrJobs /\ sessions' \in 0..1 BY <2>1 DEF AppInv
  <2> QED BY <2>1, <2>5, <2>6, HostStep
<1> QED BY <1>11, <1>12

\* A step that leaves the host's application alone and some fields changed.
LEMMA LaunchInputKeeps ==
  ASSUME AppInv, ~replaced, UNCHANGED <<done, replaced, sessions, hdrJobs>>, host' = LaunchInputOnly(host)
  PROVE  AppInv' /\ SettingsFollowApp
<1> DEFINE h == host
           t == LaunchInputOnly(host)
<1>0. h \in HostRecord /\ HostOK(h) BY DEF AppInv
<1>1. t \in HostRecord BY <1>0 DEF LaunchInputOnly, HostRecord
<1>2. /\ t.app = InputOnly /\ t.ctx = h.ctx /\ t.prep = h.prep
      /\ t.launch = h.launch /\ t.virtual = h.virtual /\ t.hdrChanged = h.hdrChanged
      /\ t.display = h.display /\ t.driver = h.driver
      /\ t.saved = h.saved /\ t.input = h.input /\ t.modeChanged = h.modeChanged
  BY <1>0 DEF LaunchInputOnly, HostRecord
<1> HIDE DEF t
<1>3. InputOnly # None BY NoneAssumption
<1>4. HostOK(t) BY <1>0, <1>1, <1>2, <1>3 DEF HostOK
<1>5. UndonePrep(t) = UndonePrep(h) BY <1>2 DEF UndonePrep
<1>6. host' = t BY DEF t
<1>7. AppInv' BY <1>1, <1>2, <1>3, <1>4, <1>5, <1>6 DEF AppInv
<1>8. SettingsFollowApp BY <1>2, <1>3, <1>6 DEF SettingsFollowApp
<1> QED BY <1>7, <1>8

LEMMA HostMoves ==
  ASSUME AppInv, ~replaced,
         \/ WatchdogFailed \/ CaptureNamesDisplay \/ ChildExits \/ FiveSecondsPass \/ HdrToggle
  PROVE  AppInv' /\ SettingsFollowApp
<1> DEFINE h == host
<1>0. h \in HostRecord /\ HostOK(h) BY DEF AppInv
<1>1. UNCHANGED <<done, replaced, sessions>> /\ hdrJobs' \in 0..MaxHdrJobs /\ sessions' \in 0..1
  <2>1. UNCHANGED <<done, replaced, sessions>> /\ (UNCHANGED hdrJobs \/ (hdrJobs > 0 /\ hdrJobs' = hdrJobs - 1))
    BY DEF WatchdogFailed, CaptureNamesDisplay, ChildExits, FiveSecondsPass, HdrToggle
  <2>2. hdrJobs \in 0..MaxHdrJobs /\ sessions \in 0..1 BY DEF AppInv
  <2> QED BY <2>1, <2>2, NoneAssumption
<1>2. ASSUME NEW t \in HostRecord, t = host', t.app = h.app, t.ctx = h.ctx, t.prep = h.prep,
             t.saved = h.saved, t.input = h.input, t.placebo = h.placebo, t.launch = h.launch,
             ~t.driver => t.virtual = {}, t.virtual \subseteq h.virtual,
             t.hdrChanged \subseteq {t.display}, t.hdrChanged \subseteq {t.modeChanged},
             t.app = None => t.hdrChanged = {}, h.child = "none" => t.child = "none"
      PROVE  AppInv' /\ SettingsFollowApp
  <2>1. HostOK(t) BY <1>0, <1>2 DEF HostOK, NothingOwed
  <2> QED BY <1>1, <1>2, <2>1, HostStep DEF Stays
<1>3. CASE WatchdogFailed
  <2> DEFINE t == [h EXCEPT !.driver = FALSE, !.virtual = {}]
  <2>1. host' = t BY <1>3 DEF WatchdogFailed
  <2>2. t \in HostRecord BY <1>0 DEF HostRecord
  <2>3. /\ t.app = h.app /\ t.ctx = h.ctx /\ t.prep = h.prep /\ t.saved = h.saved /\ t.input = h.input
        /\ t.placebo = h.placebo /\ t.launch = h.launch /\ t.virtual = {}
        /\ t.hdrChanged = h.hdrChanged /\ t.display = h.display /\ t.modeChanged = h.modeChanged
        /\ t.child = h.child
    BY <1>0 DEF HostRecord
  <2> HIDE DEF t
  <2> QED BY <1>0, <1>2, <2>1, <2>2, <2>3 DEF HostOK, NothingOwed
<1>4. CASE CaptureNamesDisplay
  <2> DEFINE t == [h EXCEPT !.display = "physical"]
  <2>1. host' = t /\ h.display = "" BY <1>4 DEF CaptureNamesDisplay
  <2>2. t \in HostRecord BY <1>0 DEF HostRecord, Displays
  <2>3. /\ t.app = h.app /\ t.ctx = h.ctx /\ t.prep = h.prep /\ t.saved = h.saved /\ t.input = h.input
        /\ t.placebo = h.placebo /\ t.launch = h.launch /\ t.virtual = h.virtual /\ t.driver = h.driver
        /\ t.hdrChanged = h.hdrChanged /\ t.modeChanged = h.modeChanged /\ t.child = h.child
    BY <1>0 DEF HostRecord
  <2>4. h.hdrChanged = {}
    <3>1. h.hdrChanged \subseteq {"virtual", "physical"} /\ h.hdrChanged \subseteq {""}
      BY <1>0, <2>1 DEF HostOK, HostRecord, Displays
    <3> QED BY <3>1
  <2> HIDE DEF t
  <2> QED BY <1>0, <1>2, <2>1, <2>2, <2>3, <2>4 DEF HostOK
<1>5. CASE ChildExits
  <2> DEFINE t == [h EXCEPT !.child = "exited"]
  <2>1. host' = t /\ h.child = "alive" BY <1>5 DEF ChildExits
  <2>2. t \in HostRecord BY <1>0 DEF HostRecord
  <2>3. /\ t.app = h.app /\ t.ctx = h.ctx /\ t.prep = h.prep /\ t.saved = h.saved /\ t.input = h.input
        /\ t.placebo = h.placebo /\ t.launch = h.launch /\ t.virtual = h.virtual /\ t.driver = h.driver
        /\ t.hdrChanged = h.hdrChanged /\ t.display = h.display /\ t.modeChanged = h.modeChanged
    BY <1>0 DEF HostRecord
  <2> HIDE DEF t
  <2> QED BY <1>0, <1>2, <2>1, <2>2, <2>3 DEF HostOK, NothingOwed
<1>6. CASE FiveSecondsPass
  <2> DEFINE t == [h EXCEPT !.recent = FALSE]
  <2>1. host' = t BY <1>6 DEF FiveSecondsPass
  <2>2. t \in HostRecord BY <1>0 DEF HostRecord
  <2>3. /\ t.app = h.app /\ t.ctx = h.ctx /\ t.prep = h.prep /\ t.saved = h.saved /\ t.input = h.input
        /\ t.placebo = h.placebo /\ t.launch = h.launch /\ t.virtual = h.virtual /\ t.driver = h.driver
        /\ t.hdrChanged = h.hdrChanged /\ t.display = h.display /\ t.modeChanged = h.modeChanged
        /\ t.child = h.child
    BY <1>0 DEF HostRecord
  <2> HIDE DEF t
  <2> QED BY <1>0, <1>2, <2>1, <2>2, <2>3 DEF HostOK, NothingOwed
<1>7. CASE HdrToggle
  <2> DEFINE c == IF h.app = None THEN h.hdrChanged ELSE h.hdrChanged \cup {h.display}
             t == [h EXCEPT !.modeChanged = h.display, !.hdrChanged = c]
  <2>1. host' = t /\ h.display # "" BY <1>7 DEF HdrToggle
  <2>2. h.display \in Displays /\ c \in SUBSET Displays /\ c \subseteq {h.display}
    BY <1>0, <2>1 DEF HostOK, HostRecord
  <2>3. h.app = None => c = {} BY <1>0 DEF HostOK, NothingOwed
  <2> HIDE DEF c
  <2>4. t \in HostRecord BY <1>0, <2>2 DEF HostRecord
  <2>5. /\ t.app = h.app /\ t.ctx = h.ctx /\ t.prep = h.prep /\ t.saved = h.saved /\ t.input = h.input
        /\ t.placebo = h.placebo /\ t.launch = h.launch /\ t.virtual = h.virtual /\ t.driver = h.driver
        /\ t.hdrChanged = c /\ t.display = h.display /\ t.modeChanged = h.display /\ t.child = h.child
    BY <1>0 DEF HostRecord
  <2> HIDE DEF t
  <2> QED BY <1>0, <1>2, <2>1, <2>2, <2>3, <2>4, <2>5 DEF HostOK
<1> QED BY <1>3, <1>4, <1>5, <1>6, <1>7

LEMMA SessionSteps ==
  ASSUME AppInv, ~replaced, NEW b \in BOOLEAN, NEW revert \in BOOLEAN,
         LastSessionEnds(b, revert) \/ Cancel(b, revert)
  PROVE  AppInv' /\ SettingsFollowApp
<1>0. HostOK(host) /\ done \subseteq UndonePrep(host) /\ hdrJobs \in 0..MaxHdrJobs BY DEF AppInv
<1>1. CASE LastSessionEnds(b, revert)
  <2>1. /\ host' = AfterLastSession(host, b, revert) /\ done' = done \ UndoneByLastSession(host)
        /\ sessions' = 0 /\ UNCHANGED <<hdrJobs, replaced>>
    BY <1>1 DEF LastSessionEnds
  <2>2. CASE Gone(host', host) /\ UndonePrep(host) \subseteq UndoneByLastSession(host)
    <3>1. done' = {} BY <1>0, <2>1, <2>2
    <3> QED BY <1>0, <2>1, <2>2, <3>1, HostStep
  <2>3. CASE Stays(host', host) BY <1>0, <2>1, <2>3, HostStep
  <2> QED BY <1>0, <2>1, <2>2, <2>3, AfterLastSessionEnds
<1>2. CASE Cancel(b, revert)
  <2> DEFINE s == IF sessions > 0 THEN AfterLastSession(host, b, revert) ELSE host
             r == AfterRunning(s, b)
             t == IF IsRunning(s) THEN TerminateAndRefresh(r, b) ELSE r
  <2>1. /\ sessions' = 0 /\ host' = [t EXCEPT !.settings = "reverting"]
        /\ done' = IF t.app = None THEN done \ UndonePrep(host) ELSE done
        /\ UNCHANGED <<hdrJobs, replaced>>
    BY <1>2 DEF Cancel
  <2>2. Gone(s, host) \/ Stays(s, host)
    <3>1. Stays(host, host) BY <1>0 DEF Stays
    <3> QED BY <1>0, <3>1, AfterLastSessionEnds
  <2>3. HostOK(s) BY <2>2 DEF Gone, Stays
  <2> HIDE DEF s
  <2>4. Gone(r, s) \/ Stays(r, s) BY <2>3, AfterRunningEnds
  <2>5. HostOK(r) BY <2>4 DEF Gone, Stays
  <2>6. t = r \/ Gone(t, r) BY <2>5, TerminateAndRefreshGone
  <2> HIDE DEF r, t
  <2>7. HostOK(t) BY <2>5, <2>6 DEF Gone
  <2>8. Stays(host', t) /\ host'.settings = "reverting" BY <2>1, <2>7, SettingsKeep
  <2>9. CASE t.app = None
    <3>1. HostOK(host') /\ host'.app = None BY <2>8, <2>9 DEF Stays
    <3>2. host'.prep = 0 BY <3>1 DEF HostOK, NothingOwed
    <3>3. Gone(host', host) BY <2>8, <3>1, <3>2 DEF Gone
    <3>4. done' = {} BY <1>0, <2>1, <2>9
    <3> QED BY <1>0, <2>1, <3>3, <3>4, HostStep
  <2>10. CASE t.app # None
    <3>1. Stays(t, r) BY <2>5, <2>6, <2>10 DEF Gone, Stays
    <3>2. Stays(r, s) BY <2>4, <2>10, <3>1 DEF Gone, Stays
    <3>3. Stays(s, host) BY <2>2, <2>10, <3>1, <3>2 DEF Gone, Stays
    <3>4. Stays(host', host) BY <2>8, <3>1, <3>2, <3>3 DEF Stays
    <3> QED BY <1>0, <2>1, <2>10, <3>4, HostStep
  <2> QED BY <2>9, <2>10
<1> QED BY <1>1, <1>2

\* The requests that only ask whether the application runs.
LEMMA AskRunning ==
  ASSUME AppInv, ~replaced, NEW b \in BOOLEAN, UNCHANGED <<sessions, hdrJobs, replaced>>,
         host' = AfterRunning(host, b), done' = done \ UndoneByRunning(host)
  PROVE  AppInv' /\ SettingsFollowApp
<1>0. HostOK(host) /\ done \subseteq UndonePrep(host) /\ hdrJobs \in 0..MaxHdrJobs /\ sessions \in 0..1
  BY DEF AppInv
<1>1. CASE Gone(host', host) /\ UndoneByRunning(host) = UndonePrep(host)
  <2>1. done' = {} BY <1>0, <1>1
  <2> QED BY <1>0, <1>1, <2>1, HostStep
<1>2. CASE Stays(host', host) BY <1>0, <1>2, HostStep
<1> QED BY <1>0, <1>1, <1>2, AfterRunningEnds

LEMMA TerminateSteps ==
  ASSUME AppInv, ~replaced, NEW b \in BOOLEAN, UNCHANGED <<sessions, hdrJobs, replaced>>,
         host' = TerminateAndRefresh(host, b), done' = done \ UndonePrep(host)
  PROVE  AppInv' /\ SettingsFollowApp
<1>0. HostOK(host) /\ done' = {} /\ hdrJobs \in 0..MaxHdrJobs /\ sessions \in 0..1 BY DEF AppInv
<1>1. Gone(host', host) BY <1>0, TerminateAndRefreshGone
<1> QED BY <1>0, <1>1, HostStep

LEMMA JoinSteps ==
  ASSUME AppInv, ~replaced, UNCHANGED <<done, sessions, hdrJobs, replaced>>,
         \/ \E p \in BOOLEAN : LaunchJoins(p)
         \/ \E p, b \in BOOLEAN : Resume(p, b)
  PROVE  AppInv' /\ SettingsFollowApp
<1>0. HostOK(host) /\ hdrJobs \in 0..MaxHdrJobs /\ sessions \in 0..1 BY DEF AppInv
<1>1. ASSUME NEW p \in BOOLEAN, LaunchJoins(p) PROVE AppInv' /\ SettingsFollowApp
  <2>1. \/ host' = LaunchInputOnly(host) \/ host' = [host EXCEPT !.settings = "applied"] \/ host' = host
    BY <1>1 DEF LaunchJoins
  <2>2. CASE host' = LaunchInputOnly(host) BY <2>2, LaunchInputKeeps
  <2>3. CASE host' = [host EXCEPT !.settings = "applied"]
    <3>1. Stays(host', host) BY <1>0, <2>3, SettingsKeep
    <3> QED BY <1>0, <3>1, HostStep
  <2>4. CASE host' = host BY <1>0, <2>4, HostStep DEF Stays
  <2> QED BY <2>1, <2>2, <2>3, <2>4
<1>2. ASSUME NEW p \in BOOLEAN, NEW b \in BOOLEAN, Resume(p, b) PROVE AppInv' /\ SettingsFollowApp
  <2> DEFINE r == AfterRunning(host, b)
  <2>1. IsRunning(host) /\ (host' = r \/ host' = [r EXCEPT !.settings = "applied"]) BY <1>2 DEF Resume
  <2>2. Stays(r, host) BY <1>0, <2>1, AfterRunningEnds
  <2> HIDE DEF r
  <2>3. Stays(host', host)
    <3>1. HostOK(r) BY <2>2 DEF Stays
    <3>2. CASE host' = r BY <2>2, <3>2
    <3>3. CASE host' = [r EXCEPT !.settings = "applied"]
      <4>1. Stays(host', r) BY <3>1, <3>3, SettingsKeep
      <4> QED BY <2>2, <4>1 DEF Stays
    <3> QED BY <2>1, <3>2, <3>3
  <2> QED BY <1>0, <2>3, HostStep
<1> QED BY <1>1, <1>2

\* The reload replaces proc_t: harmless when there was no application, else
\* marked.
LEMMA ReloadSteps ==
  ASSUME AppInv, ~replaced, NEW b \in BOOLEAN, ReloadRefreshes(b)
  PROVE  AppInv' /\ SettingsFollowApp
<1> DEFINE h == Reopen(host, b)
           t == ReplacedProc(h)
<1>0. HostOK(host) /\ done \subseteq UndonePrep(host) BY DEF AppInv
<1>1. /\ HostOK(h) /\ h.app = host.app /\ h.virtual = host.virtual /\ h.hdrChanged = host.hdrChanged
  BY <1>0, ReopenKeeps
<1>2. host' = t /\ UNCHANGED <<done, hdrJobs, sessions>> BY DEF ReloadRefreshes
<1> HIDE DEF h
<1>3. h \in HostRecord BY <1>1 DEF HostOK
<1>4. t = [h EXCEPT !.app = None, !.ctx = None, !.onPause = FALSE, !.placebo = FALSE, !.child = "none",
            !.recent = FALSE, !.prep = 0, !.launch = NoLaunch, !.virtualDisplay = FALSE, !.display = "",
            !.saved = None, !.modeChanged = ""]
  BY DEF ReplacedProc
<1>5. NoLaunch \in AppLaunch BY DEF NoLaunch, AppLaunch
<1> HIDE DEF t
<1>6. t \in HostRecord BY <1>3, <1>4, <1>5 DEF HostRecord
<1>7. /\ t.app = None /\ t.placebo = FALSE /\ t.child = "none" /\ t.saved = None /\ t.prep = 0
      /\ t.virtual = h.virtual /\ t.hdrChanged = h.hdrChanged /\ t.input = h.input /\ t.driver = h.driver
  BY <1>3, <1>4 DEF HostRecord
<1>8. CASE host.app = None
  <2>1. h.virtual = {} /\ h.hdrChanged = {} /\ h.input = "user" /\ done = {}
    <3>1. h.saved = None /\ NothingOwed(h) /\ NothingOwed(host) BY <1>0, <1>1, <1>8 DEF HostOK, NothingOwed
    <3>2. UndonePrep(host) = {} BY <3>1 DEF NothingOwed, UndonePrep
    <3> QED BY <1>0, <1>1, <3>1, <3>2 DEF NothingOwed, HostOK
  <2>2. HostOK(t) BY <1>6, <1>7, <2>1 DEF HostOK, NothingOwed
  <2>3. AppInv' BY <1>2, <1>6, <1>7, <2>1, <2>2 DEF AppInv
  <2> QED BY <1>8, <2>3 DEF SettingsFollowApp
<1>9. CASE host.app # None
  <2>1. replaced' BY <1>9 DEF ReloadRefreshes
  <2>2. AppInv' BY <1>2, <1>6, <1>7, <2>1 DEF AppInv
  <2> QED BY <2>1, <2>2 DEF SettingsFollowApp
<1> QED BY <1>8, <1>9

LEMMA AppInvStep == AppInv /\ AppNext => AppInv' /\ SettingsFollowApp
<1> SUFFICES ASSUME AppInv, AppNext PROVE AppInv' /\ SettingsFollowApp OBVIOUS
<1>1. CASE replaced
  <2>1. UNCHANGED appVars BY <1>1 DEF AppNext
  <2> QED BY <1>1, <2>1 DEF AppInv, SettingsFollowApp, appVars
<1>2. CASE ~replaced
  <2>0. AppStep /\ HostOK(host) /\ hdrJobs \in 0..MaxHdrJobs /\ sessions \in 0..1 BY <1>2 DEF AppNext, AppInv
  <2>1. CASE \/ WatchdogFailed \/ CaptureNamesDisplay \/ ChildExits \/ FiveSecondsPass \/ HdrToggle
    BY <1>2, <2>1, HostMoves
  <2>2. CASE HdrLeaves \/ FirstSession \/ LaunchExpires \/ LaunchRejected
    <3>1. UNCHANGED <<host, done, replaced>>
      BY <2>2 DEF HdrLeaves, FirstSession, LaunchExpires, LaunchRejected
    <3>2. sessions' \in 0..1 BY <2>0, <2>2 DEF HdrLeaves, FirstSession, LaunchExpires, LaunchRejected
    <3>3. hdrJobs' \in 0..MaxHdrJobs
      <4>1. UNCHANGED hdrJobs \/ (hdrJobs > 0 /\ hdrJobs' = hdrJobs - 1)
        BY <2>2 DEF HdrLeaves, FirstSession, LaunchExpires, LaunchRejected
      <4> QED BY <2>0, <4>1, NoneAssumption
    <3> QED BY <1>2, <2>0, <3>1, <3>2, <3>3, HostStep DEF Stays
  <2>3. ASSUME NEW b \in {FALSE, ~host.driver}, NEW revert \in BOOLEAN,
               LastSessionEnds(b, revert) \/ Cancel(b, revert)
        PROVE  AppInv' /\ SettingsFollowApp
    BY <1>2, <2>3, SessionSteps
  <2>4. ASSUME NEW b \in {FALSE, ~host.driver},
               \/ PollRunning(b) \/ ReloadChecks(b)
               \/ \E target \in LaunchTargets, perm \in Perms : LaunchReads(target, perm, b)
        PROVE  AppInv' /\ SettingsFollowApp
    <3>1. /\ UNCHANGED <<sessions, hdrJobs, replaced>>
          /\ host' = AfterRunning(host, b) /\ done' = done \ UndoneByRunning(host)
      BY <2>4 DEF PollRunning, ReloadChecks, LaunchReads
    <3> QED BY <1>2, <3>1, AskRunning
  <2>5. ASSUME NEW b \in {FALSE, ~host.driver}, LaunchTerminates(b) \/ UiTerminates(b)
        PROVE  AppInv' /\ SettingsFollowApp
    <3>1. /\ UNCHANGED <<sessions, hdrJobs, replaced>>
          /\ host' = TerminateAndRefresh(host, b) /\ done' = done \ UndonePrep(host)
      BY <2>5 DEF LaunchTerminates, UiTerminates
    <3> QED BY <1>2, <3>1, TerminateSteps
  <2>6. ASSUME NEW b \in {FALSE, ~host.driver}, ReloadRefreshes(b) PROVE AppInv' /\ SettingsFollowApp
    BY <1>2, <2>6, ReloadSteps
  <2>7. ASSUME NEW p \in BOOLEAN,
               LaunchJoins(p) \/ \E b \in {FALSE, ~host.driver} : Resume(p, b)
        PROVE  AppInv' /\ SettingsFollowApp
    <3>1. UNCHANGED <<done, sessions, hdrJobs, replaced>> BY <2>7 DEF LaunchJoins, Resume
    <3> QED BY <1>2, <2>7, <3>1, JoinSteps
  <2>8. ASSUME NEW a \in Apps, NEW e \in ExecuteEnds(a),
               (\E w \in BOOLEAN : LaunchExecutes(a, w, e)) \/ UiLaunches(a, e)
        PROVE  AppInv' /\ SettingsFollowApp
    <3>1. PICK w \in BOOLEAN : Execute(a, w, e) /\ UNCHANGED <<replaced, sessions>>
      BY <2>8 DEF LaunchExecutes, UiLaunches
    <3> QED BY <1>2, <3>1, ExecuteEndsWell
  <2> QED BY <2>0, <2>1, <2>2, <2>3, <2>4, <2>5, <2>6, <2>7, <2>8 DEF AppStep
<1> QED BY <1>1, <1>2

LEMMA AppInvInit == AppInit => AppInv
<1> SUFFICES ASSUME AppInit PROVE AppInv OBVIOUS
<1>1. NoLaunch \in AppLaunch BY DEF NoLaunch, AppLaunch
<1>2. host \in HostRecord BY <1>1 DEF AppInit, HostRecord
<1>3. HostOK(host) BY <1>2 DEF AppInit, HostOK, NothingOwed
<1>4. sessions \in 0..1 /\ hdrJobs \in 0..MaxHdrJobs
  <2>1. sessions = 0 /\ hdrJobs = 0 BY DEF AppInit
  <2> QED BY <2>1, NoneAssumption
<1>5. host.app = None => ~host.placebo /\ host.child = "none" /\ host.saved = None
  BY <1>3 DEF HostOK, NothingOwed
<1>6. done = {} BY DEF AppInit
<1> QED BY <1>2, <1>3, <1>4, <1>5, <1>6 DEF AppInv

LEMMA AppInvHolds == AppInv => AppChangesUndone
<1> SUFFICES ASSUME AppInv PROVE AppChangesUndone OBVIOUS
<1>1. AppTypeOK BY DEF AppInv, AppTypeOK, HostRecord
<1>2. PrepCommandsUndone BY DEF AppInv, PrepCommandsUndone, UndonePrep
<1>3. VirtualDisplayTracked /\ HdrChangesReverted /\ InputSettingsRestored
  BY DEF AppInv, HostOK, NothingOwed, VirtualDisplayTracked, HdrChangesReverted, InputSettingsRestored
<1> QED BY <1>1, <1>2, <1>3 DEF AppChangesUndone

\* On every path through execute, terminate, pause and the detached threads,
\* whatever an application changed on the host is undone once it is gone.
THEOREM ApplicationsUndone == AppSpec => []AppChangesUndone
<1>1. AppInv /\ [AppNext]_appVars => AppInv'
  <2>1. AppInv /\ UNCHANGED appVars => AppInv' BY DEF AppInv, appVars
  <2> QED BY <2>1, AppInvStep
<1> QED BY <1>1, AppInvInit, AppInvHolds, PTL DEF AppSpec

\* Display settings an application applied never outlive it.
THEOREM SettingsGoWithApp == AppSpec => [][SettingsFollowApp]_appVars
<1>1. AppInv /\ [AppNext]_appVars => AppInv'
  <2>1. AppInv /\ UNCHANGED appVars => AppInv' BY DEF AppInv, appVars
  <2> QED BY <2>1, AppInvStep
<1>2. AppInv /\ [AppNext]_appVars => [SettingsFollowApp]_appVars BY AppInvStep
<1> QED BY <1>1, <1>2, AppInvInit, PTL DEF AppSpec
-----------------------------------------------------------------------------
(* The task pool (TaskPool) *)

TpTimer == [id : TpIds, due : Nat]

LEMMA TpTimerFields == \A t \in TpTimer : t.id \in TpIds /\ t.due \in Nat
BY DEF TpTimer

LEMMA SeqElements ==
  ASSUME NEW S, NEW s \in Seq(S)
  PROVE  Len(s) \in Nat /\ DOMAIN s = 1 .. Len(s) /\ (\A i \in 1 .. Len(s) : s[i] \in S)
         /\ (s # << >> => Len(s) \in 1 .. Len(s))
OBVIOUS

LEMMA FunctionIsSeq == ASSUME NEW S, NEW n \in Nat, NEW f \in [1 .. n -> S] PROVE f \in Seq(S) /\ Len(f) = n
OBVIOUS

\* Every task is in one place: waiting once, in one list, or run, or cancelled.
TpOnce ==
  /\ \A i, j \in DOMAIN tpTasks : tpTasks[i] = tpTasks[j] => i = j
  /\ \A i, j \in DOMAIN tpTimers : tpTimers[i].id = tpTimers[j].id => i = j
  /\ \A i \in DOMAIN tpTasks : \A j \in DOMAIN tpTimers : tpTasks[i] # tpTimers[j].id
  /\ \A i \in DOMAIN tpTasks : tpTasks[i] \notin tpRun \cup tpGone
  /\ \A i \in DOMAIN tpTimers : tpTimers[i].id \notin tpRun \cup tpGone
  /\ tpRun \cap tpGone = {}

TpSorted == \A i, j \in DOMAIN tpTimers : i < j => tpTimers[i].due >= tpTimers[j].due

\* Whoever sleeps wakes no later than the timer that is due first.
TpAwakeInTime ==
  \A w \in TpWorkers : tpAt[w] = "sleep" /\ tpTimers # << >> => tpWake[w] <= NextTimer.due

TpTypes ==
  /\ tpTasks \in Seq(TpIds) /\ tpTimers \in Seq(TpTimer)
  /\ tpRun \subseteq TpIds /\ tpGone \subseteq TpIds /\ tpNow \in 0 .. TpMaxTime
  /\ DOMAIN tpAt = TpWorkers /\ tpWake \in [TpWorkers -> Nat]

TpInv == TpTypes /\ TpOnce /\ TpSorted /\ TpAwakeInTime

LEMMA TpInvInit == TpInit => TpInv
BY TpAssumption DEF TpInit, TpInv, TpTypes, TpOnce, TpSorted, TpAwakeInTime, TpEver

\* push: a new task at the end, and perhaps one thread awake.
LEMMA TpPushKeeps == ASSUME NEW id \in TpIds PROVE TpInv /\ Push(id) => TpInv'
<1> SUFFICES ASSUME TpInv, Push(id) PROVE TpInv' OBVIOUS
<1>1. TpTypes' BY DEF TpInv, TpTypes, Push, Sleepers
<1>2. TpOnce'
  BY DEF TpInv, TpTypes, TpOnce, Push, TpUsed
<1>3. TpSorted' BY DEF TpInv, TpSorted, Push
<1>4. TpAwakeInTime' BY DEF TpInv, TpTypes, TpAwakeInTime, Push, Sleepers, NextTimer
<1> QED BY <1>1, <1>2, <1>3, <1>4 DEF TpInv

\* pushDelayed: the timers stay in order, and everybody looks at them again.
LEMMA TpPushDelayedKeeps ==
  ASSUME NEW id \in TpIds, NEW delay \in TpDelays PROVE TpInv /\ PushDelayed(id, delay) => TpInv'
<1> SUFFICES ASSUME TpInv, PushDelayed(id, delay) PROVE TpInv' OBVIOUS
<1> DEFINE task == [id |-> id, due |-> tpNow + delay]
           n == Len(tpTimers)
<1>0. task \in TpTimer /\ task.id = id /\ task.due \in Nat
  BY TpAssumption DEF TpInv, TpTypes, TpTimer
<1>1. /\ task \in TpTimer /\ task.id = id /\ task.due \in Nat
      /\ n \in Nat /\ DOMAIN tpTimers = 1 .. n
      /\ \A i \in 1 .. n : tpTimers[i] \in TpTimer /\ tpTimers[i].due \in Nat
  BY <1>0, SeqElements, TpTimerFields DEF TpInv, TpTypes
<1>2. PICK p \in 1 .. n + 1 :
        /\ \A i \in 1 .. p - 1 : tpTimers[i].due >= task.due
        /\ p <= n => tpTimers[p].due < task.due
        /\ tpTimers' = [i \in 1 .. n + 1 |->
                          IF i < p THEN tpTimers[i] ELSE IF i = p THEN task ELSE tpTimers[i - 1]]
  BY DEF PushDelayed, Insert
<1>3. /\ id \notin TpUsed /\ UNCHANGED <<tpNow, tpTasks, tpContinue, tpWake, tpRun, tpGone>>
      /\ tpAt' = [w \in TpWorkers |-> IF w \in Sleepers THEN "top" ELSE tpAt[w]]
  BY DEF PushDelayed
<1>4. \A i \in 1 .. n : tpTimers[i].id # id
  BY <1>1, <1>3 DEF TpUsed
<1> HIDE DEF task, n
<1>5. DOMAIN tpTimers' = 1 .. n + 1 /\ p \in Nat /\ p >= 1
  BY <1>1, <1>2
<1>6. \A i \in 1 .. n + 1 : tpTimers'[i] = IF i < p THEN tpTimers[i] ELSE IF i = p THEN task ELSE tpTimers[i - 1]
  BY <1>2
<1>7. tpTimers' \in Seq(TpTimer)
  <2>1. tpTimers' \in [1 .. n + 1 -> TpTimer]
    <3>1. ASSUME NEW i \in 1 .. n + 1 
          PROVE (IF i < p THEN tpTimers[i] ELSE IF i = p THEN task ELSE tpTimers[i - 1]) \in TpTimer
      BY <1>1, <1>5, i < p => i \in 1 .. n, i > p => i - 1 \in 1 .. n
    <3> QED BY <3>1, <1>2
  <2>2. n + 1 \in Nat BY <1>1
  <2> QED BY <2>1, <2>2, FunctionIsSeq
<1>8. TpTypes' BY <1>7, <1>3 DEF TpInv, TpTypes
<1>9. TpSorted'
  <2> SUFFICES ASSUME NEW i \in 1 .. n + 1, NEW j \in 1 .. n + 1, i < j PROVE tpTimers'[i].due >= tpTimers'[j].due
    BY <1>5 DEF TpSorted
  <2>1. \A a, b \in 1 .. n : a < b => tpTimers[a].due >= tpTimers[b].due
    BY <1>1 DEF TpInv, TpSorted
  <2>2. \A b \in 1 .. n : b >= p => tpTimers[b].due <= task.due
    BY <2>1, <1>1, <1>2, <1>5
  <2>3. CASE j < p BY <2>1, <2>3, <1>1, <1>5, <1>6
  <2>4. CASE j = p BY <2>4, <1>1, <1>2, <1>5, <1>6
  <2>5. CASE j > p /\ i < p BY <2>1, <2>2, <2>5, <1>1, <1>2, <1>5, <1>6
  <2>6. CASE j > p /\ i = p
    <3>1. j - 1 \in 1 .. n /\ j - 1 >= p BY <2>6, <1>1, <1>5
    <3>2. tpTimers'[j] = tpTimers[j - 1] /\ tpTimers'[i] = task BY <2>6, <1>5, <1>6
    <3> QED BY <2>2, <3>1, <3>2, <1>1
  <2>7. CASE j > p /\ i > p BY <2>1, <2>7, <1>1, <1>5, <1>6
  <2> QED BY <2>3, <2>4, <2>5, <2>6, <2>7, <1>5
<1>10. TpOnce'
  <2> DEFINE before(i) == IF i < p THEN i ELSE i - 1
  <2>1. \A i \in 1 .. n + 1 : i # p => before(i) \in 1 .. n /\ tpTimers'[i] = tpTimers[before(i)]
    BY <1>1, <1>5, <1>6
  <2>2. \A i, j \in 1 .. n + 1 : i # p /\ j # p /\ before(i) = before(j) => i = j
    BY <1>1, <1>5
  <2>3. tpTimers'[p].id = id BY <1>1, <1>2, <1>6
  <2> HIDE DEF before
  <2>4. \A i \in 1 .. n + 1 : i # p => tpTimers'[i].id # id
    BY <2>1, <1>4
  <2>5. \A i, j \in DOMAIN tpTimers' : tpTimers'[i].id = tpTimers'[j].id => i = j
    BY <2>1, <2>2, <2>3, <2>4, <1>1, <1>5 DEF TpInv, TpOnce
  <2>6. \A i \in DOMAIN tpTasks : tpTasks[i] # id
    BY <1>3 DEF TpUsed
  <2>7. \A i \in DOMAIN tpTasks : \A j \in DOMAIN tpTimers' : tpTasks[i] # tpTimers'[j].id
    BY <2>1, <2>3, <2>6, <1>1, <1>5 DEF TpInv, TpOnce
  <2>8. \A i \in DOMAIN tpTimers' : tpTimers'[i].id \notin tpRun \cup tpGone
    BY <2>1, <2>3, <1>1, <1>3, <1>5 DEF TpInv, TpOnce, TpUsed
  <2> QED BY <2>5, <2>7, <2>8, <1>3 DEF TpInv, TpOnce
<1>11. TpAwakeInTime'
  BY <1>3 DEF TpAwakeInTime, Sleepers
<1> QED BY <1>8, <1>9, <1>10, <1>11 DEF TpInv

\* cancel: the timer is erased, and the one due first is due no earlier.
LEMMA TpCancelKeeps == ASSUME NEW id \in TpIds PROVE TpInv /\ CancelTask(id) => TpInv'
<1> SUFFICES ASSUME TpInv, CancelTask(id) PROVE TpInv' OBVIOUS
<1> DEFINE n == Len(tpTimers)
<1>1. /\ n \in Nat /\ DOMAIN tpTimers = 1 .. n
      /\ \A i \in 1 .. n : tpTimers[i] \in TpTimer /\ tpTimers[i].due \in Nat
  BY SeqElements, TpTimerFields DEF TpInv, TpTypes
<1>2. PICK c \in 1 .. n :
        tpTimers[c].id = id /\ tpTimers' = [j \in 1 .. n - 1 |-> IF j < c THEN tpTimers[j] ELSE tpTimers[j + 1]]
  BY <1>1 DEF CancelTask
<1>3. tpGone' = tpGone \cup {id} /\ UNCHANGED <<tpNow, tpTasks, tpContinue, tpAt, tpWake, tpRun>>
  BY DEF CancelTask
<1> DEFINE before(i) == IF i < c THEN i ELSE i + 1
<1> HIDE DEF n
<1>4. DOMAIN tpTimers' = 1 .. n - 1 /\ n - 1 \in Nat BY <1>1, <1>2
<1>5. \A i \in 1 .. n - 1 : before(i) \in 1 .. n /\ before(i) # c /\ tpTimers'[i] = tpTimers[before(i)]
  BY <1>1, <1>2
<1>6. \A i, j \in 1 .. n - 1 : (before(i) = before(j) => i = j) /\ (i < j => before(i) < before(j))
  BY <1>1
<1> HIDE DEF before
<1>7. tpTimers' \in Seq(TpTimer)
  <2>1. tpTimers' \in [1 .. n - 1 -> TpTimer]
    BY <1>1, <1>2, <1>4, <1>5
  <2> QED BY <2>1, <1>4, FunctionIsSeq
<1>8. TpTypes' BY <1>7, <1>3 DEF TpInv, TpTypes
<1>9. TpSorted' BY <1>1, <1>4, <1>5, <1>6 DEF TpInv, TpSorted
<1>10. \A i \in 1 .. n - 1 : tpTimers'[i].id # id
  BY <1>1, <1>2, <1>5, ZenonT(40) DEF TpInv, TpOnce
<1>11. TpOnce'
  <2>1. \A i, j \in DOMAIN tpTimers' : tpTimers'[i].id = tpTimers'[j].id => i = j
    BY <1>1, <1>4, <1>5, <1>6 DEF TpInv, TpOnce
  <2>2. \A i \in DOMAIN tpTasks : \A j \in DOMAIN tpTimers' : tpTasks[i] # tpTimers'[j].id
    BY <1>1, <1>4, <1>5 DEF TpInv, TpOnce
  <2>3. \A i \in DOMAIN tpTimers' : tpTimers'[i].id \notin tpRun \cup tpGone \cup {id}
    BY <1>1, <1>4, <1>5, <1>10 DEF TpInv, TpOnce
  <2>4. (\A i \in DOMAIN tpTasks : tpTasks[i] # id) /\ id \notin tpRun
    BY <1>1, <1>2 DEF TpInv, TpOnce
  <2> QED BY <2>1, <2>2, <2>3, <2>4, <1>3 DEF TpInv, TpOnce
<1>12. TpAwakeInTime'
  <2> SUFFICES ASSUME NEW w \in TpWorkers, tpAt[w] = "sleep", tpTimers' # << >> PROVE tpWake[w] <= NextTimer'.due
    BY <1>3 DEF TpAwakeInTime
  <2>1. Len(tpTimers') = n - 1 /\ n - 1 \in 1 .. n - 1
    BY <1>4, <1>7
  <2>2. tpWake[w] <= tpTimers[n].due /\ tpWake[w] \in Nat
    BY <1>1, <1>2 DEF TpInv, TpAwakeInTime, TpTypes, NextTimer, n
  <2>3. \A i \in 1 .. n : tpTimers[i].due >= tpTimers[n].due
    BY <1>1 DEF TpInv, TpSorted
  <2>4. tpTimers'[n - 1] = tpTimers[before(n - 1)] /\ before(n - 1) \in 1 .. n
    BY <2>1, <1>5
  <2> QED BY <2>1, <2>2, <2>3, <2>4, <1>1 DEF NextTimer
<1> QED BY <1>8, <1>9, <1>11, <1>12 DEF TpInv

\* pop: what is run was waiting, and what is left is as it was.
LEMMA TpPopKeeps ==
  TpInv /\ PopTask /\ UNCHANGED <<tpNow, tpGone>>
    => /\ tpTasks' \in Seq(TpIds) /\ tpTimers' \in Seq(TpTimer) /\ tpRun' \subseteq TpIds
       /\ TpOnce' /\ TpSorted'
       /\ tpTimers' # << >> => tpTimers # << >> /\ NextTimer'.due >= NextTimer.due
<1> SUFFICES ASSUME TpInv, PopTask, UNCHANGED <<tpNow, tpGone>>
             PROVE  /\ tpTasks' \in Seq(TpIds) /\ tpTimers' \in Seq(TpTimer) /\ tpRun' \subseteq TpIds
                    /\ TpOnce' /\ TpSorted'
                    /\ tpTimers' # << >> => tpTimers # << >> /\ NextTimer'.due >= NextTimer.due
  OBVIOUS
<1> DEFINE n == Len(tpTimers)
<1>0. /\ n \in Nat /\ DOMAIN tpTimers = 1 .. n
      /\ \A i \in 1 .. n : tpTimers[i] \in TpTimer /\ tpTimers[i].due \in Nat /\ tpTimers[i].id \in TpIds
  BY SeqElements, TpTimerFields DEF TpInv, TpTypes
<1>1. CASE tpTasks # << >>
  <2>1. /\ tpRun' = tpRun \cup {Head(tpTasks)} /\ tpTasks' = Tail(tpTasks) /\ UNCHANGED tpTimers
        /\ Head(tpTasks) = tpTasks[1] /\ 1 \in DOMAIN tpTasks
        /\ DOMAIN tpTasks' = 1 .. Len(tpTasks) - 1 /\ Len(tpTasks) \in Nat /\ DOMAIN tpTasks = 1 .. Len(tpTasks)
        /\ \A i \in DOMAIN tpTasks' : tpTasks'[i] = tpTasks[i + 1]
    BY <1>1 DEF PopTask, TpInv, TpTypes
  <2>2. tpTasks' \in Seq(TpIds) /\ tpRun' \subseteq TpIds /\ tpTimers' \in Seq(TpTimer)
    BY <1>1, <2>1 DEF TpInv, TpTypes
  <2>3. TpOnce'
    <3>1. \A i \in DOMAIN tpTasks' : i + 1 \in DOMAIN tpTasks /\ i + 1 # 1
      BY <2>1
    <3>2. \A i, j \in DOMAIN tpTasks' : tpTasks'[i] = tpTasks'[j] => i = j
      BY <2>1, <3>1 DEF TpInv, TpOnce
    <3>3. \A i \in DOMAIN tpTasks' : tpTasks'[i] # tpTasks[1] /\ tpTasks'[i] \notin tpRun \cup tpGone
      BY <2>1, <3>1 DEF TpInv, TpOnce
    <3>4. \A j \in DOMAIN tpTimers : \A i \in DOMAIN tpTasks' : tpTasks'[i] # tpTimers[j].id
      BY <2>1, <3>1 DEF TpInv, TpOnce
    <3> QED BY <2>1, <3>2, <3>3, <3>4 DEF TpInv, TpOnce
  <2>4. TpSorted' BY <2>1 DEF TpInv, TpSorted
  <2>5. tpTimers' # << >> => tpTimers # << >> /\ NextTimer'.due >= NextTimer.due
    BY <2>1, <1>0 DEF NextTimer, TpInv, TpTypes
  <2> QED BY <2>2, <2>3, <2>4, <2>5
<1>2. CASE tpTasks = << >>
  <2>1. /\ tpTimers # << >> /\ tpRun' = tpRun \cup {tpTimers[n].id}
        /\ tpTimers' = SubSeq(tpTimers, 1, n - 1) /\ UNCHANGED tpTasks
    BY <1>2 DEF PopTask, TimerDue, NextTimer
  <2>2. n \in 1 .. n BY <2>1, <1>0 DEF TpInv, TpTypes
  <2>3. /\ tpTimers' \in Seq(TpTimer) /\ Len(tpTimers') = n - 1 /\ DOMAIN tpTimers' = 1 .. n - 1
        /\ \A i \in 1 .. n - 1 : i \in 1 .. n /\ i # n /\ tpTimers'[i] = tpTimers[i]
    <3>1. tpTimers \in Seq(TpTimer) BY DEF TpInv, TpTypes
    <3>2. SubSeq(tpTimers, 1, n - 1) \in Seq(TpTimer) /\ Len(SubSeq(tpTimers, 1, n - 1)) = n - 1
      BY <3>1, <2>2, <1>0
    <3> QED BY <3>1, <3>2, <2>1, <2>2, <1>0
  <2> HIDE DEF n
  <2>4. TpSorted' BY <2>3, <1>0 DEF TpInv, TpSorted
  <2>5. TpOnce'
    <3>1. \A i, j \in DOMAIN tpTimers' : tpTimers'[i].id = tpTimers'[j].id => i = j
      BY <2>3, <1>0 DEF TpInv, TpOnce
    <3>2. \A i \in DOMAIN tpTimers' : tpTimers'[i].id # tpTimers[n].id /\ tpTimers'[i].id \notin tpRun \cup tpGone
      BY <2>2, <2>3, <1>0 DEF TpInv, TpOnce
    <3>3. tpTimers[n].id \notin tpGone BY <2>2, <1>0 DEF TpInv, TpOnce
    <3>4. DOMAIN tpTasks = {} BY <1>2
    <3> QED BY <2>1, <3>1, <3>2, <3>3, <3>4 DEF TpInv, TpOnce
  <2>6. tpRun' \subseteq TpIds BY <2>1, <2>2, <1>0 DEF TpInv, TpTypes
  <2>7. ASSUME tpTimers' # << >> PROVE NextTimer'.due >= NextTimer.due
    <3>1. n - 1 \in 1 .. n - 1 /\ n - 1 \in 1 .. n BY <2>3, <2>7, <1>0
    <3>2. tpTimers[n - 1].due >= tpTimers[n].due
      BY <3>1, <2>2, <1>0 DEF TpInv, TpSorted
    <3> QED BY <3>1, <3>2, <2>3 DEF NextTimer, n
  <2> QED BY <1>2, <2>1, <2>3, <2>4, <2>5, <2>6, <2>7 DEF TpInv, TpTypes
<1> QED BY <1>1, <1>2

LEMMA TpWorkerKeeps == ASSUME NEW w \in TpWorkers PROVE TpInv /\ WorkerStep(w) => TpInv'
<1> SUFFICES ASSUME TpInv, WorkerStep(w) PROVE TpInv' OBVIOUS
<1>1. ASSUME PopTask, UNCHANGED <<tpNow, tpContinue, tpWake, tpGone, tpAt>> PROVE TpInv'
  <2>1. TpTypes' /\ TpOnce' /\ TpSorted' BY <1>1, TpPopKeeps DEF TpInv, TpTypes
  <2>2. TpAwakeInTime'
    <3> SUFFICES ASSUME NEW v \in TpWorkers, tpAt[v] = "sleep", tpTimers' # << >> PROVE tpWake[v] <= NextTimer'.due
      BY <1>1 DEF TpAwakeInTime
    <3>1. tpWake[v] <= NextTimer.due /\ NextTimer'.due >= NextTimer.due BY <1>1, TpPopKeeps DEF TpInv, TpAwakeInTime
    <3>2. NextTimer.due \in Nat BY <1>1, TpPopKeeps, SeqElements, TpTimerFields DEF NextTimer, TpInv, TpTypes
    <3>3. tpTimers' \in Seq(TpTimer) BY <1>1, TpPopKeeps
    <3>4. NextTimer'.due \in Nat /\ tpWake[v] \in Nat BY <3>3, SeqElements, TpTimerFields DEF NextTimer, TpInv, TpTypes
    <3> QED BY <3>1, <3>2, <3>4
  <2> QED BY <2>1, <2>2 DEF TpInv
<1>2. ASSUME NEW at, at # "sleep", tpAt' = [tpAt EXCEPT ![w] = at],
             UNCHANGED <<tpNow, tpTasks, tpTimers, tpContinue, tpWake, tpRun, tpGone>>
      PROVE  TpInv'
  BY <1>2 DEF TpInv, TpTypes, TpOnce, TpSorted, TpAwakeInTime, NextTimer
<1>3. CASE WorkerTop(w) BY <1>1, <1>2, <1>3 DEF WorkerTop
<1>4. CASE WorkerChecks(w)
  <2>1. CASE Ready \/ ~tpContinue BY <1>2, <1>4, <2>1 DEF WorkerChecks
  <2>2. CASE ~(Ready \/ ~tpContinue)
    <3> DEFINE wake == IF tpTimers = << >> THEN TpEver ELSE NextTimer.due
    <3>1. /\ tpAt' = [tpAt EXCEPT ![w] = "sleep"] /\ tpWake' = [tpWake EXCEPT ![w] = wake]
          /\ UNCHANGED <<tpNow, tpTasks, tpTimers, tpContinue, tpRun, tpGone>>
      BY <1>4, <2>2 DEF WorkerChecks
    <3>3. tpTimers # << >> => wake = NextTimer.due /\ NextTimer.due \in Nat
      BY SeqElements, TpTimerFields DEF TpInv, TpTypes, NextTimer
    <3>2. wake \in Nat BY <3>3, TpAssumption DEF TpEver
    <3> HIDE DEF wake
    <3>4. TpTypes' /\ TpOnce' /\ TpSorted' BY <3>1, <3>2 DEF TpInv, TpTypes, TpOnce, TpSorted
    <3>5. NextTimer' = NextTimer BY <3>1 DEF NextTimer
    <3>6. TpAwakeInTime' BY <3>1, <3>3, <3>5 DEF TpInv, TpTypes, TpAwakeInTime
    <3> QED BY <3>4, <3>6 DEF TpInv
  <2> QED BY <2>1, <2>2
<1>5. CASE WorkerWakes(w) BY <1>2, <1>5 DEF WorkerWakes
<1>6. CASE WorkerDrains(w) BY <1>1, <1>2, <1>6 DEF WorkerDrains
<1> QED BY <1>3, <1>4, <1>5, <1>6 DEF WorkerStep

LEMMA TpInvStep == TpInv /\ [TpNext]_tpVars => TpInv'
<1> SUFFICES ASSUME TpInv, [TpNext]_tpVars PROVE TpInv' OBVIOUS
<1>1. CASE Stop
  BY <1>1 DEF Stop, TpInv, TpTypes, TpOnce, TpSorted, TpAwakeInTime, NextTimer, Sleepers
<1>2. CASE Tick
  BY <1>2, TpAssumption DEF Tick, TpInv, TpTypes, TpOnce, TpSorted, TpAwakeInTime, NextTimer
<1>3. CASE UNCHANGED tpVars
  BY <1>3 DEF tpVars, TpInv, TpTypes, TpOnce, TpSorted, TpAwakeInTime, NextTimer
<1> QED BY <1>1, <1>2, <1>3, TpPushKeeps, TpPushDelayedKeeps, TpCancelKeeps, TpWorkerKeeps DEF TpNext

LEMMA TpInvHolds == TpInv => TaskPoolConsistent
<1> SUFFICES ASSUME TpInv PROVE TaskPoolConsistent OBVIOUS
<1>1. TpTypeOK BY DEF TpInv, TpTypes, TpSorted, TpTypeOK
<1>2. CancelledNeverRuns BY DEF TpInv, TpOnce, CancelledNeverRuns
<1>3. NobodyOversleeps
  BY TpAssumption DEF TpInv, TpAwakeInTime, NobodyOversleeps, Sleepers
<1> QED BY <1>1, <1>2, <1>3 DEF TaskPoolConsistent

\* task_pool.h, thread_pool.h: for any threads, tasks and delays, the timers
\* are kept in the order in which they are due, no task runs twice or after it
\* was cancelled, and the threads never all sleep past the next timer.
THEOREM TasksInOrder == TpSpec => []TaskPoolConsistent
<1>1. TpSpec => []TpInv BY TpInvInit, TpInvStep, PTL DEF TpSpec
<1> QED BY <1>1, TpInvHolds, PTL
-----------------------------------------------------------------------------
(* The library and its copies (LibrarySync) *)

LsLoads(l) == lsApps = Members(l.items) /\ lsLoaded = lsApps

LsAgree == lsSync = LsCopy(lsLibrary, lsStreaming) /\ LsLoads(lsLibrary)

\* handle_sort between its writes: it can finish, and it can go back.
LsSorting ==
  /\ lsRead.sync = LsCopy(lsRead.lib, lsStreaming) /\ lsNew.sync = LsCopy(lsNew.lib, lsStreaming)
  /\ LsLoads(lsRead.lib) /\ LsLoads(lsNew.lib) /\ lsSync = lsRead.sync
  /\ lsCorePc \in {"lib", "undoSync"} => lsLibrary = lsRead.lib
  /\ lsCorePc = "sync" => lsLibrary = lsNew.lib

LsUpdating ==
  /\ LsLoads(lsLibrary) /\ lsNew.sync = LsCopy(lsLibrary, lsNew.sync.stream)
  /\ lsCorePc = "stream" => LsAgree
  /\ lsCorePc = "streamSync" => lsNew.sync.stream = lsStreaming

\* A mutation that runs alone puts what it makes into all the files and the
\* core, whatever they held ...
LsForward ==
  /\ lsDeskPc \in {"apps", "stream", "sync", "reload", "verify"} => lsLibrary = lsNext.lib
  /\ lsDeskPc \in {"stream", "sync", "reload", "verify"} => lsApps = Members(lsNext.lib.items)
  /\ lsDeskPc \in {"sync", "reload", "verify"} => lsNext.stream = lsStreaming
  /\ lsDeskPc \in {"reload", "verify"} => lsSync = LsCopy(lsNext.lib, lsStreaming)
  /\ lsDeskPc = "verify" => lsLoaded = lsApps

\* ... and what it read before can be put back, if the files agreed then.
LsBackward ==
  /\ lsDeskPc \in {"snapSync", "snapApps", "read"} => LsAgree /\ lsBefore.lib = lsLibrary
  /\ lsDeskPc \in {"snapApps", "read"} => lsBefore.sync = lsSync
  /\ lsDeskPc \notin {"idle", "snapSync", "snapApps"} =>
       lsBefore.sync = LsCopy(lsBefore.lib, lsStreaming) /\ lsBefore.apps = Members(lsBefore.lib.items)
  /\ lsDeskPc \in {"restoreSync", "restoreApps", "again"} => lsLibrary = lsBefore.lib
  /\ lsDeskPc \in {"restoreApps", "again"} => lsSync = lsBefore.sync
  /\ lsDeskPc = "again" => lsApps = lsBefore.apps

LsSettling ==
  /\ lsStreamPc # "idle" => LsLoads(lsLibrary)
  /\ lsStreamPc = "file" => LsAgree
  /\ lsStreamPc \in {"read", "sync"} => lsSet.stream = lsStreaming
  /\ lsStreamPc = "sync" => lsSet = LsCopy(lsLibrary, lsStreaming)

LsSerial ==
  /\ CoreIdle /\ DeskIdle /\ StreamIdle => LsAgree
  /\ lsCorePc = "sort" => LsAgree /\ lsRead.lib = lsLibrary
  /\ lsCorePc = "update" => LsAgree /\ lsRead.sync = lsSync
  /\ lsCorePc \in {"lib", "sync", "undoLib", "undoSync"} => LsSorting
  /\ lsCorePc \in {"stream", "streamSync"} => LsUpdating
  /\ LsBackward /\ LsSettling

LsCorePcs == {"idle", "sort", "lib", "sync", "undoLib", "undoSync", "update", "stream", "streamSync"}
LsDeskPcs == {"idle", "snapSync", "snapApps", "read", "lib", "apps", "stream", "sync", "reload", "verify",
              "restoreLib", "restoreSync", "restoreApps", "again"}
LsStreamPcs == {"idle", "file", "read", "sync"}

LsAlone ==
  /\ lsMixed \in BOOLEAN /\ lsOff \in BOOLEAN /\ (lsMixed => lsOff)
  /\ lsCorePc \in LsCorePcs /\ lsDeskPc \in LsDeskPcs /\ lsStreamPc \in LsStreamPcs
  /\ ~lsMixed => (CoreIdle /\ DeskIdle) \/ (CoreIdle /\ StreamIdle) \/ (DeskIdle /\ StreamIdle)

LsInv == LsAlone /\ (~lsMixed => LsForward) /\ (~lsOff => LsSerial)

LEMMA LsInvInit == LsInit => LsInv
BY DEF LsInit, LsInv, LsAlone, LsForward, LsSerial, LsAgree, LsLoads, LsBackward, LsSettling,
       FirstSync, CoreIdle, DeskIdle, StreamIdle, LsCorePcs, LsDeskPcs, LsStreamPcs

\* reorder() changes the order and nothing else, the same way in both files.
LEMMA SortBegins ==
  ASSUME NEW order, Sort(order), LsAgree, lsRead.lib = lsLibrary
  PROVE  lsCorePc' = "lib" /\ LsSorting'
<1> DEFINE full == FullOrder(order)
           new == [OrderAccepted(lsLibrary, full) EXCEPT !.rev = lsLibrary.rev + 1]
<1>1. /\ Reorderings(lsLibrary.items, full) # {} /\ lsCorePc' = "lib"
      /\ UNCHANGED <<lsLibrary, lsStreaming, lsSync, lsApps, lsLoaded>>
  BY DEF Sort, lsFiles, CoreOnly
<1>2. lsSync.lib = lsLibrary /\ lsSync.stream = lsStreaming BY DEF LsAgree, LsCopy
<1>3. lsRead' = [lib |-> lsLibrary, sync |-> lsSync] /\ lsNew' = [lib |-> new, sync |-> LsCopy(new, lsStreaming)]
  BY <1>2 DEF Sort, LsCopy
<1>4. Members(new.items) = Members(lsLibrary.items)
  <2> DEFINE t == CHOOSE t \in Reorderings(lsLibrary.items, full) : TRUE
  <2>1. t \in Reorderings(lsLibrary.items, full) BY <1>1
  <2>2. Members(t) = Members(lsLibrary.items) BY <2>1 DEF Reorderings, Arrangements
  <2>3. new.items = t BY DEF OrderAccepted
  <2> QED BY <2>2, <2>3
<1> HIDE DEF new, full
<1>5. /\ lsRead'.lib = lsLibrary /\ lsRead'.sync = lsSync /\ lsNew'.lib = new
      /\ lsNew'.sync = LsCopy(new, lsStreaming)
  BY <1>3
<1> QED BY <1>1, <1>4, <1>5 DEF LsSorting, LsLoads, LsAgree

\* What the processes do to each other's phases and to the two flags.
LEMMA LsCoreActs ==
  ASSUME LsAlone, CoreNext, ~FetchSync
  PROVE  /\ LsAlone' /\ UNCHANGED <<lsDesk, lsStream>> /\ (~lsOff' => ~lsOff)
         /\ ~lsMixed' => DeskIdle /\ StreamIdle
<1> USE DEF LsAlone, CoreIdle, DeskIdle, StreamIdle
<1>1. UNCHANGED <<lsDesk, lsStream>> /\ UNCHANGED <<lsDeskPc, lsStreamPc>>
  BY DEF CoreNext, BeginSort, Sort, SaveLibrary, SaveSync, UndoLibrary, UndoSync, BeginUpdate, UpdateStreaming, RefuseRequest,
     SaveStreaming, SaveStreamingSync, CoreOnly, lsCore, lsDesk, lsStream
<1>2. lsMixed \in BOOLEAN /\ lsOff \in BOOLEAN OBVIOUS
<1>3. CASE BeginSort \/ BeginUpdate
  <2>1. lsCorePc = "idle" /\ lsCorePc' \in LsCorePcs /\ Begins(DeskIdle /\ StreamIdle)
    BY <1>3 DEF BeginSort, BeginUpdate, CoreBegins, LsCorePcs
  <2> QED BY <1>1, <1>2, <2>1 DEF Begins
<1>4. ASSUME NEW whole \in BOOLEAN, CoreEnds(whole), lsCorePc # "idle"
      PROVE  LsAlone' /\ (~lsOff' => ~lsOff) /\ (~lsMixed' => DeskIdle /\ StreamIdle)
  <2>1. lsCorePc' = "idle" /\ Ends(DeskIdle /\ StreamIdle, whole) /\ "idle" \in LsCorePcs
    BY <1>4 DEF CoreEnds, LsCorePcs
  <2> QED BY <1>1, <1>2, <1>4, <2>1 DEF Ends
<1>5. CASE lsCorePc # "idle" /\ lsCorePc' \in LsCorePcs /\ UNCHANGED <<lsMixed, lsOff>>
  BY <1>1, <1>2, <1>5
<1>6. CASE (\E order \in Arrangements(Published(lsSync.lib)) : Sort(order)) \/ UpdateStreaming
  <2>1. lsCorePc # "idle" BY <1>6 DEF Sort, UpdateStreaming
  <2>2. \/ \E whole \in BOOLEAN : CoreEnds(whole)
        \/ lsCorePc' \in LsCorePcs /\ UNCHANGED <<lsMixed, lsOff>>
    BY <1>6, Zenon DEF Sort, UpdateStreaming, CoreGoes, lsCount, LsCorePcs
  <2> QED BY <1>1, <1>4, <1>5, <2>1, <2>2
<1>7. CASE SaveLibrary \/ SaveSync
  <2>1. lsCorePc # "idle" BY <1>7 DEF SaveLibrary, SaveSync
  <2>2. \/ \E whole \in BOOLEAN : CoreEnds(whole)
        \/ lsCorePc' \in LsCorePcs /\ UNCHANGED <<lsMixed, lsOff>>
    BY <1>7, Zenon DEF SaveLibrary, SaveSync, CoreGoes, lsCount, LsCorePcs
  <2> QED BY <1>1, <1>4, <1>5, <2>1, <2>2
<1>8. CASE UndoLibrary \/ UndoSync
  <2>1. lsCorePc # "idle" BY <1>8 DEF UndoLibrary, UndoSync
  <2>2. \/ \E whole \in BOOLEAN : CoreEnds(whole)
        \/ lsCorePc' \in LsCorePcs /\ UNCHANGED <<lsMixed, lsOff>>
    BY <1>8, Zenon DEF UndoLibrary, UndoSync, CoreGoes, lsCount, LsCorePcs
  <2> QED BY <1>1, <1>4, <1>5, <2>1, <2>2
<1>9. CASE RefuseRequest \/ SaveStreaming \/ SaveStreamingSync
  <2>1. lsCorePc # "idle" BY <1>9 DEF RefuseRequest, SaveStreaming, SaveStreamingSync
  <2>2. \/ \E whole \in BOOLEAN : CoreEnds(whole)
        \/ lsCorePc' \in LsCorePcs /\ UNCHANGED <<lsMixed, lsOff>>
    BY <1>9, Zenon DEF RefuseRequest, SaveStreaming, SaveStreamingSync, CoreGoes, lsCount, LsCorePcs
  <2> QED BY <1>1, <1>4, <1>5, <2>1, <2>2
<1> QED BY <1>1, <1>3, <1>6, <1>7, <1>8, <1>9 DEF CoreNext

LEMMA LsDeskActs ==
  ASSUME LsAlone, DeskNext
  PROVE  /\ LsAlone' /\ UNCHANGED <<lsCore, lsStream>> /\ (~lsOff' => ~lsOff \/ Verify)
         /\ ~lsMixed' => CoreIdle /\ StreamIdle
<1> USE DEF LsAlone, CoreIdle, DeskIdle, StreamIdle
<1>1. UNCHANGED <<lsCore, lsStream>> /\ UNCHANGED <<lsCorePc, lsStreamPc>>
  BY DEF DeskNext, BeginMutation, SnapshotSync, SnapshotApps, ReadLibraryFile, WriteLibraryFile, WriteAppsFile,
     ReadStreamingFile, WriteSyncFile, Reload, Verify, RestoreLibrary, RestoreSync, RestoreApps, ReloadRestored, DeskOnly, lsCore, lsDesk, lsStream
<1>2. lsMixed \in BOOLEAN /\ lsOff \in BOOLEAN OBVIOUS
<1>3. CASE BeginMutation
  <2>1. lsDeskPc = "idle" /\ lsDeskPc' \in LsDeskPcs /\ Begins(CoreIdle /\ StreamIdle)
    BY <1>3 DEF BeginMutation, DeskBegins, LsDeskPcs
  <2> QED BY <1>1, <1>2, <2>1 DEF Begins
<1>4. ASSUME NEW whole \in BOOLEAN, DeskEnds(whole), lsDeskPc # "idle"
      PROVE  LsAlone' /\ (~lsOff' => ~lsOff) /\ (~lsMixed' => CoreIdle /\ StreamIdle)
  <2>1. lsDeskPc' = "idle" /\ Ends(CoreIdle /\ StreamIdle, whole) /\ "idle" \in LsDeskPcs
    BY <1>4 DEF DeskEnds, DeskClears, LsDeskPcs
  <2> QED BY <1>1, <1>2, <1>4, <2>1 DEF Ends
<1>5. CASE lsDeskPc # "idle" /\ lsDeskPc' \in LsDeskPcs /\ UNCHANGED <<lsMixed, lsOff>>
  BY <1>1, <1>2, <1>5
<1>6. CASE SnapshotSync \/ SnapshotApps \/ ReadLibraryFile
  <2>1. lsDeskPc # "idle" BY <1>6 DEF SnapshotSync, SnapshotApps, ReadLibraryFile
  <2>2. \/ \E whole \in BOOLEAN : DeskEnds(whole)
        \/ lsDeskPc' \in LsDeskPcs /\ UNCHANGED <<lsMixed, lsOff>>
    BY <1>6, Zenon DEF SnapshotSync, SnapshotApps, ReadLibraryFile, DeskGoes, Throws, lsCount, LsDeskPcs
  <2> QED BY <1>1, <1>4, <1>5, <2>1, <2>2
<1>7. CASE WriteLibraryFile \/ WriteAppsFile
  <2>1. lsDeskPc # "idle" BY <1>7 DEF WriteLibraryFile, WriteAppsFile
  <2>2. \/ \E whole \in BOOLEAN : DeskEnds(whole)
        \/ lsDeskPc' \in LsDeskPcs /\ UNCHANGED <<lsMixed, lsOff>>
    BY <1>7, Zenon DEF WriteLibraryFile, WriteAppsFile, DeskGoes, Throws, lsCount, LsDeskPcs
  <2> QED BY <1>1, <1>4, <1>5, <2>1, <2>2
<1>8. CASE ReadStreamingFile \/ WriteSyncFile \/ Reload
  <2>1. lsDeskPc # "idle" BY <1>8 DEF ReadStreamingFile, WriteSyncFile, Reload
  <2>2. \/ \E whole \in BOOLEAN : DeskEnds(whole)
        \/ lsDeskPc' \in LsDeskPcs /\ UNCHANGED <<lsMixed, lsOff>>
    BY <1>8, Zenon DEF ReadStreamingFile, WriteSyncFile, Reload, DeskGoes, Throws, lsCount, LsDeskPcs
  <2> QED BY <1>1, <1>4, <1>5, <2>1, <2>2
<1>9. CASE RestoreLibrary \/ RestoreSync
  <2>1. lsDeskPc # "idle" BY <1>9 DEF RestoreLibrary, RestoreSync
  <2>2. \/ \E whole \in BOOLEAN : DeskEnds(whole)
        \/ lsDeskPc' \in LsDeskPcs /\ UNCHANGED <<lsMixed, lsOff>>
    BY <1>9, Zenon DEF RestoreLibrary, RestoreSync, DeskGoes, Throws, lsCount, LsDeskPcs
  <2> QED BY <1>1, <1>4, <1>5, <2>1, <2>2
<1>10. CASE RestoreApps \/ ReloadRestored
  <2>1. lsDeskPc # "idle" BY <1>10 DEF RestoreApps, ReloadRestored
  <2>2. \/ \E whole \in BOOLEAN : DeskEnds(whole)
        \/ lsDeskPc' \in LsDeskPcs /\ UNCHANGED <<lsMixed, lsOff>>
    BY <1>10, Zenon DEF RestoreApps, ReloadRestored, DeskGoes, Throws, lsCount, LsDeskPcs
  <2> QED BY <1>1, <1>4, <1>5, <2>1, <2>2
<1>11. CASE Verify
  <2>1. lsDeskPc = "verify" BY <1>11 DEF Verify
  <2>2. \/ lsDeskPc' = "idle" /\ lsMixed' = (lsMixed /\ ~(CoreIdle /\ StreamIdle)) /\ lsOff' = lsMixed
        \/ lsDeskPc' = "restoreLib" /\ UNCHANGED <<lsMixed, lsOff>>
    BY <1>11 DEF Verify, DeskClears, DeskGoes, lsCount
  <2>3. lsDeskPc' \in LsDeskPcs BY <2>2 DEF LsDeskPcs
  <2>4. CASE lsMixed BY <1>1, <1>11, <2>1, <2>2, <2>3, <2>4
  <2>5. CASE ~lsMixed BY <1>1, <1>11, <2>1, <2>2, <2>3, <2>5
  <2> QED BY <1>2, <2>4, <2>5
<1> QED BY <1>1, <1>3, <1>6, <1>7, <1>8, <1>9, <1>10, <1>11 DEF DeskNext

LEMMA LsStreamActs ==
  ASSUME LsAlone, StreamNext
  PROVE  /\ LsAlone' /\ UNCHANGED <<lsCore, lsDesk>> /\ (~lsOff' => ~lsOff)
         /\ ~lsMixed' => CoreIdle /\ DeskIdle
<1> USE DEF LsAlone, CoreIdle, DeskIdle, StreamIdle
<1>1. UNCHANGED <<lsCore, lsDesk>> /\ UNCHANGED <<lsCorePc, lsDeskPc>>
  BY DEF StreamNext, SetResolution, WriteStreamingFile, ReadLibraryForSync, WriteStreamingSync, StreamOnly, lsCore, lsDesk, lsStream
<1>2. lsMixed \in BOOLEAN /\ lsOff \in BOOLEAN OBVIOUS
<1>3. CASE SetResolution
  <2>1. lsStreamPc = "idle" /\ lsStreamPc' \in LsStreamPcs /\ Begins(CoreIdle /\ DeskIdle)
    BY <1>3 DEF SetResolution, LsStreamPcs
  <2> QED BY <1>1, <1>2, <2>1 DEF Begins
<1>4. ASSUME NEW whole \in BOOLEAN, StreamEnds(whole), lsStreamPc # "idle"
      PROVE  LsAlone' /\ (~lsOff' => ~lsOff) /\ (~lsMixed' => CoreIdle /\ DeskIdle)
  <2>1. lsStreamPc' = "idle" /\ Ends(CoreIdle /\ DeskIdle, whole) /\ "idle" \in LsStreamPcs
    BY <1>4 DEF StreamEnds, LsStreamPcs
  <2> QED BY <1>1, <1>2, <1>4, <2>1 DEF Ends
<1>5. CASE lsStreamPc # "idle" /\ lsStreamPc' \in LsStreamPcs /\ UNCHANGED <<lsMixed, lsOff>>
  BY <1>1, <1>2, <1>5
<1>6. CASE WriteStreamingFile \/ ReadLibraryForSync \/ WriteStreamingSync
  <2>1. lsStreamPc # "idle" BY <1>6 DEF WriteStreamingFile, ReadLibraryForSync, WriteStreamingSync
  <2>2. \/ \E whole \in BOOLEAN : StreamEnds(whole)
        \/ lsStreamPc' \in LsStreamPcs /\ UNCHANGED <<lsMixed, lsOff>>
    BY <1>6, Zenon DEF WriteStreamingFile, ReadLibraryForSync, WriteStreamingSync, StreamGoes, lsCount, LsStreamPcs
  <2> QED BY <1>1, <1>4, <1>5, <2>1, <2>2
<1> QED BY <1>1, <1>3, <1>6 DEF StreamNext

\* A request of the core, while the desktop does nothing.
LEMMA LsCoreStep ==
  ASSUME LsInv, CoreNext, ~FetchSync, ~lsOff'
  PROVE  LsSerial'
<1>1. LsAlone /\ ~lsOff /\ LsSerial /\ lsDeskPc = "idle" /\ lsStreamPc = "idle" /\ UNCHANGED <<lsDesk, lsStream>>
  BY LsCoreActs DEF LsInv, LsAlone, DeskIdle, StreamIdle
<1>2. lsDeskPc' = "idle" /\ lsStreamPc' = "idle" BY <1>1 DEF lsDesk, lsStream
<1>3. LsBackward' /\ LsSettling' BY <1>2 DEF LsBackward, LsSettling
<1> USE DEF CoreIdle, DeskIdle, StreamIdle, CoreOnly
<1>4. CASE BeginSort \/ BeginUpdate
  <2>1. LsAgree /\ LsAgree' BY <1>1, <1>4 DEF LsSerial, BeginSort, BeginUpdate, lsFiles, LsAgree, LsLoads
  <2>2. \/ lsCorePc' = "sort" /\ lsRead'.lib = lsLibrary'
        \/ lsCorePc' = "update" /\ lsRead'.sync = lsSync'
    BY <1>4 DEF BeginSort, BeginUpdate, lsFiles
  <2> QED BY <1>2, <1>3, <2>1, <2>2 DEF LsSerial
<1>5. CASE \E order \in Arrangements(Published(lsSync.lib)) : Sort(order)
  <2>1. LsAgree /\ lsRead.lib = lsLibrary BY <1>1, <1>5 DEF LsSerial, Sort
  <2>2. lsCorePc' = "lib" /\ LsSorting' BY <1>5, <2>1, SortBegins
  <2> QED BY <1>2, <1>3, <2>2 DEF LsSerial
<1>6. CASE SaveLibrary
  <2>1. LsSorting BY <1>1, <1>6 DEF LsSerial, SaveLibrary
  <2>2. LsSorting' /\ lsCorePc' \in {"sync", "undoLib"} BY <1>6, <2>1 DEF SaveLibrary, CoreGoes, LsSorting, LsLoads
  <2> QED BY <1>2, <1>3, <2>2 DEF LsSerial
<1>7. CASE SaveSync
  <2>1. LsSorting /\ lsLibrary = lsNew.lib BY <1>1, <1>7 DEF LsSerial, SaveSync, LsSorting
  <2>2. CASE lsSync' = lsNew.sync /\ CoreEnds(TRUE)
    <3>1. lsCorePc' = "idle" /\ LsAgree' BY <1>7, <2>1, <2>2 DEF SaveSync, CoreEnds, LsSorting, LsAgree, LsLoads
    <3> QED BY <1>2, <1>3, <3>1 DEF LsSerial
  <2>3. CASE UNCHANGED lsSync /\ CoreGoes("undoLib")
    <3>1. lsCorePc' = "undoLib" /\ LsSorting' BY <1>7, <2>1, <2>3 DEF SaveSync, CoreGoes, LsSorting, LsLoads
    <3> QED BY <1>2, <1>3, <3>1 DEF LsSerial
  <2> QED BY <1>7, <2>2, <2>3 DEF SaveSync
<1>8. CASE UndoLibrary
  <2>1. LsSorting BY <1>1, <1>8 DEF LsSerial, UndoLibrary
  <2>2. CoreGoes("undoSync") /\ lsLibrary' = lsRead.lib BY <1>8 DEF UndoLibrary, CoreEnds, Ends
  <2>3. LsSorting' /\ lsCorePc' = "undoSync" BY <1>8, <2>1, <2>2 DEF UndoLibrary, CoreGoes, LsSorting, LsLoads
  <2> QED BY <1>2, <1>3, <2>3 DEF LsSerial
<1>9. CASE UndoSync
  <2>1. LsSorting /\ lsLibrary = lsRead.lib BY <1>1, <1>9 DEF LsSerial, UndoSync, LsSorting
  <2>2. CoreEnds(TRUE) /\ lsSync' = lsRead.sync BY <1>9 DEF UndoSync, CoreEnds, Ends
  <2>3. lsCorePc' = "idle" /\ LsAgree' BY <1>9, <2>1, <2>2 DEF UndoSync, CoreEnds, LsSorting, LsAgree, LsLoads
  <2> QED BY <1>2, <1>3, <2>3 DEF LsSerial
<1>10. CASE UpdateStreaming
  <2>1. LsAgree /\ lsRead.sync = lsSync BY <1>1, <1>10 DEF LsSerial, UpdateStreaming
  <2>2. lsRead.sync.lib = lsLibrary BY <2>1 DEF LsAgree, LsCopy
  <2>3. /\ lsCorePc' = "stream" /\ UNCHANGED <<lsLibrary, lsStreaming, lsSync, lsApps, lsLoaded>>
        /\ lsNew'.sync = LsCopy(lsLibrary, NextStreaming(lsStreaming, "client"))
    BY <1>10, <2>2 DEF UpdateStreaming, lsFiles
  <2>4. lsNew'.sync.stream = NextStreaming(lsStreaming, "client") BY <2>3 DEF LsCopy
  <2>5. LsUpdating' BY <2>1, <2>3, <2>4 DEF LsUpdating, LsAgree, LsLoads
  <2> QED BY <1>2, <1>3, <2>3, <2>5 DEF LsSerial
<1>11. CASE RefuseRequest
  <2>1. LsAgree BY <1>1, <1>11 DEF LsSerial, RefuseRequest
  <2>2. lsCorePc' = "idle" /\ LsAgree' BY <1>11, <2>1 DEF RefuseRequest, CoreEnds, lsFiles, LsAgree, LsLoads
  <2> QED BY <1>2, <1>3, <2>2 DEF LsSerial
<1>12. CASE SaveStreaming
  <2>1. LsUpdating /\ LsAgree BY <1>1, <1>12 DEF LsSerial, SaveStreaming, LsUpdating
  <2>2. CASE lsStreaming' = lsNew.sync.stream /\ CoreGoes("streamSync")
    <3>1. lsCorePc' = "streamSync" /\ LsUpdating' BY <1>12, <2>1, <2>2 DEF SaveStreaming, CoreGoes, LsUpdating, LsLoads
    <3> QED BY <1>2, <1>3, <3>1 DEF LsSerial
  <2>3. CASE UNCHANGED lsStreaming /\ CoreEnds(TRUE)
    <3>1. lsCorePc' = "idle" /\ LsAgree' BY <1>12, <2>1, <2>3 DEF SaveStreaming, CoreEnds, LsAgree, LsLoads
    <3> QED BY <1>2, <1>3, <3>1 DEF LsSerial
  <2> QED BY <1>12, <2>2, <2>3 DEF SaveStreaming
<1>13. CASE SaveStreamingSync
  <2>1. LsUpdating /\ lsNew.sync.stream = lsStreaming BY <1>1, <1>13 DEF LsSerial, SaveStreamingSync, LsUpdating
  <2>2. CoreEnds(TRUE) /\ lsSync' = lsNew.sync BY <1>13 DEF SaveStreamingSync, CoreEnds, Ends
  <2>3. lsCorePc' = "idle" /\ LsAgree'
    BY <1>13, <2>1, <2>2 DEF SaveStreamingSync, CoreEnds, LsUpdating, LsAgree, LsLoads
  <2> QED BY <1>2, <1>3, <2>3 DEF LsSerial
<1> QED BY <1>4, <1>5, <1>6, <1>7, <1>8, <1>9, <1>10, <1>11, <1>12, <1>13 DEF CoreNext

\* A mutation of the desktop that runs alone goes forward whatever the files
\* held.
LEMMA LsForwardStep ==
  ASSUME LsInv, DeskNext, ~lsMixed'
  PROVE  LsForward'
<1> USE DEF LsForward, DeskGoes, DeskOnly, Throws, lsFiles
<1>1. CASE BeginMutation BY <1>1 DEF BeginMutation
<1>2. CASE lsDeskPc' = "idle" \/ lsDeskPc' \in {"restoreLib", "restoreSync", "restoreApps", "again"} BY <1>2
<1>3. CASE lsMixed /\ lsDeskPc' \notin {"idle", "restoreLib", "restoreSync", "restoreApps", "again", "snapSync"}
  BY <1>3 DEF DeskNext, BeginMutation, SnapshotSync, SnapshotApps, ReadLibraryFile, WriteLibraryFile, WriteAppsFile,
     ReadStreamingFile, WriteSyncFile, Reload, Verify, RestoreLibrary, RestoreSync, RestoreApps, ReloadRestored,
     DeskEnds, DeskClears, lsCount
<1>4. CASE ~lsMixed
  <2>1. LsForward BY <1>4 DEF LsInv
  <2>2. CASE SnapshotSync \/ SnapshotApps \/ ReadLibraryFile
    BY <2>2 DEF SnapshotSync, SnapshotApps, ReadLibraryFile
  <2>3. CASE WriteLibraryFile \/ WriteAppsFile BY <2>1, <2>3 DEF WriteLibraryFile, WriteAppsFile
  <2>4. CASE ReadStreamingFile
    <3>1. lsDeskPc' = "restoreLib" \/ (lsDeskPc' = "sync" /\ lsNext'.lib = lsNext.lib /\ lsNext'.stream = lsStreaming)
      BY <2>4 DEF ReadStreamingFile
    <3> QED BY <2>1, <2>4, <3>1 DEF ReadStreamingFile
  <2>5. CASE WriteSyncFile \/ Reload BY <2>1, <2>5 DEF WriteSyncFile, Reload
  <2>6. CASE Verify \/ RestoreLibrary \/ RestoreSync \/ RestoreApps \/ ReloadRestored
    BY <2>6 DEF Verify, RestoreLibrary, RestoreSync, RestoreApps, ReloadRestored, DeskEnds, DeskClears
  <2> QED BY <1>1, <2>2, <2>3, <2>4, <2>5, <2>6 DEF DeskNext
<1>5. lsMixed \in BOOLEAN BY DEF LsInv, LsAlone
<1>6. CASE lsDeskPc' = "snapSync" BY <1>6
<1> QED BY <1>2, <1>3, <1>4, <1>5, <1>6

LEMMA LsDeskStep ==
  ASSUME LsInv, DeskNext, ~lsOff'
  PROVE  LsSerial'
<1>1. LsAlone /\ lsCorePc = "idle" /\ lsStreamPc = "idle" /\ UNCHANGED <<lsCore, lsStream>>
  BY LsDeskActs DEF LsInv, LsAlone, CoreIdle, StreamIdle
<1>2. lsCorePc' = "idle" /\ lsStreamPc' = "idle" BY <1>1 DEF lsCore, lsStream
<1>3. LsSettling' BY <1>2 DEF LsSettling
<1> USE DEF CoreIdle, DeskIdle, StreamIdle, DeskOnly
<1>4. SUFFICES LsBackward' /\ (lsDeskPc' = "idle" => LsAgree') BY <1>2, <1>3 DEF LsSerial
<1>5. CASE Verify
  <2>1. CASE Shows(Readback, lsNext)
    <3>1. lsDeskPc' = "idle" /\ ~lsMixed /\ UNCHANGED <<lsLibrary, lsStreaming, lsSync, lsApps, lsLoaded>>
      BY <1>5, <2>1 DEF Verify, DeskClears, lsFiles
    <3>2. LsForward /\ lsDeskPc = "verify" BY <1>5, <3>1 DEF Verify, LsInv
    <3>3. LsAgree BY <3>2 DEF LsForward, LsAgree, LsLoads
    <3>4. LsAgree' BY <3>1, <3>3 DEF LsAgree, LsLoads
    <3> QED BY <3>1, <3>4 DEF LsBackward
  <2>2. CASE ~Shows(Readback, lsNext)
    <3>1. DeskGoes("restoreLib") /\ UNCHANGED <<lsLibrary, lsStreaming, lsSync, lsApps, lsLoaded>> /\ lsDeskPc = "verify"
      BY <1>5, <2>2 DEF Verify, lsFiles
    <3>2. ~lsOff BY <3>1 DEF DeskGoes, lsCount
    <3>3. LsBackward BY <3>2 DEF LsInv, LsSerial
    <3> QED BY <3>1, <3>3 DEF DeskGoes, LsBackward
  <2> QED BY <2>1, <2>2
<1>6. CASE ~Verify
  <2>1. ~lsOff /\ LsSerial /\ LsBackward BY <1>6, LsDeskActs DEF LsInv, LsSerial
  <2>2. CASE BeginMutation
    <3>1. LsAgree BY <1>1, <2>1, <2>2 DEF LsSerial, BeginMutation
    <3>2. lsDeskPc' = "snapSync" /\ lsBefore'.lib = lsLibrary /\ UNCHANGED <<lsLibrary, lsStreaming, lsSync, lsApps, lsLoaded>>
      BY <2>2 DEF BeginMutation, lsFiles
    <3> QED BY <3>1, <3>2 DEF LsBackward, LsAgree, LsLoads
  <2>3. CASE SnapshotSync
    <3>1. /\ lsDeskPc = "snapSync" /\ lsDeskPc' = "snapApps" /\ lsBefore'.lib = lsBefore.lib /\ lsBefore'.sync = lsSync
          /\ UNCHANGED <<lsLibrary, lsStreaming, lsSync, lsApps, lsLoaded>>
      BY <2>3 DEF SnapshotSync, lsFiles
    <3> QED BY <2>1, <3>1 DEF LsBackward, LsAgree, LsLoads
  <2>4. CASE SnapshotApps
    <3>1. /\ lsDeskPc = "snapApps" /\ lsDeskPc' = "read" /\ lsBefore'.lib = lsBefore.lib
          /\ lsBefore'.sync = lsBefore.sync /\ lsBefore'.apps = lsApps
          /\ UNCHANGED <<lsLibrary, lsStreaming, lsSync, lsApps, lsLoaded>>
      BY <2>4 DEF SnapshotApps, lsFiles
    <3> QED BY <2>1, <3>1 DEF LsBackward, LsAgree, LsLoads
  <2>5. CASE ReadLibraryFile \/ WriteLibraryFile \/ WriteAppsFile
    <3>1. /\ lsDeskPc \in {"read", "lib", "apps"} /\ lsDeskPc' \in {"lib", "apps", "stream", "restoreLib"}
          /\ UNCHANGED <<lsBefore, lsStreaming>>
      BY <2>5 DEF ReadLibraryFile, WriteLibraryFile, WriteAppsFile, DeskGoes, Throws, lsFiles
    <3> QED BY <2>1, <3>1 DEF LsBackward
  <2>6. CASE ReadStreamingFile \/ WriteSyncFile \/ Reload
    <3>1. /\ lsDeskPc \in {"stream", "sync", "reload"} /\ lsDeskPc' \in {"sync", "reload", "verify", "restoreLib"}
          /\ UNCHANGED <<lsBefore, lsStreaming>>
      BY <2>6 DEF ReadStreamingFile, WriteSyncFile, Reload, DeskGoes, Throws, lsFiles
    <3> QED BY <2>1, <3>1 DEF LsBackward
  <2>7. CASE RestoreLibrary \/ RestoreSync \/ RestoreApps
    <3>1. ~DeskEnds(FALSE) BY DEF DeskEnds, Ends
    <3> QED BY <2>1, <2>7, <3>1 DEF RestoreLibrary, RestoreSync, RestoreApps, DeskGoes, LsBackward
  <2>8. CASE ReloadRestored
    <3>1. /\ lsDeskPc = "again" /\ lsDeskPc' = "idle" /\ lsLoaded' = lsApps
          /\ UNCHANGED <<lsLibrary, lsStreaming, lsSync, lsApps>>
      BY <2>8 DEF ReloadRestored, DeskEnds, DeskClears, Ends, lsFiles
    <3> QED BY <2>1, <3>1 DEF LsBackward, LsAgree, LsLoads
  <2> QED BY <1>6, <2>2, <2>3, <2>4, <2>5, <2>6, <2>7, <2>8 DEF DeskNext
<1> QED BY <1>5, <1>6

LEMMA LsStreamStep ==
  ASSUME LsInv, StreamNext, ~lsOff'
  PROVE  LsSerial'
<1>1. LsAlone /\ ~lsOff /\ LsSerial /\ lsCorePc = "idle" /\ lsDeskPc = "idle" /\ UNCHANGED <<lsCore, lsDesk>>
  BY LsStreamActs DEF LsInv, LsAlone, DeskIdle, CoreIdle
<1>2. lsCorePc' = "idle" /\ lsDeskPc' = "idle" BY <1>1 DEF lsCore, lsDesk
<1>3. LsBackward' BY <1>2 DEF LsBackward
<1> USE DEF CoreIdle, DeskIdle, StreamIdle, StreamOnly
<1>4. SUFFICES LsSettling' /\ (lsStreamPc' = "idle" => LsAgree') BY <1>2, <1>3 DEF LsSerial
<1>5. CASE SetResolution
  <2>1. LsAgree BY <1>1, <1>5 DEF LsSerial, SetResolution
  <2> QED BY <1>5, <2>1 DEF SetResolution, LsSettling, LsAgree, LsLoads
<1>6. CASE WriteStreamingFile
  <2>1. LsAgree /\ lsStreamPc = "file" BY <1>1, <1>6 DEF LsSerial, LsSettling, WriteStreamingFile
  <2> QED BY <1>6, <2>1 DEF WriteStreamingFile, StreamGoes, StreamEnds, LsSettling, LsAgree, LsLoads
<1>7. CASE ReadLibraryForSync
  <2>1. LsLoads(lsLibrary) /\ lsSet.stream = lsStreaming BY <1>1, <1>7 DEF LsSerial, LsSettling, ReadLibraryForSync
  <2>2. ~StreamEnds(FALSE) BY DEF StreamEnds, Ends
  <2>3. lsStreamPc' = "sync" /\ lsSet' = LsCopy(lsLibrary, lsStreaming) /\ UNCHANGED <<lsLibrary, lsStreaming, lsApps, lsLoaded>>
    BY <1>7, <2>1, <2>2 DEF ReadLibraryForSync
  <2>4. lsSet'.stream = lsStreaming BY <2>3 DEF LsCopy
  <2> QED BY <2>1, <2>3, <2>4 DEF LsSettling, LsLoads
<1>8. CASE WriteStreamingSync
  <2>1. LsLoads(lsLibrary) /\ lsSet = LsCopy(lsLibrary, lsStreaming)
    BY <1>1, <1>8 DEF LsSerial, LsSettling, WriteStreamingSync
  <2>2. ~StreamEnds(FALSE) BY DEF StreamEnds, Ends
  <2> QED BY <1>8, <2>1, <2>2 DEF WriteStreamingSync, StreamEnds, LsSettling, LsAgree, LsLoads
<1> QED BY <1>5, <1>6, <1>7, <1>8 DEF StreamNext

LEMMA LsInvStep == LsInv /\ [LsNext]_lsVars => LsInv'
<1> SUFFICES ASSUME LsInv, [LsNext]_lsVars PROVE LsInv' OBVIOUS
<1>0. LsAlone BY DEF LsInv
<1>1. CASE FetchSync \/ UNCHANGED lsVars
  <2>1. UNCHANGED <<lsLibrary, lsStreaming, lsSync, lsApps, lsLoaded, lsCorePc, lsRead, lsNew, lsDeskPc, lsBefore, lsNext,
                    lsStreamPc, lsSet, lsMixed, lsOff>>
    BY <1>1 DEF FetchSync, lsVars, lsFiles, lsCore, lsDesk, lsStream, lsCount
  <2>2. LsAlone' BY <1>0, <2>1 DEF LsAlone, CoreIdle, DeskIdle, StreamIdle
  <2>3. LsForward => LsForward' BY <2>1 DEF LsForward
  <2>4. LsAgree => LsAgree' BY <2>1 DEF LsAgree, LsLoads
  <2>5. LsSorting => LsSorting' BY <2>1 DEF LsSorting, LsLoads
  <2>6. LsUpdating => LsUpdating' BY <2>1, <2>4 DEF LsUpdating, LsLoads
  <2>7. LsBackward => LsBackward' BY <2>1, <2>4 DEF LsBackward
  <2>8. LsSettling => LsSettling' BY <2>1, <2>4 DEF LsSettling, LsLoads
  <2>9. LsSerial => LsSerial'
    BY <2>1, <2>4, <2>5, <2>6, <2>7, <2>8 DEF LsSerial, CoreIdle, DeskIdle, StreamIdle
  <2> QED BY <2>1, <2>2, <2>3, <2>9 DEF LsInv
<1>2. CASE CoreNext /\ ~FetchSync
  <2>1. LsAlone' /\ lsDeskPc' = lsDeskPc /\ (~lsMixed' => DeskIdle) BY <1>0, <1>2, LsCoreActs DEF lsDesk
  <2>2. ~lsMixed' => LsForward' BY <2>1 DEF DeskIdle, LsForward
  <2> QED BY <1>2, <2>1, <2>2, LsCoreStep DEF LsInv
<1>3. CASE DeskNext BY <1>0, <1>3, LsDeskActs, LsForwardStep, LsDeskStep DEF LsInv
<1>4. CASE StreamNext
  <2>1. LsAlone' /\ lsDeskPc' = lsDeskPc /\ (~lsMixed' => DeskIdle) BY <1>0, <1>4, LsStreamActs DEF lsDesk
  <2>2. ~lsMixed' => LsForward' BY <2>1 DEF DeskIdle, LsForward
  <2> QED BY <1>4, <2>1, <2>2, LsStreamStep DEF LsInv
<1> QED BY <1>1, <1>2, <1>3, <1>4 DEF LsNext

LEMMA LsInvHolds == LsInv => LibraryAgrees
BY DEF LsInv, LsSerial, LsAgree, LsLoads, LibraryAgrees

\* The core's library_sort_http.cpp and nvhttp.cpp and the desktop's
\* LibraryMutationCoordinator and StreamingSettingsService: for any entries
\* and any number of changes, every change that runs alone and every one that
\* is taken back leave the files, the snapshot and the core agreeing; after an
\* overlap or a failed rollback the next mutation that runs alone does.
THEOREM LibraryStaysWhole == LsSpec => []LibraryAgrees
<1>1. LsSpec => []LsInv BY LsInvInit, LsInvStep, PTL DEF LsSpec
<1> QED BY <1>1, LsInvHolds, PTL

-----------------------------------------------------------------------------
(* Paired devices (DeviceRegistry) *)

LEMMA LeastNumber ==
  ASSUME NEW T, T \subseteq Nat, T # {}
  PROVE  \E n \in T : \A m \in T : n <= m
<1> DEFINE R == OpToRel(<, Nat)
<1>1. IsWellFoundedOn(R, Nat) BY NatLessThanWellFounded
<1>2. \A a, b \in Nat : a < b => <<a, b>> \in R BY DEF OpToRel
<1> HIDE DEF R
<1>3. PICK n \in T : \A m \in T : ~(<<m, n>> \in R) BY <1>1, WFMin
<1>4. ASSUME NEW m \in T PROVE n <= m
  <2>1. n \in Nat /\ m \in Nat /\ ~(<<m, n>> \in R) BY <1>3
  <2>2. ~(m < n) BY <2>1, <1>2
  <2> QED BY <2>1, <2>2
<1> QED BY <1>4

\* An increasing function on 1 .. m does not fall behind its argument ...
LEMMA IncreasingGrows ==
  ASSUME NEW m \in Nat, NEW n \in Nat, NEW f \in [1 .. m -> 1 .. n],
         \A i, j \in 1 .. m : i < j => f[i] < f[j]
  PROVE  \A i \in 1 .. m : i <= f[i]
<1> DEFINE T == {i \in 1 .. m : f[i] < i}
<1>1. SUFFICES ASSUME T # {} PROVE FALSE OBVIOUS
<1>2. PICK k \in T : \A i \in T : k <= i
  <2>1. T \subseteq Nat OBVIOUS
  <2> HIDE DEF T
  <2> QED BY <1>1, <2>1, LeastNumber
<1>3. k \in 1 .. m /\ f[k] < k /\ f[k] \in 1 .. n BY <1>2
<1>4. k # 1 BY <1>3
<1>5. k - 1 \in 1 .. m /\ k - 1 < k BY <1>3, <1>4
<1>6. f[k - 1] < f[k] /\ f[k - 1] \in 1 .. n BY <1>3, <1>5
<1>7. ~(k - 1 \in T) BY <1>2, <1>3
<1>8. ~(f[k - 1] < k - 1) BY <1>5, <1>7
<1> QED BY <1>3, <1>6, <1>8

\* ... so that onto 1 .. m itself it changes nothing.
LEMMA IncreasingIsIdentity ==
  ASSUME NEW m \in Nat, NEW f \in [1 .. m -> 1 .. m],
         \A i, j \in 1 .. m : i < j => f[i] < f[j]
  PROVE  \A i \in 1 .. m : f[i] = i
<1>1. \A i \in 1 .. m : i <= f[i] BY IncreasingGrows
<1> DEFINE T == {d \in Nat : d < m /\ f[m - d] > m - d}
<1>2. T = {}
  <2> SUFFICES ASSUME T # {} PROVE FALSE OBVIOUS
  <2>1. PICK d \in T : \A e \in T : d <= e
    <3>1. T \subseteq Nat OBVIOUS
    <3> HIDE DEF T
    <3> QED BY <3>1, LeastNumber
  <2>2. d \in Nat /\ d < m /\ f[m - d] > m - d BY <2>1
  <2>3. m - d \in 1 .. m BY <2>2
  <2>4. f[m - d] \in 1 .. m BY <2>3
  <2>5. d # 0 BY <2>2, <2>4
  <2>6. m - (d - 1) \in 1 .. m /\ m - d < m - (d - 1) /\ d - 1 \in Nat /\ d - 1 < m BY <2>2, <2>5
  <2>7. f[m - d] < f[m - (d - 1)] /\ f[m - (d - 1)] \in 1 .. m BY <2>3, <2>6
  <2>8. ~(d - 1 \in T)
    <3> HIDE DEF T
    <3>1. ~(d <= d - 1) BY <2>2
    <3> QED BY <2>1, <3>1
  <2>9. ~(f[m - (d - 1)] > m - (d - 1)) BY <2>6, <2>8
  <2> QED BY <2>2, <2>4, <2>6, <2>7, <2>9
<1>3. ASSUME NEW i \in 1 .. m PROVE f[i] = i
  <2>1. m - i \in Nat /\ m - i < m /\ m - (m - i) = i /\ f[i] \in 1 .. m OBVIOUS
  <2>2. ~(m - i \in T) BY <1>2
  <2>3. ~(f[i] > i) BY <2>1, <2>2
  <2> QED BY <1>1, <2>1, <2>3
<1> QED BY <1>3

IsList(l) == l \in Seq({l[i] : i \in DOMAIN l})

LEMMA ListsAre ==
  ASSUME NEW l, IsList(l)
  PROVE  Len(l) \in Nat /\ DOMAIN l = 1 .. Len(l) /\ l = [i \in 1 .. Len(l) |-> l[i]]
<1> DEFINE S == {l[i] : i \in DOMAIN l}
<1>1. l \in Seq(S) BY DEF IsList
<1> HIDE DEF S
<1> QED BY <1>1

LEMMA FunctionIsList ==
  ASSUME NEW n \in Nat, NEW l, l = [i \in 1 .. n |-> l[i]]
  PROVE  IsList(l) /\ Len(l) = n /\ DOMAIN l = 1 .. n
<1> DEFINE S == {l[i] : i \in DOMAIN l}
<1>1. DOMAIN l = 1 .. n OBVIOUS
<1>2. l \in [1 .. n -> S] BY <1>1
<1>3. S = {l[i] : i \in DOMAIN l} OBVIOUS
<1> HIDE DEF S
<1>4. l \in Seq(S) /\ Len(l) = n BY <1>2, FunctionIsSeq
<1> QED BY <1>1, <1>3, <1>4 DEF IsList

LEMMA AppendIsList ==
  ASSUME NEW l, IsList(l), NEW e
  PROVE  /\ IsList(Append(l, e)) /\ Len(Append(l, e)) = Len(l) + 1
         /\ \A i \in 1 .. Len(l) : Append(l, e)[i] = l[i]
         /\ Append(l, e)[Len(l) + 1] = e
<1> DEFINE S == {l[i] : i \in DOMAIN l}
           U == S \cup {e}
           t == Append(l, e)
<1>1. l \in Seq(S) BY DEF IsList
<1>2. S \subseteq U /\ e \in U OBVIOUS
<1> HIDE DEF S, U
<1>3. l \in Seq(U) BY <1>1, <1>2
<1>4. /\ t \in Seq(U) /\ Len(t) = Len(l) + 1 /\ Len(l) \in Nat
      /\ \A i \in 1 .. Len(l) : t[i] = l[i]
      /\ t[Len(l) + 1] = e
  BY <1>2, <1>3
<1> HIDE DEF t
<1>5. t = [i \in 1 .. Len(l) + 1 |-> t[i]] BY <1>4
<1>6. Len(l) + 1 \in Nat BY <1>4
<1>7. IsList(t) BY <1>5, <1>6, FunctionIsList
<1> QED BY <1>4, <1>7 DEF t

\* What AtIndices keeps, it keeps in order and only once.
LEMMA AtIndicesAre ==
  ASSUME NEW l, IsList(l), NEW kept, kept \subseteq DOMAIN l, NEW t \in AtIndices(l, kept)
  PROVE  /\ IsList(t) /\ Len(t) = Cardinality(kept) /\ Len(t) <= Len(l) /\ IsFiniteSet(kept)
         /\ \E f \in [1 .. Len(t) -> kept] :
              /\ \A i, j \in 1 .. Len(t) : i < j => f[i] < f[j]
              /\ \A k \in 1 .. Len(t) : t[k] = l[f[k]]
<1> DEFINE n == Len(l)
           m == Cardinality(kept)
<1>1. n \in Nat /\ DOMAIN l = 1 .. n BY ListsAre
<1>2. IsFiniteSet(kept)
  <2>1. IsFiniteSet(1 .. n) BY <1>1, FS_Interval
  <2> QED BY <1>1, <2>1, FS_Subset
<1>3. m \in Nat BY <1>2, FS_CardinalityType
<1>4. PICK f \in Increasing(kept) : t = [k \in DOMAIN f |-> l[f[k]]] BY DEF AtIndices
<1> HIDE DEF n, m
<1>5. f \in [1 .. m -> kept] /\ \A i, j \in 1 .. m : i < j => f[i] < f[j] BY <1>4 DEF Increasing, m
<1>6. t = [k \in 1 .. m |-> l[f[k]]] BY <1>4, <1>5
<1>7. t = [k \in 1 .. m |-> t[k]] BY <1>6
<1>8. IsList(t) /\ Len(t) = m BY <1>3, <1>7, FunctionIsList
<1>9. m <= n
  <2>1. f \in [1 .. m -> 1 .. n] BY <1>1, <1>5
  <2>2. \A i \in 1 .. m : i <= f[i] BY <1>1, <1>3, <1>5, <2>1, IncreasingGrows
  <2>3. CASE m = 0 BY <2>3, <1>1
  <2>4. CASE m # 0
    <3>1. m \in 1 .. m BY <2>4, <1>3
    <3>2. f[m] \in 1 .. n /\ m <= f[m] BY <3>1, <2>1, <2>2
    <3> QED BY <3>2, <1>1, <1>3
  <2> QED BY <2>3, <2>4
<1> QED BY <1>2, <1>5, <1>6, <1>8, <1>9 DEF m, n

\* Keeping every index keeps the list.
LEMMA AtAllIndices ==
  ASSUME NEW l, IsList(l), NEW t \in AtIndices(l, DOMAIN l) PROVE t = l
<1> DEFINE n == Len(l)
<1>1. n \in Nat /\ DOMAIN l = 1 .. n /\ l = [i \in 1 .. n |-> l[i]] BY ListsAre
<1>2. Cardinality(1 .. n) = n BY <1>1, FS_Interval
<1>3. IsList(t) /\ Len(t) = n BY <1>1, <1>2, AtIndicesAre
<1>4. PICK f \in [1 .. n -> 1 .. n] :
        (\A i, j \in 1 .. n : i < j => f[i] < f[j]) /\ \A k \in 1 .. n : t[k] = l[f[k]]
  BY <1>1, <1>3, AtIndicesAre
<1> HIDE DEF n
<1>5. \A i \in 1 .. n : f[i] = i BY <1>1, <1>4, IncreasingIsIdentity
<1>6. \A i \in 1 .. n : t[i] = l[i] BY <1>4, <1>5
<1>7. t = [i \in 1 .. n |-> t[i]] BY <1>3, ListsAre
<1> QED BY <1>1, <1>6, <1>7

-----------------------------------------------------------------------------

IsDevice(d) ==
  d = [uuid |-> d.uuid, cert |-> d.cert, perm |-> d.perm] /\ d.cert \in DrCerts /\ d.perm \in DrPerms

IsDevices(l) == IsList(l) /\ \A i \in 1 .. Len(l) : IsDevice(l[i])

OnePerCert(l) == \A i, j \in 1 .. Len(l) : l[i].cert = l[j].cert => i = j

IsSession(s) ==
  /\ DOMAIN s = {"uuid", "perm", "stopping"} /\ s = [x \in DOMAIN s |-> s[x]]
  /\ s.perm \in DrPerms /\ s.stopping \in BOOLEAN /\ (s.stopping \/ MayView(s.perm))

\* The list and the chain agree from the start, the file once it was written.
DrAgree ==
  /\ drFile.state # "torn" => drChain = drDevices
  /\ drFile.state = "good" => drFile.devices = drDevices

DrLists ==
  /\ IsDevices(drDevices) /\ Len(drDevices) <= DrMaxDevices
  /\ IsDevices(drChain) /\ OnePerCert(drChain)
  /\ IsDevices(drFile.devices) /\ Len(drFile.devices) <= DrMaxDevices /\ OnePerCert(drFile.devices)
  /\ drFile.state \in {"missing", "good", "old", "torn"}
  /\ DrAgree

DrStreams ==
  /\ drApp \in BOOLEAN
  /\ \A l \in drPending : l.perm \in DrPerms /\ MayView(l.perm)
  /\ \A s \in drSessions : IsSession(s)

DrInv == DrLists /\ DrStreams

\* Every entry of t is one of l, and none is there twice.
PartOf(t, l) ==
  /\ IsList(t) /\ Len(t) <= Len(l)
  /\ \E f \in [1 .. Len(t) -> 1 .. Len(l)] :
       (\A i, j \in 1 .. Len(t) : f[i] = f[j] => i = j) /\ \A k \in 1 .. Len(t) : t[k] = l[f[k]]

LEMMA AtIndicesPart ==
  ASSUME NEW l, IsList(l), NEW kept, kept \subseteq DOMAIN l, NEW t \in AtIndices(l, kept)
  PROVE  /\ PartOf(t, l)
         /\ kept # {} => t # << >>
         /\ \A k \in 1 .. Len(t) : \E i \in kept : t[k] = l[i]
<1>1. Len(l) \in Nat /\ DOMAIN l = 1 .. Len(l) BY ListsAre
<1>2. IsList(t) /\ Len(t) = Cardinality(kept) /\ Len(t) <= Len(l) /\ IsFiniteSet(kept) BY AtIndicesAre
<1>3. Len(t) \in Nat BY <1>2, ListsAre
<1>4. PICK f \in [1 .. Len(t) -> kept] :
        (\A i, j \in 1 .. Len(t) : i < j => f[i] < f[j]) /\ \A k \in 1 .. Len(t) : t[k] = l[f[k]]
  BY AtIndicesAre
<1>5. f \in [1 .. Len(t) -> 1 .. Len(l)] BY <1>1, <1>4
<1>6. ASSUME NEW i \in 1 .. Len(t), NEW j \in 1 .. Len(t), f[i] = f[j] PROVE i = j
  <2>1. f[i] \in 1 .. Len(l) /\ f[j] \in 1 .. Len(l) BY <1>5
  <2>2. ~(i < j) /\ ~(j < i) BY <1>4, <1>6, <2>1, <1>1
  <2> QED BY <2>2, <1>3
<1>7. PartOf(t, l) BY <1>2, <1>4, <1>5, <1>6 DEF PartOf
<1>8. ASSUME kept # {} PROVE t # << >>
  <2>1. Cardinality(kept) # 0 BY <1>2, <1>8, FS_EmptySet
  <2> QED BY <2>1, <1>2
<1>9. \A k \in 1 .. Len(t) : \E i \in kept : t[k] = l[i]
  <2> SUFFICES ASSUME NEW k \in 1 .. Len(t) PROVE \E i \in kept : t[k] = l[i] OBVIOUS
  <2>1. f[k] \in kept /\ t[k] = l[f[k]] BY <1>4
  <2> QED BY <2>1
<1> QED BY <1>7, <1>8, <1>9

LEMMA PartsAreDevices ==
  ASSUME NEW l, IsDevices(l), NEW t, PartOf(t, l) PROVE IsDevices(t) /\ (OnePerCert(l) => OnePerCert(t))
<1>1. PICK f \in [1 .. Len(t) -> 1 .. Len(l)] :
        (\A i, j \in 1 .. Len(t) : f[i] = f[j] => i = j) /\ \A k \in 1 .. Len(t) : t[k] = l[f[k]]
  BY DEF PartOf
<1>2. IsDevices(t) BY <1>1 DEF IsDevices, PartOf
<1>3. ASSUME OnePerCert(l), NEW i \in 1 .. Len(t), NEW j \in 1 .. Len(t), t[i].cert = t[j].cert PROVE i = j
  <2>1. f[i] \in 1 .. Len(l) /\ f[j] \in 1 .. Len(l) /\ l[f[i]].cert = l[f[j]].cert BY <1>1, <1>3
  <2>2. f[i] = f[j] BY <1>3, <2>1 DEF OnePerCert
  <2> QED BY <1>1, <2>2
<1> QED BY <1>2, <1>3 DEF OnePerCert

\* save_state writes one device per certificate, all when there is one each.
LEMMA FirstPerCertIs ==
  ASSUME NEW l, IsDevices(l), NEW t \in FirstPerCert(l)
  PROVE  /\ PartOf(t, l) /\ OnePerCert(t) /\ IsDevices(t) /\ (l # << >> => t # << >>)
         /\ OnePerCert(l) => t = l
         /\ \A k \in 1 .. Len(t) : \E i \in 1 .. Len(l) : t[k] = l[i] /\ \A j \in 1 .. (i - 1) : l[j].cert # l[i].cert
<1> DEFINE kept == {i \in DOMAIN l : \A j \in 1 .. (i - 1) : l[j].cert # l[i].cert}
<1>1. IsList(l) /\ Len(l) \in Nat /\ DOMAIN l = 1 .. Len(l) BY ListsAre DEF IsDevices
<1>2. t \in AtIndices(l, kept) /\ kept \subseteq DOMAIN l BY DEF FirstPerCert
<1>3. \A i, j \in kept : l[i].cert = l[j].cert => i = j
  <2> SUFFICES ASSUME NEW i \in kept, NEW j \in kept, l[i].cert = l[j].cert PROVE i = j OBVIOUS
  <2>1. i \in 1 .. Len(l) /\ j \in 1 .. Len(l) BY <1>1
  <2>2. ~(i < j) /\ ~(j < i) BY <2>1
  <2> QED BY <2>1, <2>2
<1>4. l # << >> => 1 \in kept
  <2> SUFFICES ASSUME l # << >> PROVE 1 \in kept OBVIOUS
  <2>1. Len(l) # 0
    <3> SUFFICES ASSUME Len(l) = 0 PROVE FALSE OBVIOUS
    <3>1. l = [i \in 1 .. 0 |-> l[i]] BY <1>1, ListsAre
    <3> QED BY <3>1
  <2> QED BY <1>1, <2>1
<1>5. OnePerCert(l) => kept = DOMAIN l
  <2> SUFFICES ASSUME OnePerCert(l), NEW i \in DOMAIN l, NEW j \in 1 .. (i - 1) PROVE l[j].cert # l[i].cert OBVIOUS
  <2>1. i \in 1 .. Len(l) /\ j \in 1 .. Len(l) /\ i # j BY <1>1
  <2> QED BY <2>1 DEF OnePerCert
<1>6. \A i \in kept : i \in 1 .. Len(l) /\ \A j \in 1 .. (i - 1) : l[j].cert # l[i].cert BY <1>1
<1> HIDE DEF kept
<1>7. PartOf(t, l) /\ (kept # {} => t # << >>) /\ \A k \in 1 .. Len(t) : \E i \in kept : t[k] = l[i]
  BY <1>1, <1>2, AtIndicesPart
<1>8. IsDevices(t) BY <1>7, PartsAreDevices
<1>9. OnePerCert(t)
  <2>1. PICK f \in [1 .. Len(t) -> kept] :
          (\A i, j \in 1 .. Len(t) : i < j => f[i] < f[j]) /\ \A k \in 1 .. Len(t) : t[k] = l[f[k]]
    BY <1>1, <1>2, AtIndicesAre
  <2> SUFFICES ASSUME NEW i \in 1 .. Len(t), NEW j \in 1 .. Len(t), t[i].cert = t[j].cert PROVE i = j
    BY DEF OnePerCert
  <2>2. f[i] = f[j] BY <2>1, <1>3
  <2>3. f[i] \in 1 .. Len(l) BY <2>1, <1>6
  <2>4. ~(i < j) /\ ~(j < i) BY <2>1, <2>2, <2>3, <1>1
  <2>5. Len(t) \in Nat BY <1>8, ListsAre DEF IsDevices
  <2> QED BY <2>4, <2>5
<1>10. OnePerCert(l) => t = l BY <1>1, <1>2, <1>5, AtAllIndices
<1> QED BY <1>4, <1>6, <1>7, <1>8, <1>9, <1>10

\* load_state makes devices of what the file holds, in its order.
LEMMA LoadedListIs ==
  ASSUME NEW file, IsDevices(file.devices), OnePerCert(file.devices)
  PROVE  /\ IsDevices(LoadedList(file)) /\ OnePerCert(LoadedList(file)) /\ Len(LoadedList(file)) = Len(file.devices)
         /\ file.state # "old" => LoadedList(file) = file.devices
<1>1. CASE file.state # "old" BY <1>1 DEF LoadedList
<1>2. CASE file.state = "old"
  <2> DEFINE l == file.devices
             n == Len(l)
             t == LoadedList(file)
  <2>1. n \in Nat /\ DOMAIN l = 1 .. n BY ListsAre DEF IsDevices
  <2>2. t = [i \in 1 .. n |-> [l[i] EXCEPT !.uuid = i, !.perm = "all"]] BY <1>2, <2>1 DEF LoadedList
  <2>3. \A i \in 1 .. n : t[i] = [l[i] EXCEPT !.uuid = i, !.perm = "all"] BY <2>2
  <2>4. t = [i \in 1 .. n |-> t[i]] BY <2>2
  <2> HIDE DEF t
  <2>5. IsList(t) /\ Len(t) = n BY <2>1, <2>4, FunctionIsList
  <2>6. ASSUME NEW i \in 1 .. n PROVE IsDevice(t[i]) /\ t[i].cert = l[i].cert
    <3>1. IsDevice(l[i]) BY DEF IsDevices
    <3>2. t[i] = [uuid |-> i, cert |-> l[i].cert, perm |-> "all"] BY <2>3, <3>1 DEF IsDevice
    <3>3. t[i].uuid = i /\ t[i].cert = l[i].cert /\ t[i].perm = "all" BY <3>2
    <3> QED BY <3>1, <3>2, <3>3 DEF IsDevice, DrPerms
  <2>7. IsDevices(t) /\ OnePerCert(t) BY <2>5, <2>6 DEF IsDevices, OnePerCert
  <2> QED BY <1>2, <2>5, <2>7 DEF t
<1> QED BY <1>1, <1>2

LEMMA EmptyList == IsDevices(<< >>) /\ OnePerCert(<< >>) /\ Len(<< >>) = 0
<1>1. << >> \in Seq({<< >>[i] : i \in DOMAIN << >>}) OBVIOUS
<1> QED BY <1>1 DEF IsDevices, IsList, OnePerCert

\* save_state and load_state of a list: it is whole, or the file is lost.
LEMMA SaveAndLoadKeeps ==
  ASSUME DrLists, NEW devices, IsDevices(devices), Len(devices) <= DrMaxDevices,
         NEW chain, IsDevices(chain), OnePerCert(chain), NEW written, SaveAndLoad(devices, chain, written)
  PROVE  /\ DrLists'
         /\ \/ drFile'.state = "torn" /\ drDevices' = devices
            \/ drFile'.state = "good" /\ drDevices' \in FirstPerCert(devices)
<1>1. SaveState(devices, written) /\ LoadState(drFile', devices, chain) BY DEF SaveAndLoad
<1>2. CASE drFile.state = "torn" /\ UNCHANGED drFile
  BY <1>1, <1>2 DEF LoadState, DrLists, DrAgree
<1>3. CASE drFile' = [state |-> "torn", devices |-> << >>]
  <2>1. drFile'.state = "torn" /\ drFile'.devices = << >> BY <1>3
  <2>2. drDevices' = devices /\ drChain' = chain BY <1>1, <2>1 DEF LoadState
  <2>3. Len(<< >>) <= DrMaxDevices BY DrAssumption, EmptyList
  <2> QED BY <2>1, <2>2, <2>3, EmptyList DEF DrLists, DrAgree
<1>4. ASSUME NEW list \in FirstPerCert(devices), drFile' = [state |-> "good", devices |-> list]
      PROVE  DrLists' /\ drFile'.state = "good" /\ drDevices' \in FirstPerCert(devices)
  <2>1. drFile'.state = "good" /\ drFile'.devices = list BY <1>4
  <2>2. drDevices' = list /\ drChain' = list BY <1>1, <2>1 DEF LoadState, LoadedList
  <2>3. PartOf(list, devices) /\ IsDevices(list) /\ OnePerCert(list) BY <1>4, FirstPerCertIs
  <2>4. Len(list) \in Nat /\ Len(devices) \in Nat BY <2>3, ListsAre DEF IsDevices
  <2>5. Len(list) <= DrMaxDevices BY <2>3, <2>4, DrAssumption DEF PartOf
  <2> QED BY <2>1, <2>2, <2>3, <2>5, <1>4 DEF DrLists, DrAgree
<1> QED BY <1>1, <1>2, <1>3, <1>4 DEF SaveState, LoadState

LEMMA PairingPermIs == ASSUME NEW how \in {"pin", "operate", "observe"} PROVE PairingPerm(how) \in DrPerms
BY DEF PairingPerm, DrPerms

\* What a device that pairs again keeps: the entry it had.
LEMMA PairingKeeps ==
  ASSUME DrLists, NEW cert \in DrCerts, NEW how \in {"pin", "operate", "observe"}, NEW written,
         AddAuthorizedClient(cert, how, written)
  PROVE  DrLists' /\ RepairingGrantsNothing /\ drDevices' # << >>
<1> DEFINE new == [uuid |-> NewUuid, cert |-> cert, perm |-> PairingPerm(how)]
           devices == Append(drDevices, new)
           n == Len(drDevices)
<1>1. IsList(drDevices) /\ n \in Nat /\ n < DrMaxDevices /\ SaveAndLoad(devices, drChain, written)
  BY ListsAre DEF DrLists, IsDevices, AddAuthorizedClient
<1>2. IsDevice(new)
  <2> DEFINE u == NewUuid
             p == PairingPerm(how)
  <2>1. p \in DrPerms BY PairingPermIs
  <2> HIDE DEF u, p
  <2>2. new.uuid = u /\ new.cert = cert /\ new.perm = p BY DEF u, p
  <2> QED BY <2>1, <2>2 DEF IsDevice, u, p
<1> HIDE DEF new
<1>3. /\ IsList(devices) /\ Len(devices) = n + 1 /\ devices[n + 1] = new
      /\ \A i \in 1 .. n : devices[i] = drDevices[i]
  BY <1>1, AppendIsList
<1> HIDE DEF devices
<1>4. IsDevices(devices)
  <2> SUFFICES ASSUME NEW i \in 1 .. n + 1 PROVE IsDevice(devices[i]) BY <1>3 DEF IsDevices
  <2>1. CASE i = n + 1 BY <1>2, <1>3, <2>1
  <2>2. CASE i # n + 1
    <3>1. i \in 1 .. n BY <2>2, <1>1
    <3> QED BY <3>1, <1>3 DEF DrLists, IsDevices
  <2> QED BY <2>1, <2>2
<1>5. Len(devices) <= DrMaxDevices BY <1>1, <1>3, DrAssumption
<1>6. DrLists' /\ ((drFile'.state = "torn" /\ drDevices' = devices)
                   \/ (drFile'.state = "good" /\ drDevices' \in FirstPerCert(devices)))
  BY <1>1, <1>4, <1>5, SaveAndLoadKeeps DEF DrLists
<1>7. devices # << >> BY <1>1, <1>3, EmptyList
<1>8. drDevices' # << >> BY <1>4, <1>6, <1>7, FirstPerCertIs
<1>9. RepairingGrantsNothing
  <2> SUFFICES ASSUME NEW i \in DOMAIN drDevices, NEW j \in DOMAIN drDevices',
                      drFile.state = "good", drFile'.state = "good",
                      drDevices[i].cert = drDevices'[j].cert, drDevices[i].perm # drDevices'[j].perm
               PROVE  FALSE
    BY DEF RepairingGrantsNothing
  <2>1. drDevices' \in FirstPerCert(devices) BY <1>6
  <2>2. i \in 1 .. n /\ j \in 1 .. Len(drDevices')
    BY <1>1, <1>6, ListsAre DEF DrLists, IsDevices
  <2>3. PICK k \in 1 .. n + 1 : drDevices'[j] = devices[k] /\ \A m \in 1 .. (k - 1) : devices[m].cert # devices[k].cert
    <3>1. \A t \in FirstPerCert(devices) : \A k \in 1 .. Len(t) : \E x \in 1 .. Len(devices) :
            t[k] = devices[x] /\ \A m \in 1 .. (x - 1) : devices[m].cert # devices[x].cert
      BY <1>4, FirstPerCertIs
    <3> QED BY <3>1, <2>1, <2>2, <1>3
  <2>4. devices[i] = drDevices[i] BY <2>2, <1>3
  <2>5. ~(i \in 1 .. (k - 1)) BY <2>3, <2>4
  <2>6. k \in 1 .. n /\ drDevices'[j] = drDevices[k] BY <2>2, <2>3, <2>5, <1>1, <1>3
  <2>7. OnePerCert(drDevices) BY DEF DrLists, DrAgree
  <2>8. k = i BY <2>2, <2>6, <2>7 DEF OnePerCert
  <2> QED BY <2>6, <2>8
<1> QED BY <1>6, <1>8, <1>9

LEMMA SetPermIs ==
  ASSUME NEW l, IsDevices(l), NEW uuid, NEW perm \in DrPerms
  PROVE  LET t == SetPerm(l, uuid, perm)
         IN  /\ IsDevices(t) /\ Len(t) = Len(l) /\ (OnePerCert(l) => OnePerCert(t)) /\ (l # << >> => t # << >>)
             /\ \A i \in 1 .. Len(l) : t[i].cert = l[i].cert /\ t[i].uuid = l[i].uuid
<1> DEFINE t == SetPerm(l, uuid, perm)
           n == Len(l)
<1>1. n \in Nat /\ DOMAIN l = 1 .. n /\ IsList(l) BY ListsAre DEF IsDevices
<1>2. t = [i \in 1 .. n |-> IF l[i].uuid = uuid THEN [l[i] EXCEPT !.perm = perm] ELSE l[i]] BY <1>1 DEF SetPerm
<1>3. \A i \in 1 .. n : t[i] = IF l[i].uuid = uuid THEN [l[i] EXCEPT !.perm = perm] ELSE l[i] BY <1>2
<1>4. t = [i \in 1 .. n |-> t[i]] BY <1>2
<1> HIDE DEF t
<1>5. IsList(t) /\ Len(t) = n BY <1>1, <1>4, FunctionIsList
<1>6. ASSUME NEW i \in 1 .. n PROVE IsDevice(t[i]) /\ t[i].cert = l[i].cert /\ t[i].uuid = l[i].uuid
  <2>1. IsDevice(l[i]) BY DEF IsDevices
  <2>2. CASE l[i].uuid # uuid BY <1>3, <2>1, <2>2
  <2>3. CASE l[i].uuid = uuid
    <3>1. t[i] = [uuid |-> l[i].uuid, cert |-> l[i].cert, perm |-> perm] BY <1>3, <2>1, <2>3 DEF IsDevice
    <3>2. t[i].uuid = l[i].uuid /\ t[i].cert = l[i].cert /\ t[i].perm = perm BY <3>1
    <3> QED BY <3>1, <3>2, <2>1 DEF IsDevice
  <2> QED BY <2>2, <2>3
<1>7. IsDevices(t) /\ (OnePerCert(l) => OnePerCert(t)) BY <1>5, <1>6 DEF IsDevices, OnePerCert
<1>8. l # << >> => t # << >>
  <2> SUFFICES ASSUME t = << >> PROVE l = << >> OBVIOUS
  <2>1. n = 0 BY <1>5, EmptyList
  <2>2. l = [i \in 1 .. 0 |-> l[i]] BY <2>1, <1>1, ListsAre
  <2> QED BY <2>2
<1> QED BY <1>5, <1>6, <1>7, <1>8 DEF t

LEMMA UpdateKeeps ==
  ASSUME DrInv, NEW uuid, NEW perm \in DrPerms, NEW written, UpdateDeviceInfo(uuid, perm, written)
  PROVE  DrInv' /\ RepairingGrantsNothing /\ (drDevices # << >> => drDevices' # << >>)
<1> DEFINE list == SetPerm(drDevices, uuid, perm)
           chain == SetPerm(drChain, uuid, perm)
<1>1. drDevices' = list /\ drChain' = chain /\ SaveState(drDevices', written) /\ UNCHANGED <<drPending, drApp>>
  BY DEF UpdateDeviceInfo
<1>2. /\ IsDevices(list) /\ Len(list) = Len(drDevices) /\ (OnePerCert(drDevices) => OnePerCert(list))
      /\ (drDevices # << >> => list # << >>)
      /\ \A i \in 1 .. Len(drDevices) : list[i].cert = drDevices[i].cert /\ list[i].uuid = drDevices[i].uuid
  BY SetPermIs DEF DrInv, DrLists
<1>3. IsDevices(chain) /\ OnePerCert(chain) BY SetPermIs DEF DrInv, DrLists
<1>3a. drFile.state # "torn" => chain = list /\ OnePerCert(drDevices) BY DEF DrInv, DrLists, DrAgree
<1> HIDE DEF list, chain
<1>4. DrLists'
  <2>1. SaveState(list, written) BY <1>1
  <2>2. CASE drFile.state = "torn" /\ UNCHANGED drFile
    BY <2>2, <1>1, <1>2, <1>3 DEF DrInv, DrLists, DrAgree
  <2>3. CASE drFile' = [state |-> "torn", devices |-> << >>]
    <3>1. drFile'.state = "torn" /\ drFile'.devices = << >> BY <2>3
    <3>2. Len(<< >>) <= DrMaxDevices BY DrAssumption, EmptyList
    <3> QED BY <3>1, <3>2, <1>1, <1>2, <1>3, EmptyList DEF DrInv, DrLists, DrAgree
  <2>4. ASSUME drFile.state # "torn", NEW saved \in FirstPerCert(list), drFile' = [state |-> "good", devices |-> saved]
        PROVE  DrLists'
    <3>1. drFile'.state = "good" /\ drFile'.devices = saved BY <2>4
    <3>2. OnePerCert(list) /\ chain = list BY <2>4, <1>2, <1>3a
    <3>3. saved = list BY <2>4, <3>2, <1>2, FirstPerCertIs
    <3> QED BY <3>1, <3>2, <3>3, <1>1, <1>2 DEF DrInv, DrLists, DrAgree
  <2> QED BY <2>1, <2>2, <2>3, <2>4 DEF SaveState
<1>5. \A s \in drSessions' : IsSession(s)
  <2>1. CASE UNCHANGED drSessions BY <2>1 DEF DrInv, DrStreams
  <2>2. ASSUME NEW s \in drSessions, drSessions' = Replaced({s}, {UpdateSession(s, perm)}) PROVE \A x \in drSessions' : IsSession(x)
    <3> DEFINE u == UpdateSession(s, perm)
    <3>1. IsSession(s) BY DEF DrInv, DrStreams
    <3>2. DOMAIN u = {"uuid", "perm", "stopping"} /\ u = [x \in DOMAIN u |-> u[x]]
      BY <3>1 DEF IsSession, UpdateSession
    <3>3. u.perm = perm /\ u.stopping = (s.stopping \/ ~MayView(perm)) BY <3>1 DEF IsSession, UpdateSession
    <3> HIDE DEF u
    <3>4. u.stopping \in BOOLEAN /\ (u.stopping \/ MayView(u.perm)) BY <3>3
    <3>5. IsSession(u) BY <3>2, <3>3, <3>4 DEF IsSession
    <3>6. drSessions' = (drSessions \ {s}) \cup {u} BY <2>2 DEF Replaced, u
    <3> QED BY <3>5, <3>6 DEF DrInv, DrStreams
  <2> QED BY <2>1, <2>2 DEF UpdateDeviceInfo, FindSession
<1>6. DrInv' BY <1>1, <1>4, <1>5 DEF DrInv, DrStreams
<1>7. RepairingGrantsNothing
  <2> SUFFICES ASSUME NEW i \in DOMAIN drDevices, NEW j \in DOMAIN drDevices', drFile.state = "good",
                      drDevices[i].cert = drDevices'[j].cert
               PROVE  Len(drDevices) = Len(drDevices') /\ drDevices[i].uuid = drDevices'[j].uuid
    BY DEF RepairingGrantsNothing
  <2>1. i \in 1 .. Len(drDevices) /\ j \in 1 .. Len(drDevices)
    BY <1>1, <1>2, ListsAre DEF DrInv, DrLists, IsDevices
  <2>2. drDevices[j].cert = drDevices[i].cert BY <2>1, <1>1, <1>2
  <2>3. i = j BY <2>1, <2>2, <1>3a DEF OnePerCert
  <2> QED BY <2>1, <2>3, <1>1, <1>2
<1> QED BY <1>1, <1>2, <1>6, <1>7

\* unpair_client removes entries and changes none.
LEMMA UnpairKeeps ==
  ASSUME DrInv, NEW uuid, NEW written, UnpairClient(uuid, written)
  PROVE  DrInv' /\ RepairingGrantsNothing /\ (drDevices' = << >> => ~drApp')
<1>1. PICK rest \in Dropping(drDevices, uuid) : SaveAndLoad(rest, drChain, written) BY DEF UnpairClient
<1> DEFINE kept == {i \in DOMAIN drDevices : drDevices[i].uuid # uuid}
<1>2. IsList(drDevices) /\ Len(drDevices) \in Nat /\ DOMAIN drDevices = 1 .. Len(drDevices)
  BY ListsAre DEF DrInv, DrLists, IsDevices
<1>3. rest \in AtIndices(drDevices, kept) /\ kept \subseteq DOMAIN drDevices BY <1>1 DEF Dropping
<1> HIDE DEF kept
<1>4. PartOf(rest, drDevices) BY <1>2, <1>3, AtIndicesPart
<1>5. IsDevices(rest) /\ (OnePerCert(drDevices) => OnePerCert(rest))
  BY <1>4, PartsAreDevices DEF DrInv, DrLists
<1>6. Len(rest) \in Nat BY <1>5, ListsAre DEF IsDevices
<1>7. Len(rest) <= DrMaxDevices BY <1>2, <1>4, <1>6, DrAssumption DEF DrInv, DrLists, PartOf
<1>8. DrLists' /\ ((drFile'.state = "torn" /\ drDevices' = rest)
                   \/ (drFile'.state = "good" /\ drDevices' \in FirstPerCert(rest)))
  BY <1>1, <1>5, <1>7, SaveAndLoadKeeps DEF DrInv, DrLists
<1>9. \A s \in drSessions' : IsSession(s)
  <2>1. CASE UNCHANGED drSessions BY <2>1 DEF DrInv, DrStreams
  <2>2. ASSUME NEW s \in drSessions, drSessions' = Replaced({s}, {[s EXCEPT !.stopping = TRUE]})
        PROVE  \A x \in drSessions' : IsSession(x)
    <3> DEFINE u == [s EXCEPT !.stopping = TRUE]
    <3>1. IsSession(s) BY DEF DrInv, DrStreams
    <3>2. DOMAIN u = {"uuid", "perm", "stopping"} /\ u = [x \in DOMAIN u |-> u[x]] BY <3>1 DEF IsSession
    <3>3. u.perm = s.perm /\ u.stopping = TRUE BY <3>1 DEF IsSession
    <3> HIDE DEF u
    <3>4. IsSession(u) BY <3>1, <3>2, <3>3 DEF IsSession
    <3>5. drSessions' = (drSessions \ {s}) \cup {u} BY <2>2 DEF Replaced, u
    <3> QED BY <3>4, <3>5 DEF DrInv, DrStreams
  <2> QED BY <2>1, <2>2 DEF UnpairClient, FindSession
<1>10. drApp' = (drApp /\ drDevices' # << >>) /\ UNCHANGED drPending BY DEF UnpairClient
<1>11. DrInv' BY <1>8, <1>9, <1>10 DEF DrInv, DrStreams
<1>12. RepairingGrantsNothing
  <2> SUFFICES ASSUME NEW i \in DOMAIN drDevices, NEW j \in DOMAIN drDevices',
                      drFile.state = "good", drFile'.state = "good",
                      drDevices[i].cert = drDevices'[j].cert, drDevices[i].perm # drDevices'[j].perm
               PROVE  FALSE
    BY DEF RepairingGrantsNothing
  <2>1. OnePerCert(drDevices) BY DEF DrInv, DrLists, DrAgree
  <2>2. drDevices' = rest BY <1>5, <1>8, <2>1, FirstPerCertIs
  <2>3. i \in 1 .. Len(drDevices) /\ j \in 1 .. Len(rest)
    BY <2>2, <1>2, <1>5, ListsAre DEF IsDevices
  <2>4. PICK k \in 1 .. Len(drDevices) : rest[j] = drDevices[k] BY <2>3, <1>4 DEF PartOf
  <2>5. k = i BY <2>1, <2>2, <2>3, <2>4 DEF OnePerCert
  <2> QED BY <2>2, <2>4, <2>5
<1> QED BY <1>10, <1>11, <1>12

LEMMA DrOtherSteps ==
  ASSUME DrInv, \/ \E cert \in DrCerts : Launch(cert)
                \/ \E l \in drPending : SessionStarts(l) \/ LaunchDropped(l)
                \/ \E s \in drSessions : SessionEnds(s)
                \/ UNCHANGED drVars
  PROVE  DrInv' /\ UNCHANGED <<drDevices, drFile>>
<1>1. UNCHANGED <<drDevices, drChain, drFile>>
  BY DEF Launch, SessionStarts, LaunchDropped, SessionEnds, drVars
<1>2. DrLists' BY <1>1 DEF DrInv, DrLists, DrAgree
<1>3. DrStreams'
  <2>1. CASE \E cert \in DrCerts : Launch(cert)
    <3>1. PICK cert \in DrCerts : Launch(cert) BY <2>1
    <3>2. PICK d \in Verified(cert) :
            /\ IF drApp THEN MayView(d.perm) ELSE MayLaunch(d.perm)
            /\ drPending' = drPending \cup {[uuid |-> d.uuid, perm |-> d.perm]}
            /\ drApp' = TRUE /\ UNCHANGED drSessions
      BY <3>1 DEF Launch
    <3>3. d.perm \in DrPerms
      BY <3>2, ListsAre DEF Verified, DrInv, DrLists, IsDevices, IsDevice
    <3>4. MayView(d.perm) BY <3>2 DEF MayView, MayLaunch
    <3> QED BY <3>2, <3>3, <3>4 DEF DrInv, DrStreams
  <2>2. ASSUME NEW l \in drPending, SessionStarts(l) PROVE DrStreams'
    <3> DEFINE s == [uuid |-> l.uuid, perm |-> l.perm, stopping |-> FALSE]
    <3>1. s.uuid = l.uuid /\ s.perm = l.perm /\ s.stopping = FALSE OBVIOUS
    <3>2. DOMAIN s = {"uuid", "perm", "stopping"} /\ s = [x \in DOMAIN s |-> s[x]] OBVIOUS
    <3>3. /\ drPending' = drPending \ {l} /\ drSessions' = drSessions \cup {s} /\ UNCHANGED drApp
      BY <2>2 DEF SessionStarts
    <3> HIDE DEF s
    <3>4. IsSession(s) BY <3>1, <3>2 DEF DrInv, DrStreams, IsSession
    <3> QED BY <3>3, <3>4 DEF DrInv, DrStreams
  <2>3. ASSUME NEW l \in drPending, LaunchDropped(l) PROVE DrStreams' BY <2>3 DEF LaunchDropped, DrInv, DrStreams
  <2>4. ASSUME NEW s \in drSessions, SessionEnds(s) PROVE DrStreams' BY <2>4 DEF SessionEnds, DrInv, DrStreams
  <2>5. CASE UNCHANGED drVars BY <2>5 DEF drVars, DrInv, DrStreams
  <2> QED BY <2>1, <2>2, <2>3, <2>4, <2>5
<1> QED BY <1>1, <1>2, <1>3 DEF DrInv

LEMMA RestartKeeps ==
  ASSUME DrInv, Restart PROVE DrInv' /\ RepairingGrantsNothing /\ ~drApp'
<1>1. /\ LoadState(drFile, << >>, << >>) /\ UNCHANGED drFile
      /\ drPending' = {} /\ drSessions' = {} /\ drApp' = FALSE
  BY DEF Restart
<1>2. DrStreams' BY <1>1 DEF DrStreams
<1> DEFINE loaded == LoadedList(drFile)
<1>3. /\ IsDevices(loaded) /\ OnePerCert(loaded) /\ Len(loaded) = Len(drFile.devices)
      /\ drFile.state # "old" => loaded = drFile.devices
  BY LoadedListIs DEF DrInv, DrLists
<1>4. CASE drFile.state \in {"good", "old"}
  <2>1. drDevices' = loaded /\ drChain' = loaded BY <1>1, <1>4 DEF LoadState
  <2> HIDE DEF loaded
  <2>2. DrLists' BY <1>1, <1>3, <1>4, <2>1 DEF DrInv, DrLists, DrAgree
  <2>3. RepairingGrantsNothing
    <3> SUFFICES ASSUME NEW i \in DOMAIN drDevices, NEW j \in DOMAIN drDevices', drFile.state = "good",
                        drDevices[i].cert = drDevices'[j].cert, drDevices[i].perm # drDevices'[j].perm
                 PROVE  FALSE
      BY DEF RepairingGrantsNothing
    <3>1. drDevices' = drDevices /\ OnePerCert(drDevices) BY <1>3, <2>1 DEF DrInv, DrLists, DrAgree
    <3>2. i \in 1 .. Len(drDevices) /\ j \in 1 .. Len(drDevices) BY <3>1, ListsAre DEF DrInv, DrLists, IsDevices
    <3>3. i = j BY <3>1, <3>2 DEF OnePerCert
    <3> QED BY <3>1, <3>3
  <2> QED BY <1>1, <1>2, <2>2, <2>3 DEF DrInv
<1>5. CASE ~(drFile.state \in {"good", "old"})
  <2>1. drDevices' = << >> /\ drChain' = << >> BY <1>1, <1>5 DEF LoadState
  <2>2. Len(<< >>) <= DrMaxDevices BY DrAssumption, EmptyList
  <2>3. DrLists' BY <1>1, <1>5, <2>1, <2>2, EmptyList DEF DrInv, DrLists, DrAgree
  <2> QED BY <1>1, <1>2, <1>5, <2>3 DEF DrInv, RepairingGrantsNothing
<1> QED BY <1>4, <1>5

LEMMA UnpairAllKeeps ==
  ASSUME DrInv, NEW written, UnpairAll(written) PROVE DrInv' /\ RepairingGrantsNothing /\ ~drApp'
<1>1. SaveAndLoad(<< >>, << >>, written) /\ drApp' = FALSE /\ UNCHANGED <<drPending, drSessions>> BY DEF UnpairAll
<1>2. Len(<< >>) <= DrMaxDevices BY DrAssumption, EmptyList
<1>3. DrLists' /\ (drDevices' = << >> \/ drDevices' \in FirstPerCert(<< >>))
  BY <1>1, <1>2, EmptyList, SaveAndLoadKeeps DEF DrInv
<1>4. drDevices' = << >> BY <1>3, EmptyList, FirstPerCertIs
<1>5. DrStreams' BY <1>1 DEF DrInv, DrStreams
<1> QED BY <1>1, <1>3, <1>4, <1>5 DEF DrInv, RepairingGrantsNothing

LEMMA DrInvStep == DrInv /\ [DrNext]_drVars => DrInv' /\ RepairingGrantsNothing /\ LastDeviceEndsApp
<1> SUFFICES ASSUME DrInv, [DrNext]_drVars PROVE DrInv' /\ RepairingGrantsNothing /\ LastDeviceEndsApp OBVIOUS
<1>1. ASSUME NEW written \in BOOLEAN, DrChange(written) PROVE DrInv' /\ RepairingGrantsNothing /\ LastDeviceEndsApp
  <2>1. ASSUME NEW cert \in DrCerts, NEW how \in {"pin", "operate", "observe"}, AddAuthorizedClient(cert, how, written)
        PROVE  DrInv' /\ RepairingGrantsNothing /\ LastDeviceEndsApp
    <3>1. DrLists' /\ RepairingGrantsNothing /\ drDevices' # << >> BY <2>1, PairingKeeps DEF DrInv
    <3>2. UNCHANGED <<drPending, drSessions, drApp>> BY <2>1 DEF AddAuthorizedClient
    <3> QED BY <3>1, <3>2 DEF DrInv, DrStreams, LastDeviceEndsApp
  <2>2. ASSUME NEW uuid, NEW perm \in DrPerms, UpdateDeviceInfo(uuid, perm, written)
        PROVE  DrInv' /\ RepairingGrantsNothing /\ LastDeviceEndsApp
    BY <2>2, UpdateKeeps DEF LastDeviceEndsApp
  <2>3. ASSUME NEW uuid, UnpairClient(uuid, written)
        PROVE  DrInv' /\ RepairingGrantsNothing /\ LastDeviceEndsApp
    BY <2>3, UnpairKeeps DEF LastDeviceEndsApp
  <2>4. CASE UnpairAll(written) BY <2>4, UnpairAllKeeps DEF LastDeviceEndsApp
  <2> QED BY <1>1, <2>1, <2>2, <2>3, <2>4 DEF DrChange, DeviceDelete
<1>2. CASE Restart BY <1>2, RestartKeeps DEF LastDeviceEndsApp
<1>3. CASE \/ \E cert \in DrCerts : Launch(cert)
           \/ \E l \in drPending : SessionStarts(l) \/ LaunchDropped(l)
           \/ \E s \in drSessions : SessionEnds(s)
           \/ UNCHANGED drVars
  <2>1. DrInv' /\ UNCHANGED <<drDevices, drFile>> BY <1>3, DrOtherSteps
  <2>2. LastDeviceEndsApp BY <2>1 DEF LastDeviceEndsApp
  <2>3. RepairingGrantsNothing
    <3> SUFFICES ASSUME NEW i \in DOMAIN drDevices, NEW j \in DOMAIN drDevices, drFile.state = "good",
                        drDevices[i].cert = drDevices[j].cert, drDevices[i].perm # drDevices[j].perm
                 PROVE  FALSE
      BY <2>1 DEF RepairingGrantsNothing
    <3>1. OnePerCert(drDevices) BY DEF DrInv, DrLists, DrAgree
    <3>2. i \in 1 .. Len(drDevices) /\ j \in 1 .. Len(drDevices) BY ListsAre DEF DrInv, DrLists, IsDevices
    <3> QED BY <3>1, <3>2 DEF OnePerCert
  <2> QED BY <2>1, <2>2, <2>3
<1> QED BY <1>1, <1>2, <1>3 DEF DrNext

LEMMA DrInvInit == DrInit => DrInv
<1> SUFFICES ASSUME DrInit PROVE DrInv OBVIOUS
<1>1. /\ IsDevices(drFile.devices) /\ Len(drFile.devices) <= DrMaxDevices /\ OnePerCert(drFile.devices)
      /\ drFile.state \in {"missing", "old"} /\ (drFile.state = "missing" => drFile.devices = << >>)
  <2>1. CASE drFile = [state |-> "missing", devices |-> << >>]
    <3>1. drFile.state = "missing" /\ drFile.devices = << >> BY <2>1
    <3>2. Len(<< >>) <= DrMaxDevices BY DrAssumption, EmptyList
    <3> QED BY <3>1, <3>2, EmptyList
  <2>2. ASSUME NEW c \in DrCerts, drFile = [state |-> "old", devices |-> <<[uuid |-> 0, cert |-> c, perm |-> "all"]>>]
        PROVE  /\ IsDevices(drFile.devices) /\ Len(drFile.devices) <= DrMaxDevices /\ OnePerCert(drFile.devices)
               /\ drFile.state = "old"
    <3> DEFINE d == [uuid |-> 0, cert |-> c, perm |-> "all"]
               l == <<d>>
    <3>1. drFile.state = "old" /\ drFile.devices = l BY <2>2
    <3>2. d.uuid = 0 /\ d.cert = c /\ d.perm = "all" OBVIOUS
    <3>3. IsDevice(d) BY <3>2 DEF IsDevice, DrPerms
    <3> HIDE DEF d
    <3>4. Len(l) = 1 /\ DOMAIN l = 1 .. 1 /\ l[1] = d /\ l = [i \in 1 .. 1 |-> l[i]] OBVIOUS
    <3> HIDE DEF l
    <3>5. IsList(l) BY <3>4, FunctionIsList
    <3>6. IsDevices(l) /\ OnePerCert(l) /\ Len(l) <= DrMaxDevices
      BY <3>3, <3>4, <3>5, DrAssumption DEF IsDevices, OnePerCert
    <3> QED BY <3>1, <3>6
  <2> QED BY <2>1, <2>2 DEF DrInit, DrFiles
<1>2. /\ IsDevices(LoadedList(drFile)) /\ OnePerCert(LoadedList(drFile))
      /\ Len(LoadedList(drFile)) = Len(drFile.devices)
  BY <1>1, LoadedListIs
<1>3. DrLists BY <1>1, <1>2 DEF DrInit, DrLists, DrAgree
<1>4. DrStreams BY DEF DrInit, DrStreams
<1> QED BY <1>3, <1>4 DEF DrInv

LEMMA DrInvHolds == DrInv => RegistryConsistent
<1> SUFFICES ASSUME DrInv PROVE RegistryConsistent OBVIOUS
<1>1. DOMAIN drDevices = 1 .. Len(drDevices) /\ DOMAIN drChain = 1 .. Len(drChain)
  BY ListsAre DEF DrInv, DrLists, IsDevices
<1>2. DrTypeOK BY <1>1 DEF DrInv, DrLists, DrStreams, DrTypeOK, IsDevices, IsDevice, IsSession
<1>3. RegistryAgrees BY DEF DrInv, DrLists, DrAgree, RegistryAgrees
<1>4. OneDevicePerCert BY <1>1 DEF DrInv, DrLists, OnePerCert, OneDevicePerCert
<1>5. StreamsMayBeViewed BY DEF DrInv, DrStreams, IsSession, StreamsMayBeViewed
<1> QED BY <1>2, <1>3, <1>4, <1>5 DEF RegistryConsistent

\* nvhttp.cpp, for any certificates and any number of devices: through pairing,
\* updates, unpairing, cut writes and restarts the list, the chain and the
\* state file agree, a certificate stands for one device, and no session of a
\* device that may not view goes on streaming.
THEOREM RegistryStaysConsistent == DrSpec => []RegistryConsistent
<1>1. DrSpec => []DrInv BY DrInvInit, DrInvStep, PTL DEF DrSpec
<1> QED BY <1>1, DrInvHolds, PTL

\* nvhttp.cpp: pairing again changes no permission, and the application does
\* not outlive the last device.
THEOREM PairingAgainAndLeaving == DrSpec => [][RepairingGrantsNothing /\ LastDeviceEndsApp]_drVars
<1>1. DrSpec => []DrInv BY DrInvInit, DrInvStep, PTL DEF DrSpec
<1>2. DrInv /\ [DrNext]_drVars => [RepairingGrantsNothing /\ LastDeviceEndsApp]_drVars BY DrInvStep
<1> QED BY <1>1, <1>2, PTL DEF DrSpec

-----------------------------------------------------------------------------
(* The application file and the list made from it (AppCatalog) *)

\* Induction over the numbers up to n.
LEMMA UpTo ==
  ASSUME NEW n \in Nat, NEW Q, 0 \in Q, \A k \in 1 .. n : k - 1 \in Q => k \in Q
  PROVE  \A k \in 0 .. n : k \in Q
<1> DEFINE T == {k \in 0 .. n : k \notin Q}
<1>1. SUFFICES ASSUME T # {} PROVE FALSE OBVIOUS
<1>2. PICK k \in T : \A i \in T : k <= i
  <2>1. T \subseteq Nat OBVIOUS
  <2> HIDE DEF T
  <2> QED BY <1>1, <2>1, LeastNumber
<1>3. k \in 0 .. n /\ k \notin Q BY <1>2
<1>4. k # 0 BY <1>3
<1>5. k \in 1 .. n /\ k - 1 \in 0 .. n BY <1>3, <1>4
<1>6. k - 1 \notin T
  <2>1. ~(k <= k - 1) BY <1>5
  <2> HIDE DEF T
  <2> QED BY <1>2, <2>1
<1>7. k - 1 \in Q BY <1>5, <1>6
<1> QED BY <1>3, <1>5, <1>7

\* A loop of n steps over values of S has a result.
StepsOf(S, n) == [S \X (1 .. n) -> S]
LoopOf(f, n, a, step) == f[0] = a /\ \A k \in 1 .. n : f[k] = step[<<f[k - 1], k>>]

LEMMA Loops ==
  ASSUME NEW n \in Nat, NEW S, NEW a \in S, NEW step \in StepsOf(S, n)
  PROVE  \E f \in [0 .. n -> S] : LoopOf(f, n, a, step)
<1>0. step \in [S \X (1 .. n) -> S] BY DEF StepsOf
<1> DEFINE Does(f, m) == f[0] = a /\ \A k \in 1 .. m : f[k] = step[<<f[k - 1], k>>]
           Q == {m \in 0 .. n : \E f \in [0 .. m -> S] : Does(f, m)}
<1>1. 0 \in Q
  <2> DEFINE f == [k \in 0 .. 0 |-> a]
  <2>1. f \in [0 .. 0 -> S] /\ f[0] = a /\ 1 .. 0 = {} OBVIOUS
  <2> HIDE DEF f
  <2>2. Does(f, 0) BY <2>1
  <2> QED BY <2>1, <2>2
<1>2. ASSUME NEW m \in 1 .. n, m - 1 \in Q PROVE m \in Q
  <2>1. PICK f \in [0 .. (m - 1) -> S] : Does(f, m - 1) BY <1>2
  <2> DEFINE g == [k \in 0 .. m |-> IF k = m THEN step[<<f[m - 1], m>>] ELSE f[k]]
  <2>2. f[m - 1] \in S BY <2>1
  <2>3. step[<<f[m - 1], m>>] \in S BY <2>2, <1>0
  <2>4. g \in [0 .. m -> S]
    <3>1. \A k \in 0 .. m : k # m => k \in 0 .. (m - 1) OBVIOUS
    <3> QED BY <2>1, <2>3, <3>1
  <2>5. g[0] = a BY <2>1
  <2>6. \A k \in 1 .. m : g[k] = step[<<g[k - 1], k>>]
    <3> SUFFICES ASSUME NEW k \in 1 .. m PROVE g[k] = step[<<g[k - 1], k>>]
      OBVIOUS
    <3>1. k - 1 \in 0 .. m /\ k - 1 # m /\ g[k - 1] = f[k - 1] OBVIOUS
    <3>2. CASE k = m BY <3>1, <3>2
    <3>3. CASE k # m
      <4>1. k \in 1 .. (m - 1) /\ g[k] = f[k] BY <3>3
      <4> QED BY <2>1, <3>1, <4>1
    <3> QED BY <3>2, <3>3
  <2> HIDE DEF g
  <2> QED BY <2>4, <2>5, <2>6
<1> HIDE DEF Q
<1>3. \A k \in 0 .. n : k \in Q BY <1>1, <1>2, UpTo
<1>4. n \in Q BY <1>3
<1> QED BY <1>4 DEF Q, LoopOf

\* Different names are their own identifiers.
LEMMA NamesAreIds ==
  ASSUME NEW apps, Len(apps) \in Nat, \A i, j \in 1 .. Len(apps) : i # j => apps[i].name # apps[j].name
  PROVE  \A k \in 1 .. Len(apps) : AcIds(apps)[k] = apps[k].name
<1> DEFINE N == Len(apps)
           Next(s, n) == Append(s, ChosenId(apps[n].name, n - 1, {s[k] : k \in 1..(n - 1)}))
           P(ids) == ids = [n \in 0 .. N |-> IF n = 0 THEN << >> ELSE Next(ids[n - 1], n)]
           g == [n \in 0 .. N |-> [k \in 1 .. n |-> apps[k].name]]
           result == CHOOSE ids : P(ids)
<1>1. ASSUME NEW n \in 1 .. N
      PROVE  g[n] = Next(g[n - 1], n)
  <2> DEFINE s == [k \in 1 .. (n - 1) |-> apps[k].name]
             c == ChosenId(apps[n].name, n - 1, {s[k] : k \in 1..(n - 1)})
             S == {apps[k].name : k \in 1 .. N}
             t == Append(s, c)
  <2>1. c = apps[n].name
    <3>1. apps[n].name \notin {s[k] : k \in 1 .. (n - 1)}
      <4> SUFFICES ASSUME NEW k \in 1 .. (n - 1) PROVE apps[n].name # s[k]
        OBVIOUS
      <4>1. k \in 1 .. N /\ k # n /\ s[k] = apps[k].name OBVIOUS
      <4> QED BY <4>1
    <3> HIDE DEF s
    <3> QED BY <3>1 DEF ChosenId, CalculateAppId
  <2> HIDE DEF c
  <2>2. s \in [1 .. (n - 1) -> S]
    <3>1. \A k \in 1 .. (n - 1) : k \in 1 .. N OBVIOUS
    <3> QED BY <3>1
  <2>3. n - 1 \in Nat /\ \A k \in 1 .. (n - 1) : s[k] = apps[k].name OBVIOUS
  <2>4. c \in S BY <2>1
  <2> HIDE DEF s, S
  <2>5. s \in Seq(S) /\ Len(s) = n - 1 BY <2>2, <2>3, FunctionIsSeq
  <2>6. t \in Seq(S) /\ Len(t) = n /\ (\A k \in 1 .. (n - 1) : t[k] = s[k]) /\ t[n] = c BY <2>4, <2>5, <2>3
  <2> HIDE DEF t
  <2>7. \A k \in 1 .. n : t[k] = apps[k].name
    <3> SUFFICES ASSUME NEW k \in 1 .. n PROVE t[k] = apps[k].name
      OBVIOUS
    <3>1. CASE k = n BY <3>1, <2>1, <2>6
    <3>2. CASE k # n
      <4>1. k \in 1 .. (n - 1) BY <3>2
      <4> QED BY <4>1, <2>3, <2>6
    <3> QED BY <3>1, <3>2
  <2>8. t = [k \in 1 .. n |-> t[k]] BY <2>6
  <2>9. t = [k \in 1 .. n |-> apps[k].name] BY <2>7, <2>8
  <2>10. g[n] = [k \in 1 .. n |-> apps[k].name] OBVIOUS
  <2>11. g[n - 1] = s BY DEF s
  <2>12. Next(g[n - 1], n) = t
    <3> HIDE DEF g
    <3> QED BY <2>11, Zenon DEF t, c
  <2> HIDE DEF g, Next
  <2> QED BY <2>9, <2>10, <2>12
<1> HIDE DEF Next
<1>2. \A n \in 0 .. N : n = 0 \/ n \in 1 .. N OBVIOUS
<1>3. P(g)
  <2>1. g[0] = << >>
    <3>1. g[0] = [k \in 1 .. 0 |-> apps[k].name] OBVIOUS
    <3>2. 1 .. 0 = {} OBVIOUS
    <3> HIDE DEF g
    <3> QED BY <3>1, <3>2
  <2>2. g = [n \in 0 .. N |-> g[n]] OBVIOUS
  <2> HIDE DEF g, N
  <2> QED BY <1>1, <1>2, <2>1, <2>2
<1> HIDE DEF g
<1>4. P(result) BY <1>3, Zenon
<1>5. AcIds(apps) = result[N] BY Zenon DEF AcIds, Next
<1> HIDE DEF result
<1>6. result[0] = << >> /\ \A n \in 1 .. N : result[n] = Next(result[n - 1], n)
  <2>1. 0 \in 0 .. N /\ \A n \in 1 .. N : n \in 0 .. N /\ n # 0 OBVIOUS
  <2> QED BY <1>4, <2>1
<1>7. g[0] = << >> /\ \A n \in 1 .. N : g[n] = Next(g[n - 1], n)
  <2>1. 0 \in 0 .. N /\ \A n \in 1 .. N : n \in 0 .. N /\ n # 0 OBVIOUS
  <2> QED BY <1>3, <2>1
<1> DEFINE Q == {n \in 0 .. N : result[n] = g[n]}
<1>8. 0 \in Q BY <1>6, <1>7
<1>9. \A n \in 1 .. N : n - 1 \in Q => n \in Q
  <2>1. \A n \in 1 .. N : n \in 0 .. N OBVIOUS
  <2> HIDE DEF N
  <2> QED BY <1>6, <1>7, <2>1
<1> HIDE DEF Q
<1>10. \A n \in 0 .. N : n \in Q BY <1>8, <1>9, UpTo
<1>11. result[N] = g[N] BY <1>10 DEF Q
<1>12. \A k \in 1 .. N : g[N][k] = apps[k].name BY DEF g
<1> HIDE DEF N
<1> QED BY <1>5, <1>11, <1>12 DEF N

\* A list of the numbers of a set, each once.
Lists(p, A) ==
  /\ p \in Seq(Nat) /\ {p[k] : k \in 1 .. Len(p)} = A
  /\ \A i, j \in 1 .. Len(p) : p[i] = p[j] => i = j

LEMMA NothingListed == Lists(<< >>, {})
<1> DEFINE p == << >>
<1>1. p \in Seq(Nat) /\ Len(p) = 0 OBVIOUS
<1>2. 1 .. 0 = {} OBVIOUS
<1> HIDE DEF p
<1> QED BY <1>1, <1>2 DEF Lists, p

LEMMA ListedDomain ==
  ASSUME NEW p, NEW A, Lists(p, A)
  PROVE  Len(p) \in Nat /\ DOMAIN p = 1 .. Len(p) /\ A = {p[k] : k \in DOMAIN p} /\ A \subseteq Nat
<1>1. p \in Seq(Nat) /\ {p[k] : k \in 1 .. Len(p)} = A BY DEF Lists
<1>2. Len(p) \in Nat /\ DOMAIN p = 1 .. Len(p) /\ \A i \in 1 .. Len(p) : p[i] \in Nat BY <1>1, SeqElements
<1> QED BY <1>1, <1>2

\* One list after another.
LEMMA ListedAfter ==
  ASSUME NEW p, NEW A, Lists(p, A), NEW q, NEW B, Lists(q, B), A \cap B = {}
  PROVE  Lists(p \o q, A \cup B)
<1> DEFINE m == Len(p)
           n == Len(q)
           t == p \o q
<1>1. p \in Seq(Nat) /\ q \in Seq(Nat) BY DEF Lists
<1>2. m \in Nat /\ n \in Nat BY <1>1
<1>3. t \in Seq(Nat) /\ Len(t) = m + n BY <1>1
<1>4. \A k \in 1 .. m : t[k] = p[k] BY <1>1
<1>5. \A k \in 1 .. n : t[m + k] = q[k] BY <1>1
<1>6. A = {p[k] : k \in 1 .. m} /\ B = {q[k] : k \in 1 .. n} BY DEF Lists
<1>7. (\A i, j \in 1 .. m : p[i] = p[j] => i = j) /\ (\A i, j \in 1 .. n : q[i] = q[j] => i = j) BY DEF Lists
<1> HIDE DEF m, n, t
<1>8. \A k \in 1 .. m + n : k \in 1 .. m \/ \E l \in 1 .. n : k = m + l
  <2> SUFFICES ASSUME NEW k \in 1 .. m + n, ~(k \in 1 .. m) PROVE \E l \in 1 .. n : k = m + l
    OBVIOUS
  <2>1. k - m \in 1 .. n /\ k = m + (k - m) BY <1>2
  <2> QED BY <2>1
<1>9. \A k \in 1 .. m : k \in 1 .. m + n BY <1>2
<1>10. \A k \in 1 .. n : m + k \in 1 .. m + n BY <1>2
<1>11. {t[k] : k \in 1 .. m + n} = A \cup B
  <2>1. ASSUME NEW k \in 1 .. m + n PROVE t[k] \in A \cup B
    <3>1. CASE k \in 1 .. m BY <3>1, <1>4, <1>6
    <3>2. CASE \E l \in 1 .. n : k = m + l BY <3>2, <1>5, <1>6
    <3> QED BY <3>1, <3>2, <1>8
  <2>2. \A x \in A : \E k \in 1 .. m + n : x = t[k] BY <1>4, <1>6, <1>9
  <2>3. \A x \in B : \E k \in 1 .. m + n : x = t[k] BY <1>5, <1>6, <1>10
  <2> QED BY <2>1, <2>2, <2>3
<1>12. ASSUME NEW i \in 1 .. m + n, NEW j \in 1 .. m + n, t[i] = t[j] PROVE i = j
  <2>1. CASE i \in 1 .. m /\ j \in 1 .. m BY <2>1, <1>4, <1>7, <1>12
  <2>2. ASSUME NEW a \in 1 .. m, NEW b \in 1 .. n, t[a] = t[m + b] PROVE FALSE
    <3>1. t[a] \in A /\ t[m + b] \in B BY <1>4, <1>5, <1>6
    <3> QED BY <3>1, <2>2
  <2>3. CASE i \notin 1 .. m /\ j \notin 1 .. m
    <3>1. PICK a \in 1 .. n : i = m + a BY <2>3, <1>8
    <3>2. PICK b \in 1 .. n : j = m + b BY <2>3, <1>8
    <3>3. q[a] = q[b] BY <3>1, <3>2, <1>5, <1>12
    <3>4. a = b BY <3>3, <1>7
    <3> QED BY <3>1, <3>2, <3>4
  <2>4. CASE i \in 1 .. m /\ j \notin 1 .. m BY <2>2, <2>4, <1>8, <1>12
  <2>5. CASE i \notin 1 .. m /\ j \in 1 .. m
    <3>1. PICK a \in 1 .. n : i = m + a BY <2>5, <1>8
    <3>2. t[j] = t[m + a] BY <3>1, <1>12
    <3> QED BY <3>2, <2>2, <2>5
  <2> QED BY <2>1, <2>3, <2>4, <2>5
<1> QED BY <1>3, <1>11, <1>12 DEF Lists, t

LEMMA ListedAppended ==
  ASSUME NEW p, NEW A, Lists(p, A), NEW x \in Nat, x \notin A
  PROVE  Lists(Append(p, x), A \cup {x})
<1> DEFINE q == <<x>>
<1>1. q \in Seq(Nat) /\ Len(q) = 1 /\ q[1] = x OBVIOUS
<1>2. \A i \in 1 .. 1 : i = 1 OBVIOUS
<1>3. 1 \in 1 .. 1 OBVIOUS
<1>4. p \in Seq(Nat) /\ p \o q = Append(p, x) BY DEF Lists
<1> HIDE DEF q
<1>5. Lists(q, {x}) BY <1>1, <1>2, <1>3 DEF Lists
<1>6. A \cap {x} = {} OBVIOUS
<1>7. Lists(p \o q, A \cup {x}) BY <1>5, <1>6, ListedAfter
<1> QED BY <1>4, <1>7

LEMMA KeptListed ==
  ASSUME NEW apps, Len(apps) \in Nat, NEW entries, entries \subseteq 1 .. Len(apps)
  PROVE  Lists(Kept(apps, entries), entries)
<1> DEFINE N == Len(apps)
           S == Seq(Nat)
           P(f) == f = [n \in 0 .. N |-> IF n = 0 THEN << >> ELSE IF n \in entries THEN Append(f[n - 1], n) ELSE f[n - 1]]
           step == [x \in S \X (1 .. N) |-> IF x[2] \in entries THEN Append(x[1], x[2]) ELSE x[1]]
           kept == CHOOSE f : P(f)
<1>0. /\ N \in Nat /\ \A n \in 0 .. N : n = 0 \/ n \in 1 .. N
      /\ \A n \in 1 .. N : n \in 0 .. N /\ n - 1 \in 0 .. N
  OBVIOUS
<1>1. \E f : P(f)
  <2>1. step \in StepsOf(S, N)
    <3>1. \A x \in S \X (1 .. N) : x[1] \in S /\ x[2] \in Nat OBVIOUS
    <3>2. \A s \in S, k \in Nat : Append(s, k) \in S OBVIOUS
    <3> HIDE DEF S, N
    <3> QED BY <3>1, <3>2 DEF StepsOf
  <2>2. << >> \in S OBVIOUS
  <2>3. \A s \in S, k \in 1 .. N : step[<<s, k>>] = IF k \in entries THEN Append(s, k) ELSE s
    <3> HIDE DEF S, N
    <3> QED OBVIOUS
  <2> HIDE DEF step
  <2>4. PICK f \in [0 .. N -> S] : LoopOf(f, N, << >>, step)
    <3> HIDE DEF S, N
    <3> QED BY <1>0, <2>1, <2>2, Loops
  <2>7. f[0] = << >> /\ \A k \in 1 .. N : f[k] = step[<<f[k - 1], k>>] BY <2>4 DEF LoopOf
  <2> HIDE DEF S, N
  <2>5. \A k \in 1 .. N : f[k] = IF k \in entries THEN Append(f[k - 1], k) ELSE f[k - 1] BY <1>0, <2>3, <2>4, <2>7
  <2>6. P(f)
    <3>1. f = [n \in 0 .. N |-> f[n]] BY <2>4
    <3> QED BY <1>0, <2>7, <2>5, <3>1
  <2> QED BY <2>6
<1>2. P(kept) BY <1>1, Zenon
<1>3. Kept(apps, entries) = kept[N] BY Zenon DEF Kept
<1> HIDE DEF kept
<1>4. kept[0] = << >> /\ \A n \in 1 .. N : kept[n] = IF n \in entries THEN Append(kept[n - 1], n) ELSE kept[n - 1]
  <2>1. 0 \in 0 .. N /\ \A n \in 1 .. N : n \in 0 .. N /\ n # 0 OBVIOUS
  <2> QED BY <1>2, <2>1
<1> DEFINE Q == {n \in 0 .. N : Lists(kept[n], entries \cap 1 .. n)}
<1>5. 0 \in Q
  <2>1. entries \cap 1 .. 0 = {} /\ 0 \in 0 .. N OBVIOUS
  <2>2. Lists(kept[0], {}) BY <1>4, NothingListed
  <2>3. Lists(kept[0], entries \cap 1 .. 0) BY <2>1, <2>2
  <2> QED BY <2>1, <2>3
<1>6. ASSUME NEW n \in 1 .. N, n - 1 \in Q PROVE n \in Q
  <2>1. Lists(kept[n - 1], entries \cap 1 .. (n - 1)) BY <1>6
  <2>2. Lists(kept[n], entries \cap 1 .. n)
    <3>1. CASE n \in entries
      <4>1. entries \cap 1 .. n = (entries \cap 1 .. (n - 1)) \cup {n} BY <3>1
      <4>2. n \notin entries \cap 1 .. (n - 1) /\ n \in Nat OBVIOUS
      <4>3. kept[n] = Append(kept[n - 1], n) BY <1>4, <3>1
      <4>4. Lists(Append(kept[n - 1], n), (entries \cap 1 .. (n - 1)) \cup {n}) BY <2>1, <4>2, ListedAppended
      <4> QED BY <4>1, <4>3, <4>4
    <3>2. CASE n \notin entries
      <4>1. entries \cap 1 .. n = entries \cap 1 .. (n - 1) BY <3>2
      <4>2. kept[n] = kept[n - 1] BY <1>4, <3>2
      <4> QED BY <4>1, <4>2, <2>1
    <3> QED BY <3>1, <3>2
  <2> QED BY <2>2
<1> HIDE DEF Q
<1>7. \A n \in 0 .. N : n \in Q BY <1>5, <1>6, UpTo
<1>8. N \in Q BY <1>7
<1>9. Lists(kept[N], entries \cap 1 .. N) BY <1>8 DEF Q
<1>10. entries \cap 1 .. N = entries OBVIOUS
<1> QED BY <1>3, <1>9, <1>10

LEMMA ListedCount ==
  ASSUME NEW p, NEW A, Lists(p, A)
  PROVE  IsFiniteSet(A) /\ Cardinality(A) = Len(p)
<1>1. Len(p) \in Nat /\ DOMAIN p = 1 .. Len(p) /\ p \in Seq(Nat) BY ListedDomain DEF Lists
<1>2. {p[k] : k \in 1 .. Len(p)} = A /\ \A i, j \in 1 .. Len(p) : p[i] = p[j] => i = j BY DEF Lists
<1>3. p \in [1 .. Len(p) -> A] BY <1>1, <1>2
<1>4. p \in Surjection(1 .. Len(p), A) BY <1>2, <1>3 DEF Surjection
<1>5. p \in Injection(1 .. Len(p), A) BY <1>1, <1>2, <1>3 DEF Injection, IsInjective
<1>6. IsFiniteSet(1 .. Len(p)) /\ Cardinality(1 .. Len(p)) = Len(p) BY <1>1, FS_Interval, SMTT(30)
<1>7. IsFiniteSet(A) /\ Cardinality(A) = Cardinality(1 .. Len(p)) BY <1>4, <1>5, <1>6, FS_Surjection
<1> QED BY <1>6, <1>7

\* What is moved to the front are positions of the list, each once.
LEMMA MovedListed ==
  ASSUME NEW apps, Len(apps) \in Nat, DOMAIN apps = 1 .. Len(apps), NEW order, Len(order) \in Nat
  PROVE  \E A \in SUBSET (1 .. Len(apps)) : Lists(MovedBy(apps, order), A)
<1> DEFINE M == Len(order)
           S == Seq(Nat)
           Match(s, n) == {i \in DOMAIN apps : i \notin {s[k] : k \in DOMAIN s} /\ apps[i].uuid = order[n]}
           First(s, n) == CHOOSE i \in Match(s, n) : \A j \in Match(s, n) : i <= j
           Body(s, n) == IF Match(s, n) = {} THEN s ELSE Append(s, First(s, n))
           P(f) == f = [n \in 0 .. M |-> IF n = 0 THEN << >> ELSE Body(f[n - 1], n)]
           step == [x \in S \X (1 .. M) |-> Body(x[1], x[2])]
           moved == CHOOSE f : P(f)
<1>0. /\ M \in Nat /\ \A n \in 0 .. M : n = 0 \/ n \in 1 .. M
      /\ \A n \in 1 .. M : n \in 0 .. M /\ n - 1 \in 0 .. M
  OBVIOUS
<1>1. ASSUME NEW s, NEW n, Match(s, n) # {}
      PROVE  First(s, n) \in 1 .. Len(apps) /\ First(s, n) \notin {s[k] : k \in DOMAIN s}
  <2> DEFINE T == Match(s, n)
  <2>1. T \subseteq Nat /\ T # {} BY <1>1
  <2> HIDE DEF T
  <2>2. \E i \in T : \A j \in T : i <= j BY <2>1, LeastNumber
  <2>3. (CHOOSE i \in T : \A j \in T : i <= j) \in T BY <2>2
  <2>4. First(s, n) \in Match(s, n) BY <2>3, Zenon DEF T
  <2> HIDE DEF First
  <2> QED BY <2>4
<1> HIDE DEF Match, First
<1>2. ASSUME NEW s \in S, NEW n PROVE Body(s, n) \in S
  <2>1. CASE Match(s, n) = {} BY <2>1
  <2>2. CASE Match(s, n) # {}
    <3>1. First(s, n) \in Nat BY <2>2, <1>1
    <3>2. Append(s, First(s, n)) \in S BY <3>1
    <3> QED BY <3>2, <2>2
  <2> QED BY <2>1, <2>2
<1>3. \E f : P(f)
  <2>1. step \in StepsOf(S, M)
    <3>1. \A x \in S \X (1 .. M) : x[1] \in S OBVIOUS
    <3> HIDE DEF S, M, Body
    <3> QED BY <3>1, <1>2 DEF StepsOf
  <2>2. << >> \in S OBVIOUS
  <2>3. \A s \in S, k \in 1 .. M : step[<<s, k>>] = Body(s, k)
    <3> HIDE DEF S, M, Body
    <3> QED OBVIOUS
  <2> HIDE DEF step, S, M, Body
  <2>4. PICK f \in [0 .. M -> S] : LoopOf(f, M, << >>, step) BY <1>0, <2>1, <2>2, Loops
  <2>5. f[0] = << >> /\ \A k \in 1 .. M : f[k] = step[<<f[k - 1], k>>] BY <2>4 DEF LoopOf
  <2>6. \A k \in 1 .. M : f[k] = Body(f[k - 1], k) BY <1>0, <2>3, <2>4, <2>5
  <2>7. f = [n \in 0 .. M |-> f[n]] BY <2>4
  <2>8. P(f) BY <1>0, <2>5, <2>6, <2>7
  <2> QED BY <2>8
<1>4. P(moved) BY <1>3, Zenon
<1>5. MovedBy(apps, order) = moved[M] BY Zenon DEF MovedBy, Match, First, Body
<1> HIDE DEF moved
<1>6. moved[0] = << >> /\ \A n \in 1 .. M : moved[n] = Body(moved[n - 1], n)
  <2>1. 0 \in 0 .. M /\ \A n \in 1 .. M : n \in 0 .. M /\ n # 0 OBVIOUS
  <2> HIDE DEF Body, M
  <2> QED BY <1>4, <2>1
<1> DEFINE Q == {n \in 0 .. M : \E A \in SUBSET (1 .. Len(apps)) : Lists(moved[n], A)}
<1>7. 0 \in Q
  <2>1. Lists(moved[0], {}) BY <1>6, NothingListed
  <2> QED BY <2>1
<1>8. ASSUME NEW n \in 1 .. M, n - 1 \in Q PROVE n \in Q
  <2>1. PICK A \in SUBSET (1 .. Len(apps)) : Lists(moved[n - 1], A) BY <1>8
  <2>2. CASE Match(moved[n - 1], n) = {}
    <3>1. moved[n] = moved[n - 1] BY <1>6, <2>2
    <3>2. Lists(moved[n], A) BY <2>1, <3>1
    <3> QED BY <3>2
  <2>3. CASE Match(moved[n - 1], n) # {}
    <3> DEFINE x == First(moved[n - 1], n)
    <3>1. moved[n] = Append(moved[n - 1], x) BY <1>6, <2>3
    <3>2. x \in 1 .. Len(apps) /\ x \notin {moved[n - 1][k] : k \in DOMAIN moved[n - 1]} BY <1>1, <2>3
    <3> HIDE DEF x
    <3>3. x \notin A BY <3>2, <2>1, ListedDomain
    <3>4. x \in Nat BY <3>2
    <3>5. Lists(moved[n], A \cup {x}) BY <2>1, <3>1, <3>3, <3>4, ListedAppended
    <3>6. A \cup {x} \in SUBSET (1 .. Len(apps)) BY <3>2
    <3> QED BY <3>5, <3>6
  <2> QED BY <2>2, <2>3
<1> HIDE DEF Q
<1>9. \A n \in 0 .. M : n \in Q
  <2> HIDE DEF M
  <2> QED BY <1>0, <1>7, <1>8, UpTo
<1>10. M \in Q BY <1>0, <1>9
<1> QED BY <1>5, <1>10 DEF Q

\* So reordering is a permutation of the entries.
LEMMA ReorderedPermutes ==
  ASSUME NEW apps, Len(apps) \in Nat, DOMAIN apps = 1 .. Len(apps), NEW order, Len(order) \in Nat
  PROVE  \E p : Lists(p, 1 .. Len(apps)) /\ Reordered(apps, order) = AppsAt(apps, p)
<1> DEFINE moved == MovedBy(apps, order)
           rest == DOMAIN apps \ {moved[k] : k \in DOMAIN moved}
           p == moved \o Kept(apps, rest)
<1>1. PICK A \in SUBSET (1 .. Len(apps)) : Lists(moved, A) BY MovedListed
<1>2. Reordered(apps, order) = AppsAt(apps, p) BY Zenon DEF Reordered
<1> HIDE DEF moved
<1>3. A = {moved[k] : k \in DOMAIN moved} BY <1>1, ListedDomain
<1>4. rest = (1 .. Len(apps)) \ A BY <1>3
<1> HIDE DEF rest
<1>5. Lists(Kept(apps, rest), rest) BY <1>4, KeptListed
<1>6. A \cap rest = {} /\ A \cup rest = 1 .. Len(apps) BY <1>4
<1>7. Lists(p, 1 .. Len(apps)) BY <1>1, <1>5, <1>6, ListedAfter
<1> QED BY <1>2, <1>7

\* An entry of each position that is listed.
LEMMA EntriesOfPositions ==
  ASSUME NEW apps \in Seq(AcEntry), AcUuidsUnique(apps), NEW p, NEW A \in SUBSET (1 .. Len(apps)), Lists(p, A)
  PROVE  /\ AppsAt(apps, p) \in Seq(AcEntry) /\ Len(AppsAt(apps, p)) = Len(p) /\ DOMAIN AppsAt(apps, p) = 1 .. Len(p)
         /\ \A k \in 1 .. Len(p) : AppsAt(apps, p)[k] = apps[p[k]]
         /\ AcUuidsUnique(AppsAt(apps, p)) /\ Len(p) <= Len(apps)
<1> DEFINE t == AppsAt(apps, p)
<1>1. Len(p) \in Nat /\ DOMAIN p = 1 .. Len(p) /\ A = {p[k] : k \in DOMAIN p} BY ListedDomain
<1>2. \A k \in 1 .. Len(p) : p[k] \in 1 .. Len(apps) BY <1>1
<1>3. Len(apps) \in Nat /\ DOMAIN apps = 1 .. Len(apps) /\ \A k \in 1 .. Len(apps) : apps[k] \in AcEntry BY SeqElements
<1>4. t = [k \in 1 .. Len(p) |-> apps[p[k]]] BY <1>1 DEF AppsAt
<1> HIDE DEF t
<1>5. t \in [1 .. Len(p) -> AcEntry] BY <1>2, <1>3, <1>4
<1>6. t \in Seq(AcEntry) /\ Len(t) = Len(p) BY <1>1, <1>5, FunctionIsSeq
<1>7. DOMAIN t = 1 .. Len(p) /\ \A k \in 1 .. Len(p) : t[k] = apps[p[k]] BY <1>4
<1>8. AcUuidsUnique(t)
  <2> SUFFICES ASSUME NEW i \in 1 .. Len(p), NEW j \in 1 .. Len(p), i # j
               PROVE  t[i].uuid = AcNoUuid \/ t[i].uuid # t[j].uuid
    BY <1>7 DEF AcUuidsUnique
  <2>1. p[i] # p[j] BY DEF Lists
  <2> QED BY <2>1, <1>2, <1>3, <1>7 DEF AcUuidsUnique
<1>9. Len(p) <= Len(apps)
  <2>1. IsFiniteSet(1 .. Len(apps)) /\ Cardinality(1 .. Len(apps)) = Len(apps) BY <1>3, FS_Interval
  <2>2. Cardinality(A) <= Len(apps) BY <2>1, FS_Subset
  <2>3. Cardinality(A) = Len(p) BY ListedCount
  <2> QED BY <2>2, <2>3
<1> QED BY <1>6, <1>7, <1>8, <1>9 DEF t

OneToOne(f, M) == \A i, j \in M : i # j => f[i] # f[j]
Unused(U, e) == U \ {e[k] : k \in DOMAIN e}

\* A set has room for as many other names as there are elements left.
LEMMA RoomFor ==
  ASSUME NEW U, IsFiniteSet(U), NEW n \in Nat, n <= Cardinality(U),
         NEW M \in SUBSET (1 .. n), NEW P \in SUBSET (1 .. n), M \cap P = {}, NEW e, DOMAIN e = P
  PROVE  \E f \in [M -> Unused(U, e)] : OneToOne(f, M)
<1> DEFINE X == {e[k] : k \in P}
           F == U \ X
<1>1. IsFiniteSet(1 .. n) /\ Cardinality(1 .. n) = n BY FS_Interval
<1>2. IsFiniteSet(M) /\ IsFiniteSet(P) /\ IsFiniteSet(M \cup P) BY <1>1, FS_Subset
<1>3. Cardinality(M \cup P) <= n BY <1>1, FS_Subset
<1>4. Cardinality(M) + Cardinality(P) <= n
  <2>1. Cardinality(M \cup P) = Cardinality(M) + Cardinality(P) - Cardinality(M \cap P) BY <1>2, FS_Union
  <2>2. Cardinality(M \cap P) = 0 BY FS_EmptySet
  <2>3. Cardinality(M) \in Nat /\ Cardinality(P) \in Nat BY <1>2, FS_CardinalityType
  <2> QED BY <1>3, <2>1, <2>2, <2>3
<1>5. IsFiniteSet(X) /\ Cardinality(X) <= Cardinality(P)
  <2> DEFINE g == [k \in P |-> e[k]]
  <2>1. g \in Surjection(P, X) BY DEF Surjection
  <2> HIDE DEF X, g
  <2> QED BY <1>2, <2>1, FS_Surjection
<1> HIDE DEF X
<1>6. IsFiniteSet(F) /\ Cardinality(F) = Cardinality(U) - Cardinality(U \cap X) BY FS_Difference
<1>7. Cardinality(U \cap X) <= Cardinality(X) /\ IsFiniteSet(U \cap X)
  <2>1. U \cap X = X \cap U OBVIOUS
  <2>2. Cardinality(X \cap U) <= Cardinality(X) /\ IsFiniteSet(X \cap U) BY <1>5, FS_Intersection
  <2> QED BY <2>1, <2>2
<1> HIDE DEF F
<1>8. Cardinality(M) <= Cardinality(F)
  <2>1. /\ Cardinality(M) \in Nat /\ Cardinality(P) \in Nat /\ Cardinality(X) \in Nat /\ Cardinality(U \cap X) \in Nat
        /\ Cardinality(U) \in Nat /\ Cardinality(F) \in Nat
    BY <1>2, <1>5, <1>6, <1>7, FS_CardinalityType
  <2> QED BY <1>4, <1>5, <1>6, <1>7, <2>1
<1>9. PICK b \in Bijection(1 .. Cardinality(M), M) : TRUE
  <2>1. ExistsBijection(1 .. Cardinality(M), M) BY <1>2, FS_CardinalityType
  <2> QED BY <2>1 DEF ExistsBijection
<1>10. PICK c \in Bijection(1 .. Cardinality(F), F) : TRUE
  <2>1. ExistsBijection(1 .. Cardinality(F), F) BY <1>6, FS_CardinalityType
  <2> QED BY <2>1 DEF ExistsBijection
<1>11. Cardinality(M) \in Nat /\ Cardinality(F) \in Nat BY <1>2, <1>6, FS_CardinalityType
<1> DEFINE m == Cardinality(M)
           at == [x \in M |-> CHOOSE k \in 1 .. m : b[k] = x]
           f == [x \in M |-> c[at[x]]]
<1>12. \A x \in M : at[x] \in 1 .. m /\ b[at[x]] = x
  <2> SUFFICES ASSUME NEW x \in M PROVE at[x] \in 1 .. m /\ b[at[x]] = x
    OBVIOUS
  <2>1. \E k \in 1 .. m : b[k] = x BY <1>9 DEF Bijection, Surjection
  <2>2. (CHOOSE k \in 1 .. m : b[k] = x) \in 1 .. m /\ b[CHOOSE k \in 1 .. m : b[k] = x] = x BY <2>1
  <2> QED BY <2>2
<1> HIDE DEF at
<1>13. \A x \in M : at[x] \in 1 .. Cardinality(F) BY <1>8, <1>11, <1>12
<1>14. f \in [M -> F]
  <2>1. c \in [1 .. Cardinality(F) -> F] BY <1>10 DEF Bijection, Injection
  <2> QED BY <2>1, <1>13
<1>15. \A i, j \in M : i # j => f[i] # f[j]
  <2> SUFFICES ASSUME NEW i \in M, NEW j \in M, c[at[i]] = c[at[j]] PROVE i = j
    OBVIOUS
  <2>1. c \in [1 .. Cardinality(F) -> F] /\ IsInjective(c) BY <1>10 DEF Bijection, Injection
  <2>2. at[i] = at[j] BY <2>1, <1>13 DEF IsInjective
  <2> QED BY <2>2, <1>12
<1> HIDE DEF f
<1> QED BY <1>14, <1>15 DEF F, X, OneToOne, Unused

Missing(apps) == {k \in DOMAIN apps : apps[k].uuid = AcNoUuid}

\* There are uuids for the entries that have none, besides another new one.
LEMMA UuidsToGive ==
  ASSUME NEW apps \in Seq(AcEntry), NEW extra \in SUBSET AcUuids,
         \/ extra = {} /\ Len(apps) <= AcMaxApps
         \/ (\E u \in AcUuids : extra = {u}) /\ Len(apps) < AcMaxApps
  PROVE  \E f \in [Missing(apps) -> AcFresh(apps) \ extra] : \A i, j \in Missing(apps) : i # j => f[i] # f[j]
<1> DEFINE M == Missing(apps)
           N == Len(apps)
<1>1. N \in Nat /\ DOMAIN apps = 1 .. N /\ \A k \in 1 .. N : apps[k] \in AcEntry BY SeqElements
<1>2. \A k \in 1 .. N : apps[k].uuid \in AcUuids \cup {AcNoUuid} BY <1>1 DEF AcEntry
<1>3. AcNoUuid \notin AcUuids /\ IsFiniteSet(AcUuids) /\ AcMaxApps \in Nat /\ AcMaxApps <= Cardinality(AcUuids)
      /\ Cardinality(AcUuids) \in Nat
  BY AcAssumption, FS_CardinalityType DEF AcNoUuid
<1>4. M = {k \in 1 .. N : apps[k].uuid = AcNoUuid} BY <1>1 DEF Missing
<1> HIDE DEF M, N
<1>5. CASE extra = {} /\ N <= AcMaxApps
  <2> DEFINE P == (1 .. N) \ M
             e == [k \in P |-> apps[k].uuid]
  <2>1. N <= Cardinality(AcUuids) BY <1>1, <1>3, <1>5
  <2>2. M \in SUBSET (1 .. N) /\ P \in SUBSET (1 .. N) /\ M \cap P = {} /\ DOMAIN e = P BY <1>4
  <2>3. AcUuids \ {e[k] : k \in P} = AcFresh(apps) \ extra
    <3>1. \A k \in 1 .. N : k \in P \/ apps[k].uuid = AcNoUuid BY <1>4
    <3>2. \A k \in P : e[k] = apps[k].uuid /\ k \in 1 .. N OBVIOUS
    <3>3. AcFresh(apps) = AcUuids \ {apps[k].uuid : k \in 1 .. N} BY <1>1 DEF AcFresh
    <3> HIDE DEF P, e
    <3> QED BY <3>1, <3>2, <3>3, <1>3, <1>5
  <2> HIDE DEF P, e
  <2>4. \E f \in [M -> AcUuids \ {e[k] : k \in P}] : \A i, j \in M : i # j => f[i] # f[j]
    <3>1. \E f \in [M -> Unused(AcUuids, e)] : OneToOne(f, M) BY <1>1, <1>3, <2>1, <2>2, RoomFor
    <3> QED BY <3>1, <2>2 DEF OneToOne, Unused
  <2> QED BY <2>3, <2>4 DEF M
<1>6. CASE (\E u \in AcUuids : extra = {u}) /\ N < AcMaxApps
  <2> PICK u \in AcUuids : extra = {u} BY <1>6
  <2> DEFINE P == (1 .. N + 1) \ M
             e == [k \in P |-> IF k = N + 1 THEN u ELSE apps[k].uuid]
  <2>1. N + 1 <= Cardinality(AcUuids) /\ N + 1 \in Nat BY <1>1, <1>3, <1>6
  <2>2. M \in SUBSET (1 .. N + 1) /\ P \in SUBSET (1 .. N + 1) /\ M \cap P = {} /\ DOMAIN e = P BY <1>1, <1>4
  <2>3. AcUuids \ {e[k] : k \in P} = AcFresh(apps) \ extra
    <3>1. \A k \in 1 .. N : k \in P \/ apps[k].uuid = AcNoUuid BY <1>1, <1>4
    <3>2. \A k \in P : k \in 1 .. N \/ k = N + 1 BY <1>1
    <3>4. N + 1 \in P /\ e[N + 1] = u BY <1>1, <1>4
    <3>5. \A k \in P : k # N + 1 => e[k] = apps[k].uuid OBVIOUS
    <3>6. \A k \in 1 .. N : k # N + 1 BY <1>1
    <3>3. AcFresh(apps) = AcUuids \ {apps[k].uuid : k \in 1 .. N} BY <1>1 DEF AcFresh
    <3> HIDE DEF P, e
    <3>7. ASSUME NEW v \in AcUuids PROVE v \in {e[k] : k \in P} <=> v \in {apps[k].uuid : k \in 1 .. N} \cup {u}
      BY <3>1, <3>2, <3>4, <3>5, <3>6, <1>3
    <3> QED BY <3>3, <3>7
  <2> HIDE DEF P, e
  <2>4. \E f \in [M -> AcUuids \ {e[k] : k \in P}] : \A i, j \in M : i # j => f[i] # f[j]
    <3>1. \E f \in [M -> Unused(AcUuids, e)] : OneToOne(f, M) BY <1>1, <1>3, <2>1, <2>2, RoomFor
    <3> QED BY <3>1, <2>2 DEF OneToOne, Unused
  <2> QED BY <2>3, <2>4 DEF M
<1> QED BY <1>5, <1>6 DEF N

\* Entries whose missing uuids are filled in share none.
LEMMA FilledIn ==
  ASSUME NEW apps \in Seq(AcEntry), AcUuidsUnique(apps), NEW f \in [Missing(apps) -> AcFresh(apps)],
         \A i, j \in Missing(apps) : i # j => f[i] # f[j],
         NEW t, Len(t) = Len(apps), DOMAIN t = 1 .. Len(apps),
         \A k \in 1 .. Len(apps) : t[k].uuid = IF k \in Missing(apps) THEN f[k] ELSE apps[k].uuid
  PROVE  AcUuidsUnique(t) /\ \A k \in 1 .. Len(apps) : t[k].uuid # AcNoUuid
<1>1. Len(apps) \in Nat /\ DOMAIN apps = 1 .. Len(apps) BY SeqElements
<1>2. AcNoUuid \notin AcUuids BY AcAssumption DEF AcNoUuid
<1>3. \A k \in Missing(apps) : f[k] \in AcUuids /\ \A j \in 1 .. Len(apps) : f[k] # apps[j].uuid BY <1>1 DEF AcFresh
<1>4. \A k \in 1 .. Len(apps) : k \notin Missing(apps) => apps[k].uuid # AcNoUuid BY <1>1 DEF Missing
<1>5. ASSUME NEW i \in 1 .. Len(apps), NEW j \in 1 .. Len(apps), i # j PROVE t[i].uuid # t[j].uuid
  <2>1. CASE i \in Missing(apps) /\ j \in Missing(apps) BY <2>1, <1>5
  <2>2. CASE i \in Missing(apps) /\ j \notin Missing(apps) BY <2>2, <1>3
  <2>3. CASE i \notin Missing(apps) /\ j \in Missing(apps) BY <2>3, <1>3
  <2>4. CASE i \notin Missing(apps) /\ j \notin Missing(apps)
    <3>1. apps[i].uuid # apps[j].uuid BY <2>4, <1>1, <1>4, <1>5 DEF AcUuidsUnique
    <3> QED BY <2>4, <3>1
  <2> QED BY <2>1, <2>2, <2>3, <2>4
<1>6. \A k \in 1 .. Len(apps) : t[k].uuid # AcNoUuid BY <1>2, <1>3, <1>4
<1> QED BY <1>5, <1>6 DEF AcUuidsUnique

\* Entries of the file: at most as many as uuids, none of which is there twice.
AcEntries(apps) == apps \in Seq(AcEntry) /\ Len(apps) <= AcMaxApps /\ AcUuidsUnique(apps)

LEMMA MigrationKeeps ==
  ASSUME NEW apps, AcEntries(apps)
  PROVE  AcEntries(MigrationV2(apps)) /\ Len(MigrationV2(apps)) = Len(apps)
<1> DEFINE N == Len(apps)
           M == Missing(apps)
           given == CHOOSE f \in [M -> AcFresh(apps)] : \A i, j \in M : i # j => f[i] # f[j]
           t == MigrationV2(apps)
<1>1. apps \in Seq(AcEntry) /\ AcUuidsUnique(apps) /\ N <= AcMaxApps BY DEF AcEntries
<1>2. N \in Nat /\ DOMAIN apps = 1 .. N /\ \A k \in 1 .. N : apps[k] \in AcEntry BY <1>1, SeqElements
<1>3. given \in [M -> AcFresh(apps)] /\ \A i, j \in M : i # j => given[i] # given[j]
  <2>1. {} \in SUBSET AcUuids OBVIOUS
  <2>2. \E f \in [M -> AcFresh(apps) \ {}] : \A i, j \in M : i # j => f[i] # f[j] BY <1>1, <2>1, UuidsToGive
  <2>3. AcFresh(apps) \ {} = AcFresh(apps) OBVIOUS
  <2>4. \E f \in [M -> AcFresh(apps)] : \A i, j \in M : i # j => f[i] # f[j] BY <2>2, <2>3
  <2> HIDE DEF M
  <2> QED BY <2>4
<1>4. t = [k \in DOMAIN apps |-> [apps[k] EXCEPT !.uuid = IF k \in M THEN given[k] ELSE @,
                                                 !.kind = IF @ = "legacy" THEN "good" ELSE @]]
  BY Zenon DEF MigrationV2, Missing
<1> HIDE DEF given, t
<1>5. \A k \in M : given[k] \in AcUuids BY <1>3 DEF AcFresh
<1>6. ASSUME NEW k \in 1 .. N
      PROVE  t[k] \in AcEntry /\ t[k].uuid = IF k \in M THEN given[k] ELSE apps[k].uuid
  <2>1. apps[k] \in AcEntry BY <1>2
  <2>2. PICK a : a = apps[k] OBVIOUS
  <2>3. a = [uuid |-> a.uuid, name |-> a.name, kind |-> a.kind] /\ a \in AcEntry BY <2>1, <2>2 DEF AcEntry
  <2>4. t[k] = [a EXCEPT !.uuid = IF k \in M THEN given[k] ELSE @, !.kind = IF @ = "legacy" THEN "good" ELSE @]
    BY <1>2, <1>4, <2>2
  <2>5. PICK u, c : u = (IF k \in M THEN given[k] ELSE a.uuid) /\ c = IF a.kind = "legacy" THEN "good" ELSE a.kind OBVIOUS
  <2>6. t[k] = [uuid |-> u, name |-> a.name, kind |-> c] BY <2>3, <2>4, <2>5
  <2>7. u \in AcUuids \cup {AcNoUuid} /\ c \in {"good", "legacy", "bad"} BY <2>3, <2>5, <1>5 DEF AcEntry
  <2>8. a.name \in AcAllNames BY <2>3 DEF AcEntry
  <2>9. t[k] \in AcEntry BY <2>6, <2>7, <2>8 DEF AcEntry
  <2>10. t[k].uuid = u BY <2>6
  <2> QED BY <2>2, <2>5, <2>9, <2>10
<1>7. DOMAIN t = 1 .. N BY <1>2, <1>4
<1>8. t \in Seq(AcEntry) /\ Len(t) = N
  <2>1. t \in [1 .. N -> AcEntry]
    <3>1. t = [k \in 1 .. N |-> t[k]] BY <1>2, <1>4
    <3> QED BY <3>1, <1>6
  <2> QED BY <2>1, <1>2, FunctionIsSeq
<1>9. AcUuidsUnique(t) BY <1>1, <1>3, <1>6, <1>7, <1>8, FilledIn
<1> QED BY <1>1, <1>8, <1>9 DEF AcEntries, t

\* A new entry takes the place of the one with its uuid or comes last.
LEMMA MergeKeeps ==
  ASSUME NEW apps, AcEntries(apps), NEW input \in AcEntry, input.uuid # AcNoUuid,
         Len(apps) < AcMaxApps \/ \E k \in DOMAIN apps : apps[k].uuid = input.uuid
  PROVE  AcEntries(Merge(apps, input))
<1> DEFINE N == Len(apps)
           same == {k \in DOMAIN apps : apps[k].uuid = input.uuid}
           first == CHOOSE k \in same : \A j \in same : k <= j
           t == Merge(apps, input)
<1>1. apps \in Seq(AcEntry) /\ AcUuidsUnique(apps) /\ N <= AcMaxApps BY DEF AcEntries
<1>2. N \in Nat /\ DOMAIN apps = 1 .. N /\ AcMaxApps \in Nat BY <1>1, SeqElements, AcAssumption
<1>3. t = IF same = {} THEN Append(apps, input) ELSE [apps EXCEPT ![first] = input] BY Zenon DEF Merge
<1>4. same # {} => first \in same
  <2> SUFFICES ASSUME same # {} PROVE first \in same
    OBVIOUS
  <2>1. same \subseteq Nat BY <1>2
  <2> HIDE DEF same
  <2>2. \E k \in same : \A j \in same : k <= j BY <2>1, LeastNumber
  <2> QED BY <2>2
<1> HIDE DEF first, t
<1>5. CASE same = {}
  <2>1. t = Append(apps, input) /\ N < AcMaxApps BY <1>3, <1>5
  <2>2. t \in Seq(AcEntry) /\ Len(t) = N + 1 /\ DOMAIN t = 1 .. N + 1 /\ (\A k \in 1 .. N : t[k] = apps[k]) /\ t[N + 1] = input
    BY <1>1, <1>2, <2>1
  <2>3. \A k \in 1 .. N : apps[k].uuid # input.uuid BY <1>2, <1>5
  <2>4. AcUuidsUnique(t)
    <3> SUFFICES ASSUME NEW i \in 1 .. N + 1, NEW j \in 1 .. N + 1, i # j
                 PROVE  t[i].uuid = AcNoUuid \/ t[i].uuid # t[j].uuid
      BY <2>2 DEF AcUuidsUnique
    <3>1. CASE i \in 1 .. N /\ j \in 1 .. N BY <3>1, <1>1, <1>2, <2>2 DEF AcUuidsUnique
    <3>2. CASE i \in 1 .. N /\ j = N + 1 BY <3>2, <2>2, <2>3
    <3>3. CASE i = N + 1 /\ j \in 1 .. N BY <3>3, <2>2, <2>3
    <3> QED BY <3>1, <3>2, <3>3, <1>2
  <2> QED BY <1>2, <2>1, <2>2, <2>4 DEF AcEntries, t
<1>6. CASE same # {}
  <2>1. first \in 1 .. N /\ apps[first].uuid = input.uuid BY <1>2, <1>4, <1>6
  <2>2. t = [apps EXCEPT ![first] = input] BY <1>3, <1>6
  <2>3. t \in Seq(AcEntry) /\ Len(t) = N /\ DOMAIN t = 1 .. N BY <1>1, <1>2, <2>1, <2>2
  <2>4. \A k \in 1 .. N : t[k].uuid = apps[k].uuid
    <3> SUFFICES ASSUME NEW k \in 1 .. N PROVE t[k].uuid = apps[k].uuid
      OBVIOUS
    <3>1. CASE k = first BY <3>1, <1>2, <2>1, <2>2
    <3>2. CASE k # first BY <3>2, <1>2, <2>2
    <3> QED BY <3>1, <3>2
  <2>5. AcUuidsUnique(t) BY <1>1, <1>2, <2>3, <2>4 DEF AcUuidsUnique
  <2> QED BY <1>1, <2>3, <2>5 DEF AcEntries, t
<1> QED BY <1>5, <1>6

\* migrate_apps, as saveApp calls it.
LEMMA SavingKeeps ==
  ASSUME NEW apps, AcEntries(apps), NEW input \in AcEntry, input.uuid # AcNoUuid,
         Len(apps) < AcMaxApps \/ \E k \in DOMAIN apps : apps[k].uuid = input.uuid
  PROVE  AcEntries(MigrateApps(apps, input))
<1> DEFINE N == Len(apps)
           M == Missing(apps)
           used == AcFresh(apps) \ {input.uuid}
           given == CHOOSE f \in [M -> used] : \A i, j \in M : i # j => f[i] # f[j]
           t == [k \in DOMAIN apps |-> IF k \in M THEN [apps[k] EXCEPT !.uuid = given[k]] ELSE apps[k]]
<1>1. apps \in Seq(AcEntry) /\ AcUuidsUnique(apps) /\ N <= AcMaxApps BY DEF AcEntries
<1>2. N \in Nat /\ DOMAIN apps = 1 .. N /\ \A k \in 1 .. N : apps[k] \in AcEntry BY <1>1, SeqElements
<1>3. MigrateApps(apps, input) = Merge(t, input) BY Zenon DEF MigrateApps, Missing
<1>4. input.uuid \in AcUuids BY DEF AcEntry
<1>5. given \in [M -> used] /\ \A i, j \in M : i # j => given[i] # given[j]
  <2>1. CASE Len(apps) < AcMaxApps
    <3>1. {input.uuid} \in SUBSET AcUuids /\ \E u \in AcUuids : {input.uuid} = {u} BY <1>4
    <3>2. \E f \in [M -> used] : \A i, j \in M : i # j => f[i] # f[j] BY <1>1, <2>1, <3>1, UuidsToGive
    <3> HIDE DEF M, used
    <3> QED BY <3>2
  <2>2. CASE \E k \in DOMAIN apps : apps[k].uuid = input.uuid
    <3>1. {} \in SUBSET AcUuids OBVIOUS
    <3>2. \E f \in [M -> AcFresh(apps) \ {}] : \A i, j \in M : i # j => f[i] # f[j] BY <1>1, <3>1, UuidsToGive
    <3>3. AcFresh(apps) \ {} = used BY <2>2 DEF AcFresh
    <3>4. \E f \in [M -> used] : \A i, j \in M : i # j => f[i] # f[j] BY <3>2, <3>3
    <3> HIDE DEF M, used
    <3> QED BY <3>4
  <2> QED BY <2>1, <2>2
<1> HIDE DEF given
<1>6. \A k \in M : given[k] \in AcUuids /\ given[k] # input.uuid BY <1>5 DEF AcFresh
<1>7. ASSUME NEW k \in 1 .. N
      PROVE  t[k] \in AcEntry /\ t[k].uuid = IF k \in M THEN given[k] ELSE apps[k].uuid
  <2>1. apps[k] \in AcEntry BY <1>2
  <2>2. CASE k \notin M BY <1>2, <2>1, <2>2
  <2>3. CASE k \in M
    <3>1. PICK a : a = apps[k] OBVIOUS
    <3>2. a = [uuid |-> a.uuid, name |-> a.name, kind |-> a.kind] /\ a \in AcEntry BY <2>1, <3>1 DEF AcEntry
    <3>3. t[k] = [a EXCEPT !.uuid = given[k]] BY <1>2, <2>3, <3>1
    <3>4. t[k] = [uuid |-> given[k], name |-> a.name, kind |-> a.kind] BY <3>2, <3>3
    <3>5. a.name \in AcAllNames /\ a.kind \in {"good", "legacy", "bad"} BY <3>2 DEF AcEntry
    <3>6. t[k] \in AcEntry BY <3>4, <3>5, <1>6, <2>3 DEF AcEntry
    <3>7. t[k].uuid = given[k] BY <3>4
    <3> QED BY <2>3, <3>6, <3>7
  <2> QED BY <2>2, <2>3
<1>8. t = [k \in 1 .. N |-> t[k]] BY <1>2
<1> HIDE DEF t
<1>9. t \in Seq(AcEntry) /\ Len(t) = N /\ DOMAIN t = 1 .. N
  <2>1. t \in [1 .. N -> AcEntry] BY <1>7, <1>8
  <2> QED BY <2>1, <1>2, FunctionIsSeq
<1>10. AcUuidsUnique(t)
  <2>1. given \in [M -> AcFresh(apps)] BY <1>5
  <2> HIDE DEF M, used
  <2> QED BY <1>1, <1>5, <1>7, <1>9, <2>1, FilledIn DEF M
<1>11. AcEntries(t) BY <1>1, <1>9, <1>10 DEF AcEntries
<1>12. Len(t) < AcMaxApps \/ \E k \in DOMAIN t : t[k].uuid = input.uuid
  <2> SUFFICES ASSUME NEW k \in 1 .. N, apps[k].uuid = input.uuid PROVE t[k].uuid = input.uuid
    BY <1>2, <1>9
  <2>1. k \notin M BY DEF Missing
  <2> QED BY <2>1, <1>7
<1>13. AcEntries(Merge(t, input)) BY <1>11, <1>12, MergeKeeps
<1> QED BY <1>3, <1>13

AcFileOK(file) ==
  /\ file = [version |-> file.version, apps |-> file.apps]
  /\ file.version \in {AcUnreadable, 1, 2} /\ AcEntries(file.apps)

\* Applications whose names all differ have their names as ids.
Named(list) ==
  (\A i, j \in DOMAIN list : i # j => list[i].name # list[j].name) => \A i \in DOMAIN list : list[i].id = list[i].name

LEMMA LoadedNamed ==
  ASSUME NEW apps, Len(apps) \in Nat
  PROVE  Named(AcLoaded(apps)) /\ Len(AcLoaded(apps)) = Len(apps)
<1> DEFINE N == Len(apps)
           ids == AcIds(apps)
           t == AcLoaded(apps)
<1>1. t = [k \in 1 .. N |-> [uuid |-> apps[k].uuid, name |-> apps[k].name, id |-> ids[k]]] BY DEF AcLoaded
<1>2. N \in Nat OBVIOUS
<1>3. (\A i, j \in 1 .. N : i # j => apps[i].name # apps[j].name) => \A k \in 1 .. N : ids[k] = apps[k].name BY NamesAreIds
<1> HIDE DEF N, ids, t
<1>4. DOMAIN t = 1 .. N /\ \A k \in 1 .. N : t[k].name = apps[k].name /\ t[k].id = ids[k] BY <1>1
<1>5. Named(t) BY <1>3, <1>4 DEF Named
<1>6. Len(t) = N
  <2> DEFINE S == {t[k] : k \in 1 .. N}
  <2>1. t \in [1 .. N -> S]
    <3>1. t = [k \in 1 .. N |-> t[k]] BY <1>1
    <3> QED BY <3>1
  <2> HIDE DEF S
  <2> QED BY <1>2, <2>1, FunctionIsSeq
<1> QED BY <1>5, <1>6 DEF t, N

LEMMA OwnEntry ==
  ASSUME NEW n \in AcOwnNames
  PROVE  [uuid |-> AcNoUuid, name |-> n, kind |-> "good"] \in AcEntry
<1>1. n \in AcAllNames BY DEF AcAllNames
<1> QED BY <1>1 DEF AcEntry

LEMMA PseudoEntries == Pseudo \in Seq(AcEntry) /\ Len(Pseudo) = 3
<1> DEFINE E(n) == [uuid |-> AcNoUuid, name |-> n, kind |-> "good"]
<1>1. <<"VirtualDisplay">> \in AcOwnNames /\ <<"RemoteInput">> \in AcOwnNames /\ <<"Terminate">> \in AcOwnNames
  BY Zenon DEF AcOwnNames
<1>2. E(<<"VirtualDisplay">>) \in AcEntry /\ E(<<"RemoteInput">>) \in AcEntry /\ E(<<"Terminate">>) \in AcEntry
  BY <1>1, OwnEntry
<1>3. Pseudo = <<E(<<"VirtualDisplay">>), E(<<"RemoteInput">>), E(<<"Terminate">>)>> BY DEF Pseudo
<1> HIDE DEF E
<1>4. PICK a \in AcEntry, b \in AcEntry, c \in AcEntry : Pseudo = <<a, b, c>> BY <1>2, <1>3
<1>5. <<a, b, c>> \in Seq(AcEntry) /\ Len(<<a, b, c>>) = 3 OBVIOUS
<1> QED BY <1>4, <1>5

LEMMA FallbackEntry == Fallback \in AcEntry
<1>1. <<"DesktopFallback">> \in AcOwnNames BY Zenon DEF AcOwnNames
<1> QED BY <1>1, OwnEntry DEF Fallback

LEMMA PrefixEntries == ASSUME NEW apps \in Seq(AcEntry) PROVE LoadedPrefix(apps) \in Seq(AcEntry)
<1> DEFINE N == Len(apps)
           PrefixEnd(n) == (\A k \in 1..n : Loads(apps[k])) /\ (n < N => ~Loads(apps[n + 1]))
           T == {k \in 1 .. N : ~Loads(apps[k])}
           m == CHOOSE n \in 0..N : PrefixEnd(n)
<1>1. N \in Nat OBVIOUS
<1> HIDE DEF N
<1>2. \E n \in 0 .. N : PrefixEnd(n)
  <2>1. CASE T = {}
    <3>1. N \in 0 .. N /\ ~(N < N) BY <1>1
    <3>2. \A k \in 1 .. N : Loads(apps[k]) BY <2>1
    <3>3. PrefixEnd(N) BY <3>1, <3>2
    <3> HIDE DEF PrefixEnd
    <3> QED BY <3>1, <3>3
  <2>2. CASE T # {}
    <3>1. PICK k \in T : \A i \in T : k <= i
      <4>1. T \subseteq Nat OBVIOUS
      <4> HIDE DEF T
      <4> QED BY <2>2, <4>1, LeastNumber
    <3>2. k \in 1 .. N /\ ~Loads(apps[k]) /\ k - 1 \in 0 .. N /\ (k - 1) + 1 = k BY <3>1, <1>1
    <3>3. ASSUME NEW i \in 1 .. (k - 1) PROVE Loads(apps[i])
      <4>1. i \in 1 .. N /\ ~(k <= i) BY <3>2, <1>1
      <4>2. i \notin T
        <5> HIDE DEF T
        <5> QED BY <3>1, <4>1
      <4> QED BY <4>1, <4>2
    <3>4. PrefixEnd(k - 1)
      <4> HIDE DEF T
      <4> QED BY <3>2, <3>3
    <3> HIDE DEF PrefixEnd, T
    <3> QED BY <3>2, <3>4
  <2> QED BY <2>1, <2>2
<1>3. m \in 0 .. N
  <2> HIDE DEF PrefixEnd
  <2> QED BY <1>2
<1>4. LoadedPrefix(apps) = SubSeq(apps, 1, m) BY Zenon DEF LoadedPrefix, N
<1> HIDE DEF m, PrefixEnd, T
<1>5. SubSeq(apps, 1, m) \in Seq(AcEntry) BY <1>3 DEF N
<1> QED BY <1>4, <1>5

\* What a file shows are entries, with one at least where the file has one.
LEMMA ShownEntries ==
  ASSUME NEW file, AcFileOK(file)
  PROVE  /\ Shown(file) \in Seq(AcEntry)
         /\ file.version # AcUnreadable /\ file.apps # << >> => Len(Shown(file)) > 0
<1>1. file.apps \in Seq(AcEntry) BY DEF AcFileOK, AcEntries
<1>2. CASE file.version = AcUnreadable BY <1>2 DEF Shown
<1>3. CASE file.version # AcUnreadable /\ LoadsAll(file.apps)
  <2>1. Shown(file) = file.apps BY <1>3 DEF Shown
  <2>2. PICK s \in Seq(AcEntry) : s = file.apps BY <1>1
  <2>3. s # << >> => Len(s) > 0 OBVIOUS
  <2> QED BY <1>1, <2>1, <2>2, <2>3
<1>4. CASE file.version # AcUnreadable /\ ~LoadsAll(file.apps)
  <2>1. Shown(file) = Append(LoadedPrefix(file.apps), Fallback) BY <1>4 DEF Shown
  <2>2. PICK s \in Seq(AcEntry) : s = LoadedPrefix(file.apps) BY <1>1, PrefixEntries
  <2>3. PICK f \in AcEntry : f = Fallback BY FallbackEntry
  <2> HIDE DEF AcEntry, Fallback
  <2>4. Append(s, f) \in Seq(AcEntry) /\ Len(Append(s, f)) > 0 OBVIOUS
  <2> QED BY <2>1, <2>2, <2>3, <2>4
<1> QED BY <1>2, <1>3, <1>4

LEMMA JoinedLength ==
  ASSUME NEW S, NEW a \in Seq(S), NEW b \in Seq(S)
  PROVE  Len(a \o b) = Len(a) + Len(b) /\ Len(a) \in Nat /\ Len(b) \in Nat
OBVIOUS

\* A list of entries and the host's own is named as it should be.
LEMMA ListNamed ==
  ASSUME NEW apps \in Seq(AcEntry)
  PROVE  Named(AcLoaded(apps \o Pseudo)) /\ Len(AcLoaded(apps \o Pseudo)) = Len(apps) + 3
<1>1. PICK b \in Seq(AcEntry) : b = Pseudo /\ Len(b) = 3 BY PseudoEntries
<1> HIDE DEF AcEntry
<1>5. Len(apps \o b) = Len(apps) + Len(b) /\ Len(apps) \in Nat BY <1>1, JoinedLength
<1>2. Len(apps \o b) = Len(apps) + 3 /\ Len(apps) + 3 \in Nat BY <1>1, <1>5
<1>3. Len(apps \o b) \in Nat BY <1>2
<1>4. Named(AcLoaded(apps \o b)) /\ Len(AcLoaded(apps \o b)) = Len(apps \o b) BY <1>3, LoadedNamed
<1> QED BY <1>1, <1>2, <1>4

AcMigrations == {"migrating", "migrated", "remigrating", "remigrated"}
AcKinds == AcMigrations \cup {"nothing", "again", "list"}

\* The tree a refresh writes and the list it has made are as they should be.
RefreshOK(r) ==
  /\ r.kind \in AcKinds
  /\ r.kind = "nothing" => r.fails = 0
  /\ r.kind \in AcMigrations => AcFileOK(r.tree) /\ r.tree.version # AcUnreadable
  /\ r.kind = "list" => Named(r.apps)

\* How a refresh that is alone relates to the file.
RefreshFollows(r, file) ==
  /\ r.kind \in {"migrated", "remigrated"} => file = AcTorn
  /\ r.kind = "again" => file.version # AcUnreadable
  /\ r.kind = "list" => r.apps = AcLoaded(Shown(file) \o Pseudo)

LEMMA AcAtFields ==
  ASSUME NEW k, NEW f, NEW t, NEW a
  PROVE  /\ AcAt(k, f, t, a).kind = k /\ AcAt(k, f, t, a).fails = f
         /\ AcAt(k, f, t, a).tree = t /\ AcAt(k, f, t, a).apps = a
BY DEF AcAt

LEMMA TornOK == AcFileOK(AcTorn) /\ AcTorn.version = AcUnreadable
<1> DEFINE e == << >>
<1>1. AcEntries(e) BY AcAssumption DEF AcEntries, AcUuidsUnique
<1>2. AcTorn = [version |-> AcUnreadable, apps |-> e] BY DEF AcTorn
<1> HIDE DEF e
<1>3. AcTorn.version = AcUnreadable /\ AcTorn.apps = e BY <1>2
<1> QED BY <1>1, <1>2, <1>3 DEF AcFileOK

LEMMA MigratedOK ==
  ASSUME NEW file, AcFileOK(file), NEW new, new = [version |-> 2, apps |-> MigrationV2(file.apps)]
  PROVE  AcFileOK(new) /\ new.version # AcUnreadable
<1>1. AcEntries(MigrationV2(file.apps)) BY MigrationKeeps DEF AcFileOK
<1>2. new.version = 2 /\ new.apps = MigrationV2(file.apps) OBVIOUS
<1>3. 2 # AcUnreadable BY DEF AcUnreadable
<1> QED BY <1>1, <1>2, <1>3 DEF AcFileOK

\* An attempt gives the list the tree shows, or a tree to write.
LEMMA AttemptKeeps ==
  ASSUME NEW tree, AcFileOK(tree), tree.version # AcUnreadable, NEW fails
  PROVE  /\ RefreshOK(Attempt(tree, fails)) /\ RefreshFollows(Attempt(tree, fails), tree)
         /\ Attempt(tree, fails).kind # "nothing"
<1> DEFINE r == Attempt(tree, fails)
           again == [version |-> 2, apps |-> MigrationV2(tree.apps)]
<1>1. Shown(tree) \in Seq(AcEntry) BY ShownEntries
<1>2. Named(AcLoaded(Shown(tree) \o Pseudo)) BY <1>1, ListNamed
<1>3. CASE LoadsAll(tree.apps)
  <2>1. r = AcAt("list", 0, AcTorn, AcLoaded(Shown(tree) \o Pseudo)) BY <1>3 DEF Attempt, Shown
  <2>2. r.kind = "list" /\ r.apps = AcLoaded(Shown(tree) \o Pseudo) BY <2>1, AcAtFields
  <2> HIDE DEF r
  <2> QED BY <1>2, <2>2 DEF RefreshOK, RefreshFollows, AcKinds, AcMigrations, r
<1>4. CASE ~LoadsAll(tree.apps) /\ fails = 2
  <2>1. r = AcAt("list", 0, AcTorn, AcLoaded(Shown(tree) \o Pseudo)) BY <1>4 DEF Attempt, Shown
  <2>2. r.kind = "list" /\ r.apps = AcLoaded(Shown(tree) \o Pseudo) BY <2>1, AcAtFields
  <2> HIDE DEF r
  <2> QED BY <1>2, <2>2 DEF RefreshOK, RefreshFollows, AcKinds, AcMigrations, r
<1>5. CASE ~LoadsAll(tree.apps) /\ fails # 2
  <2>1. r = AcAt("remigrating", fails + 1, again, << >>) BY <1>5 DEF Attempt
  <2>2. AcFileOK(again) /\ again.version # AcUnreadable BY MigratedOK
  <2> HIDE DEF again
  <2>3. r.kind = "remigrating" /\ r.tree = again BY <2>1, AcAtFields
  <2> HIDE DEF r
  <2> QED BY <2>2, <2>3 DEF RefreshOK, RefreshFollows, AcKinds, AcMigrations, r
<1> QED BY <1>3, <1>4, <1>5

\* So does reading the file, where it can be read or is read for the first time.
LEMMA ParseKeeps ==
  ASSUME NEW file, AcFileOK(file), NEW fails
  PROVE  /\ RefreshOK(Parse(file, fails)) /\ Parse(file, fails).kind # "nothing"
         /\ fails = 0 \/ file.version # AcUnreadable => RefreshFollows(Parse(file, fails), file)
<1> DEFINE r == Parse(file, fails)
<1>1. CASE file.version = AcUnreadable
  <2> DEFINE own == IF fails = 0 THEN << >> ELSE <<Fallback>>
  <2>1. r = AcAt("list", 0, AcTorn, AcLoaded(own \o Pseudo)) BY <1>1 DEF Parse
  <2>2. own \in Seq(AcEntry)
    <3>1. PICK f \in AcEntry : f = Fallback BY FallbackEntry
    <3> HIDE DEF AcEntry, Fallback
    <3>2. <<f>> \in Seq(AcEntry) OBVIOUS
    <3>3. << >> \in Seq(AcEntry) OBVIOUS
    <3> QED BY <3>1, <3>2, <3>3
  <2>3. fails = 0 => own = Shown(file) BY <1>1 DEF Shown
  <2> HIDE DEF own
  <2>4. Named(AcLoaded(own \o Pseudo)) BY <2>2, ListNamed
  <2>5. r.kind = "list" /\ r.apps = AcLoaded(own \o Pseudo) BY <2>1, AcAtFields
  <2> HIDE DEF r
  <2> QED BY <1>1, <2>3, <2>4, <2>5 DEF RefreshOK, RefreshFollows, AcKinds, AcMigrations, r
<1>2. CASE file.version # AcUnreadable /\ file.version < 2
  <2>1. r = AcAt("migrating", fails, Migrate(file), << >>) BY <1>2 DEF Parse
  <2>2. Migrate(file) = [version |-> 2, apps |-> MigrationV2(file.apps)] BY <1>2 DEF Migrate
  <2>3. AcFileOK(Migrate(file)) /\ Migrate(file).version # AcUnreadable BY <2>2, MigratedOK
  <2>4. r.kind = "migrating" /\ r.tree = Migrate(file) BY <2>1, AcAtFields
  <2> HIDE DEF r
  <2> QED BY <2>3, <2>4 DEF RefreshOK, RefreshFollows, AcKinds, AcMigrations, r
<1>3. CASE file.version # AcUnreadable /\ ~(file.version < 2)
  <2>1. r = Attempt(file, fails) BY <1>3 DEF Parse
  <2> HIDE DEF r
  <2> QED BY <1>3, <2>1, AttemptKeeps DEF r
<1> QED BY <1>1, <1>2, <1>3

\* A handler is at work on the file only while its thread refreshes nothing.
WebInTurn == acReader.op # "idle" => acRead["web"].kind = "nothing"
AloneFollows == \A t \in AcThreads : acAlone[t] => RefreshFollows(acRead[t], acFile)
CurrentFollows == acCurrent /\ AcQuiet => acApps = AcLoaded(Shown(acFile) \o Pseudo)

\* The file, the copies the handler and the refreshes work on and the lists made
\* from the file are all as they should be; a refresh that is alone knows the
\* file, and so does the list in place where such a refresh was the last.
AcInv ==
  /\ AcFileOK(acFile)
  /\ acReader.op \in {"idle", "read", "writing", "written"}
  /\ acReader.op \in {"read", "writing"} => AcFileOK(acReader.file)
  /\ acRead = [t \in AcThreads |-> acRead[t]] /\ acAlone = [t \in AcThreads |-> acAlone[t]]
  /\ \A t \in AcThreads : RefreshOK(acRead[t])
  /\ Named(acApps)
  /\ AloneFollows /\ CurrentFollows /\ WebInTurn

LEMMA AcInvStarts == ASSUME AcInit PROVE AcInv
<1>1. AcFileOK(acFile)
  <2>1. acFile \in [version : {AcUnreadable, 1, 2}, apps : Seq(AcEntry)] /\ Len(acFile.apps) <= AcMaxApps
        /\ AcUuidsUnique(acFile.apps)
    BY AcAssumption DEF AcInit
  <2> QED BY <2>1 DEF AcFileOK, AcEntries
<1>2. Named(<< >>) BY DEF Named
<1>3. acReader.op = "idle" /\ acApps = << >> /\ acCurrent = FALSE BY DEF AcInit
<1>4. acRead = [t \in AcThreads |-> AcNothing] /\ acAlone = [t \in AcThreads |-> FALSE] BY DEF AcInit
<1>5. \A t \in AcThreads : acRead[t] = AcNothing /\ acAlone[t] = FALSE BY <1>4
<1>6. RefreshOK(AcNothing) BY AcAtFields DEF RefreshOK, AcNothing, AcKinds, AcMigrations
<1>7. acRead = [t \in AcThreads |-> acRead[t]] /\ acAlone = [t \in AcThreads |-> acAlone[t]] BY <1>4
<1> QED BY <1>1, <1>2, <1>3, <1>5, <1>6, <1>7 DEF AcInv, AloneFollows, CurrentFollows, WebInTurn

\* Where one thread's refresh is changes, the others' stay.
LEMMA ReadChanges ==
  ASSUME NEW r, r = [u \in AcThreads |-> r[u]], NEW t \in AcThreads, NEW x, NEW s, s = [r EXCEPT ![t] = x]
  PROVE  /\ s = [u \in AcThreads |-> s[u]] /\ s[t] = x /\ \A u \in AcThreads : u # t => s[u] = r[u]
<1>1. s = [u \in AcThreads |-> IF u = t THEN x ELSE r[u]] BY Zenon
<1> QED BY <1>1

LEMMA AcInvReads == ASSUME AcInv, NEW t \in AcThreads, RefreshReads(t) PROVE AcInv'
<1> DEFINE r == acRead[t]
           x == Parse(acFile, r.fails)
           a == r.kind = "nothing" \/ acAlone[t]
<1>1. acRead' = [acRead EXCEPT ![t] = x] /\ acAlone' = [acAlone EXCEPT ![t] = a] BY DEF RefreshReads
<1>2. acFile' = acFile /\ acApps' = acApps /\ acCurrent' = acCurrent /\ r.kind \in {"nothing", "again"}
  BY DEF RefreshReads
<1>3. AcFileOK(acFile) /\ RefreshOK(r) BY DEF AcInv
<1>4. RefreshOK(x) /\ x.kind # "nothing" /\ (r.fails = 0 \/ acFile.version # AcUnreadable => RefreshFollows(x, acFile))
  BY <1>3, ParseKeeps
<1>5. a => r.fails = 0 \/ acFile.version # AcUnreadable
  BY <1>2, <1>3 DEF AcInv, AloneFollows, RefreshOK, RefreshFollows
<1> HIDE DEF x, a
<1>6. acRead = [u \in AcThreads |-> acRead[u]] /\ acAlone = [u \in AcThreads |-> acAlone[u]] BY DEF AcInv
<1>7. acRead' = [u \in AcThreads |-> acRead'[u]] /\ acRead'[t] = x /\ \A u \in AcThreads : u # t => acRead'[u] = acRead[u]
  BY <1>1, <1>6, ReadChanges
<1>8. acAlone' = [u \in AcThreads |-> acAlone'[u]] /\ acAlone'[t] = a /\ \A u \in AcThreads : u # t => acAlone'[u] = acAlone[u]
  BY <1>1, <1>6, ReadChanges
<1>9. acReader' = acReader \/ acReader' = [op |-> "idle"] BY DEF RefreshReads
<1>10. /\ acReader'.op \in {"idle", "read", "writing", "written"}
       /\ acReader'.op \in {"read", "writing"} => AcFileOK(acReader'.file)
  <2>1. CASE acReader' = acReader BY <2>1 DEF AcInv
  <2>2. CASE acReader' = [op |-> "idle"]
    <3>1. acReader'.op = "idle" BY <2>2
    <3> QED BY <3>1
  <2> QED BY <1>9, <2>1, <2>2
<1>11. \A u \in AcThreads : RefreshOK(acRead'[u]) BY <1>4, <1>7 DEF AcInv
<1>12. AloneFollows'
  <2> SUFFICES ASSUME NEW u \in AcThreads, acAlone'[u] PROVE RefreshFollows(acRead'[u], acFile')
    BY DEF AloneFollows
  <2>1. CASE u = t BY <2>1, <1>2, <1>4, <1>5, <1>7, <1>8
  <2>2. CASE u # t BY <2>2, <1>2, <1>7, <1>8 DEF AcInv, AloneFollows
  <2> QED BY <2>1, <2>2
<1>13. CurrentFollows' BY <1>4, <1>7 DEF CurrentFollows, AcQuiet
<1>14. AcFileOK(acFile') /\ Named(acApps') BY <1>2 DEF AcInv
<1>15. WebInTurn'
  <2>1. CASE t = "web"
    <3>1. acReader'.op = "idle" BY <2>1 DEF RefreshReads
    <3> QED BY <3>1 DEF WebInTurn
  <2>2. CASE t # "web"
    <3>1. acReader' = acReader BY <2>2 DEF RefreshReads
    <3> QED BY <2>2, <3>1, <1>7 DEF AcInv, WebInTurn, AcThreads
  <2> QED BY <2>1, <2>2
<1> QED BY <1>7, <1>8, <1>10, <1>11, <1>12, <1>13, <1>14, <1>15 DEF AcInv

LEMMA AcInvReplaces == ASSUME AcInv, NEW t \in AcThreads, RefreshReplaces(t) PROVE AcInv'
<1>1. /\ acRead' = [acRead EXCEPT ![t] = AcNothing] /\ acFile' = acFile /\ acReader' = acReader
      /\ acApps' = acRead[t].apps /\ acRead[t].kind = "list" /\ acCurrent' = acAlone[t]
      /\ acAlone' = [acAlone EXCEPT ![t] = FALSE]
  BY DEF RefreshReplaces
<1>2. acRead = [u \in AcThreads |-> acRead[u]] /\ acAlone = [u \in AcThreads |-> acAlone[u]] BY DEF AcInv
<1>3. AcNothing.kind = "nothing" /\ AcNothing.fails = 0 BY AcAtFields DEF AcNothing
<1>4. acRead' = [u \in AcThreads |-> acRead'[u]] /\ acRead'[t] = AcNothing /\ \A u \in AcThreads : u # t => acRead'[u] = acRead[u]
  BY <1>1, <1>2, ReadChanges
<1>12. acAlone' = [u \in AcThreads |-> acAlone'[u]] /\ \A u \in AcThreads : u # t => acAlone'[u] = acAlone[u]
  BY <1>1, <1>2, ReadChanges
<1>5. RefreshOK(AcNothing) /\ RefreshFollows(AcNothing, acFile)
  BY <1>3 DEF RefreshOK, RefreshFollows, AcKinds, AcMigrations
<1>6. Named(acApps') BY <1>1 DEF AcInv, RefreshOK
<1>7. \A u \in AcThreads : RefreshOK(acRead'[u]) BY <1>4, <1>5 DEF AcInv
<1>8. AloneFollows'
  <2> SUFFICES ASSUME NEW u \in AcThreads, acAlone'[u] PROVE RefreshFollows(acRead'[u], acFile')
    BY DEF AloneFollows
  <2>1. CASE u = t BY <2>1, <1>1, <1>4, <1>5
  <2>2. CASE u # t BY <2>2, <1>1, <1>4, <1>12 DEF AcInv, AloneFollows
  <2> QED BY <2>1, <2>2
<1>9. CurrentFollows'
  <2>1. acAlone[t] => acRead[t].apps = AcLoaded(Shown(acFile) \o Pseudo)
    BY <1>1 DEF AcInv, AloneFollows, RefreshFollows
  <2> QED BY <1>1, <2>1 DEF CurrentFollows
<1>10. /\ AcFileOK(acFile') /\ acReader'.op \in {"idle", "read", "writing", "written"}
       /\ acReader'.op \in {"read", "writing"} => AcFileOK(acReader'.file)
  BY <1>1 DEF AcInv
<1>11. WebInTurn' BY <1>1, <1>3, <1>4 DEF AcInv, WebInTurn, AcThreads
<1> QED BY <1>4, <1>6, <1>7, <1>8, <1>9, <1>10, <1>11, <1>12 DEF AcInv

LEMMA AcInvCuts == ASSUME AcInv, NEW t \in AcThreads, RefreshCuts(t) PROVE AcInv'
<1> DEFINE r == acRead[t]
<1>1. PICK k \in {"migrated", "remigrated"} :
        acRead' = [acRead EXCEPT ![t] = AcAt(k, r.fails, r.tree, << >>)] /\ r.kind \in {"migrating", "remigrating"}
  BY Zenon DEF RefreshCuts
<1> DEFINE x == AcAt(k, r.fails, r.tree, << >>)
<1>2. /\ acFile' = AcTorn /\ acApps' = acApps /\ acReader' = acReader /\ acCurrent' = acCurrent
      /\ acAlone' = [u \in AcThreads |-> u = t /\ acAlone[t]]
  BY DEF RefreshCuts, Disturbs
<1>3. x.kind = k /\ x.tree = r.tree BY AcAtFields
<1>4. AcFileOK(r.tree) /\ r.tree.version # AcUnreadable BY <1>1 DEF AcInv, RefreshOK, AcMigrations
<1>5. acRead = [u \in AcThreads |-> acRead[u]] BY DEF AcInv
<1>6. acRead' = [acRead EXCEPT ![t] = x] BY <1>1
<1> HIDE DEF x
<1>7. acRead' = [u \in AcThreads |-> acRead'[u]] /\ acRead'[t] = x /\ \A u \in AcThreads : u # t => acRead'[u] = acRead[u]
  BY <1>5, <1>6, ReadChanges
<1>8. RefreshOK(x) /\ RefreshFollows(x, AcTorn)
  BY <1>3, <1>4 DEF RefreshOK, RefreshFollows, AcKinds, AcMigrations
<1>9. \A u \in AcThreads : RefreshOK(acRead'[u]) BY <1>7, <1>8 DEF AcInv
<1>10. AloneFollows' BY <1>2, <1>7, <1>8 DEF AloneFollows
<1>11. CurrentFollows' BY <1>3, <1>7 DEF CurrentFollows, AcQuiet
<1>12. /\ AcFileOK(acFile') /\ Named(acApps') /\ acReader'.op \in {"idle", "read", "writing", "written"}
       /\ acReader'.op \in {"read", "writing"} => AcFileOK(acReader'.file)
       /\ acAlone' = [u \in AcThreads |-> acAlone'[u]]
  BY <1>2, TornOK DEF AcInv
<1>13. WebInTurn' BY <1>1, <1>2, <1>7 DEF AcInv, WebInTurn, AcThreads
<1> QED BY <1>7, <1>9, <1>10, <1>11, <1>12, <1>13 DEF AcInv

LEMMA AcInvRefreshWrites == ASSUME AcInv, NEW t \in AcThreads, RefreshWrites(t) PROVE AcInv'
<1> DEFINE r == acRead[t]
           x == IF r.kind = "migrated" THEN Attempt(r.tree, r.fails) ELSE AcAt("again", r.fails, AcTorn, << >>)
<1>1. acRead' = [acRead EXCEPT ![t] = x] /\ r.kind \in {"migrated", "remigrated"} BY DEF RefreshWrites
<1>2. /\ acFile' \in Overwritten(r.tree) /\ acApps' = acApps /\ acReader' = acReader /\ acCurrent' = acCurrent
      /\ acAlone' = [u \in AcThreads |-> u = t /\ acAlone[t]]
  BY DEF RefreshWrites, Disturbs
<1>3. AcFileOK(r.tree) /\ r.tree.version # AcUnreadable BY <1>1 DEF AcInv, RefreshOK, AcMigrations
<1>4. RefreshOK(x) /\ x.kind # "nothing" /\ RefreshFollows(x, r.tree)
  <2>1. CASE r.kind = "migrated" BY <2>1, <1>3, AttemptKeeps
  <2>2. CASE r.kind # "migrated"
    <3>1. x = AcAt("again", r.fails, AcTorn, << >>) BY <2>2
    <3> HIDE DEF x
    <3>2. x.kind = "again" BY <3>1, AcAtFields
    <3> QED BY <1>3, <3>2 DEF RefreshOK, RefreshFollows, AcKinds, AcMigrations
  <2> QED BY <2>1, <2>2
<1> HIDE DEF x
<1>5. acAlone[t] => acFile' = r.tree
  <2>1. acAlone[t] => acFile = AcTorn BY <1>1 DEF AcInv, AloneFollows, RefreshFollows
  <2> QED BY <1>2, <2>1 DEF Overwritten
<1>6. acRead = [u \in AcThreads |-> acRead[u]] BY DEF AcInv
<1>7. acRead' = [u \in AcThreads |-> acRead'[u]] /\ acRead'[t] = x /\ \A u \in AcThreads : u # t => acRead'[u] = acRead[u]
  BY <1>1, <1>6, ReadChanges
<1>8. \A u \in AcThreads : RefreshOK(acRead'[u]) BY <1>4, <1>7 DEF AcInv
<1>9. AloneFollows' BY <1>2, <1>4, <1>5, <1>7 DEF AloneFollows
<1>10. CurrentFollows' BY <1>4, <1>7 DEF CurrentFollows, AcQuiet
<1>11. AcFileOK(acFile') BY <1>2, <1>3, TornOK DEF Overwritten
<1>12. /\ Named(acApps') /\ acReader'.op \in {"idle", "read", "writing", "written"}
       /\ acReader'.op \in {"read", "writing"} => AcFileOK(acReader'.file)
       /\ acAlone' = [u \in AcThreads |-> acAlone'[u]]
  BY <1>2 DEF AcInv
<1>13. WebInTurn' BY <1>1, <1>2, <1>7 DEF AcInv, WebInTurn, AcThreads
<1> QED BY <1>7, <1>8, <1>9, <1>10, <1>11, <1>12, <1>13 DEF AcInv

LEMMA AcInvWebReads == ASSUME AcInv, WebReads PROVE AcInv'
<1>1. /\ acReader' = [op |-> "read", file |-> acFile] /\ acFile' = acFile /\ acApps' = acApps /\ acRead' = acRead
      /\ acAlone' = acAlone /\ acCurrent' = acCurrent /\ acReader.op = "idle"
  BY DEF WebReads
<1>2. acReader'.op = "read" /\ acReader'.file = acFile BY <1>1
<1>3. AcFileOK(acFile) BY DEF AcInv
<1>4. AloneFollows' /\ CurrentFollows' BY <1>1 DEF AcInv, AloneFollows, CurrentFollows, AcQuiet
<1>5. WebInTurn' BY <1>1 DEF WebReads, WebInTurn
<1> QED BY <1>1, <1>2, <1>3, <1>4, <1>5 DEF AcInv

\* The page's handler at work on the file takes away from a refresh on the other
\* thread that it is alone, and has none of its own under way.
LEMMA AcInvHandles ==
  ASSUME AcInv, acReader.op # "idle", acReader'.op \in {"writing", "written"}, acReader'.op = "writing" => AcFileOK(acReader'.file),
         AcFileOK(acFile'), acRead' = acRead, acApps' = acApps,
         acAlone' = [u \in AcThreads |-> u = "web" /\ acAlone["web"]]
  PROVE  AcInv'
<1>1. acRead["web"].kind = "nothing" BY DEF AcInv, WebInTurn
<1>3. AloneFollows' BY <1>1 DEF AloneFollows, RefreshFollows
<1>2. CurrentFollows' BY DEF CurrentFollows, AcQuiet
<1> QED BY <1>1, <1>2, <1>3 DEF AcInv, WebInTurn

LEMMA AcInvWritten == ASSUME AcInv, WebWritten PROVE AcInv'
<1>1. /\ acReader' = [op |-> "written"] /\ acFile' \in Overwritten(acReader.file) /\ acApps' = acApps
      /\ acRead' = acRead /\ acReader.op = "writing" /\ acAlone' = [u \in AcThreads |-> u = "web" /\ acAlone["web"]]
  BY DEF WebWritten, Disturbs
<1>2. acReader'.op = "written" BY <1>1
<1>3. AcFileOK(acFile') BY <1>1, TornOK DEF AcInv, Overwritten
<1> QED BY <1>1, <1>2, <1>3, AcInvHandles

LEMMA AcInvWrites ==
  ASSUME AcInv, NEW apps, AcEntries(apps), WebWrites(apps)
  PROVE  AcInv' /\ acReader'.file.apps = apps
<1>1. /\ acReader' = [op |-> "writing", file |-> [acReader.file EXCEPT !.apps = apps]]
      /\ acFile' = AcTorn /\ acApps' = acApps /\ acRead' = acRead
      /\ acReader.op = "read" /\ acAlone' = [u \in AcThreads |-> u = "web" /\ acAlone["web"]]
  BY DEF WebWrites, Disturbs
<1>2. AcFileOK(acReader.file) BY <1>1 DEF AcInv
<1> DEFINE v == acReader.file.version
           changed == [acReader.file EXCEPT !.apps = apps]
<1>3. v \in {AcUnreadable, 1, 2} BY <1>2 DEF AcFileOK
<1>4. changed = [version |-> v, apps |-> apps]
  <2>1. acReader.file = [version |-> v, apps |-> acReader.file.apps] BY <1>2 DEF AcFileOK
  <2>2. PICK w, l : acReader.file = [version |-> w, apps |-> l] BY <2>1
  <2> QED BY <2>2
<1> HIDE DEF v, changed
<1>5. AcFileOK(changed) /\ changed.apps = apps
  <2>1. changed.version = v /\ changed.apps = apps BY <1>4
  <2> QED BY <1>3, <1>4, <2>1 DEF AcFileOK
<1>6. acReader'.op = "writing" /\ acReader'.file = changed
  <2>1. acReader' = [op |-> "writing", file |-> changed] BY <1>1 DEF changed
  <2> QED BY <2>1
<1>7. AcFileOK(acFile') BY <1>1, TornOK
<1>8. AcInv' BY <1>1, <1>5, <1>6, <1>7, AcInvHandles
<1> QED BY <1>5, <1>6, <1>8

LEMMA AcInvSaves == ASSUME AcInv, NEW uuid \in AcUuids \cup {AcNoUuid}, NEW name \in AcNames, SaveApp(uuid, name) PROVE AcInv'
<1> DEFINE apps == acReader.file.apps
           u == IF uuid # AcNoUuid THEN uuid ELSE CHOOSE v \in AcFresh(apps) : TRUE
           input == [uuid |-> u, name |-> name, kind |-> "good"]
<1>1. AcEntries(apps) BY DEF SaveApp, AcInv, AcFileOK
<1>2. WebWrites(MigrateApps(apps, input)) BY DEF SaveApp
<1>3. uuid # AcNoUuid \/ AcFresh(apps) # {} BY DEF SaveApp
<1>4. Len(apps) < AcMaxApps \/ \E k \in DOMAIN apps : apps[k].uuid = uuid /\ uuid # AcNoUuid BY DEF SaveApp
<1> HIDE DEF apps
<1>5. u \in AcUuids
  <2>1. CASE uuid # AcNoUuid BY <2>1
  <2>2. CASE uuid = AcNoUuid
    <3>1. u = CHOOSE v \in AcFresh(apps) : TRUE BY <2>2
    <3>2. u \in AcFresh(apps) BY <3>1, <2>2, <1>3
    <3> QED BY <3>2 DEF AcFresh
  <2> QED BY <2>1, <2>2
<1>6. uuid # AcNoUuid => u = uuid OBVIOUS
<1> HIDE DEF u
<1>7. input \in AcEntry /\ input.uuid = u
  <2>1. name \in AcAllNames BY DEF AcAllNames
  <2> QED BY <2>1, <1>5 DEF AcEntry
<1> HIDE DEF input
<1>8. u # AcNoUuid BY <1>5, AcAssumption DEF AcNoUuid
<1>9. Len(apps) < AcMaxApps \/ \E k \in DOMAIN apps : apps[k].uuid = input.uuid BY <1>4, <1>6, <1>7
<1>10. AcEntries(MigrateApps(apps, input)) BY <1>1, <1>7, <1>8, <1>9, SavingKeeps
<1> QED BY <1>2, <1>10, AcInvWrites

\* What reordering and deleting write are entries of the file.
LEMMA EntriesTaken ==
  ASSUME NEW apps, AcEntries(apps), NEW p, NEW A \in SUBSET (1 .. Len(apps)), Lists(p, A)
  PROVE  AcEntries(AppsAt(apps, p)) /\ Len(p) <= Len(apps)
<1> DEFINE N == Len(apps)
           t == AppsAt(apps, p)
<1>1. apps \in Seq(AcEntry) /\ N <= AcMaxApps /\ AcUuidsUnique(apps) BY DEF AcEntries
<1>2. N \in Nat BY <1>1
<1>3. /\ t \in Seq(AcEntry) /\ Len(t) = Len(p) /\ DOMAIN t = 1 .. Len(p)
      /\ \A k \in 1 .. Len(p) : t[k] = apps[p[k]]
  BY <1>1, EntriesOfPositions
<1>4. /\ Len(p) \in Nat /\ {p[k] : k \in 1 .. Len(p)} = A
      /\ \A i, j \in 1 .. Len(p) : p[i] = p[j] => i = j
  BY DEF Lists
<1>5. Len(p) <= N
  <2>1. IsFiniteSet(A) /\ Cardinality(A) = Len(p) BY ListedCount
  <2>2. IsFiniteSet(1 .. N) /\ Cardinality(1 .. N) = N
    <3>1. 1 \in Int /\ N \in Int BY <1>2
    <3> HIDE DEF N
    <3>2. IsFiniteSet(1 .. N) /\ Cardinality(1 .. N) = IF 1 > N THEN 0 ELSE N - 1 + 1 BY <3>1, FS_Interval
    <3> QED BY <3>2, <1>2
  <2>3. Cardinality(A) <= Cardinality(1 .. N) BY <2>2, FS_Subset DEF N
  <2> QED BY <2>1, <2>2, <2>3
<1>6. AcUuidsUnique(t)
  <2> SUFFICES ASSUME NEW i \in 1 .. Len(p), NEW j \in 1 .. Len(p), i # j
               PROVE  t[i].uuid = AcNoUuid \/ t[i].uuid # t[j].uuid
    BY <1>3 DEF AcUuidsUnique
  <2>1. p[i] \in 1 .. N /\ p[j] \in 1 .. N /\ p[i] # p[j] BY <1>4
  <2>2. DOMAIN apps = 1 .. N BY <1>1
  <2>3. apps[p[i]].uuid = AcNoUuid \/ apps[p[i]].uuid # apps[p[j]].uuid BY <1>1, <2>1, <2>2 DEF AcUuidsUnique
  <2> QED BY <2>3, <1>3
<1>7. Len(t) <= AcMaxApps BY <1>1, <1>2, <1>3, <1>4, <1>5, AcAssumption
<1> QED BY <1>3, <1>5, <1>6, <1>7 DEF AcEntries

LEMMA AcInvReorders ==
  ASSUME AcInv, NEW order, Len(order) \in Nat, ReorderApps(order)
  PROVE  AcInv' /\ acReader'.file.apps = Reordered(acReader.file.apps, order)
<1> DEFINE apps == acReader.file.apps
<1>1. AcEntries(apps) BY DEF ReorderApps, AcInv, AcFileOK
<1>2. WebWrites(Reordered(apps, order)) BY DEF ReorderApps
<1> HIDE DEF apps
<1>3. Len(apps) \in Nat /\ DOMAIN apps = 1 .. Len(apps) BY <1>1, SeqElements DEF AcEntries
<1>4. PICK p : Lists(p, 1 .. Len(apps)) /\ Reordered(apps, order) = AppsAt(apps, p) BY <1>3, ReorderedPermutes
<1>5. AcEntries(AppsAt(apps, p)) BY <1>1, <1>4, EntriesTaken
<1> QED BY <1>2, <1>4, <1>5, AcInvWrites DEF apps

LEMMA AcInvDeletes == ASSUME AcInv, NEW uuid, DeleteApp(uuid) PROVE AcInv'
<1> DEFINE apps == acReader.file.apps
           left == {k \in DOMAIN apps : apps[k].uuid # uuid}
<1>1. AcEntries(apps) BY DEF DeleteApp, AcInv, AcFileOK
<1>2. WebWrites(Without(apps, uuid)) BY DEF DeleteApp
<1>3. Without(apps, uuid) = AppsAt(apps, Kept(apps, left)) BY DEF Without
<1> HIDE DEF apps
<1>4. Len(apps) \in Nat /\ DOMAIN apps = 1 .. Len(apps) BY <1>1, SeqElements DEF AcEntries
<1>5. left \in SUBSET (1 .. Len(apps)) BY <1>4
<1> HIDE DEF left
<1>6. Lists(Kept(apps, left), left) BY <1>4, <1>5, KeptListed
<1>7. AcEntries(Without(apps, uuid)) BY <1>1, <1>3, <1>5, <1>6, EntriesTaken
<1> QED BY <1>2, <1>7, AcInvWrites

LEMMA OrdersAreLists == ASSUME NEW order \in AcOrders PROVE Len(order) \in Nat
<1>1. PICK n \in 0 .. 2 : order \in [1 .. n -> AcUuids] BY DEF AcOrders
<1> QED BY <1>1

LEMMA AcInvSteps == ASSUME AcInv, [AcNext]_acVars PROVE AcInv'
<1>1. CASE UNCHANGED acVars
  BY <1>1 DEF AcInv, AloneFollows, CurrentFollows, WebInTurn, AcQuiet, acVars
<1>2. ASSUME NEW t \in AcThreads, RefreshReads(t) \/ RefreshCuts(t) \/ RefreshWrites(t) \/ RefreshReplaces(t)
      PROVE  AcInv'
  BY <1>2, AcInvReads, AcInvCuts, AcInvRefreshWrites, AcInvReplaces
<1>3. CASE WebReads \/ WebWritten BY <1>3, AcInvWebReads, AcInvWritten
<1>4. ASSUME NEW uuid \in AcUuids \cup {AcNoUuid}, NEW name \in AcNames, SaveApp(uuid, name) PROVE AcInv'
  BY <1>4, AcInvSaves
<1>5. ASSUME NEW order \in AcOrders, ReorderApps(order) PROVE AcInv' BY <1>5, OrdersAreLists, AcInvReorders
<1>6. ASSUME NEW uuid \in AcUuids, DeleteApp(uuid) PROVE AcInv' BY <1>6, AcInvDeletes
<1> QED BY <1>1, <1>2, <1>3, <1>4, <1>5, <1>6 DEF AcNext

\* The invariant says what the catalog's users rely on.
LEMMA AcInvMeans == ASSUME AcInv PROVE CatalogConsistent
<1>1. AcTypeOK
  <2>1. acFile.version \in {AcUnreadable, 1, 2} BY DEF AcInv, AcFileOK
  <2> QED BY <2>1 DEF AcInv, AcTypeOK, RefreshOK, AcKinds, AcMigrations
<1>2. FileUuidsUnique BY DEF AcInv, AcFileOK, AcEntries, FileUuidsUnique
<1>3. UniqueNamesKeepIds BY DEF AcInv, Named, UniqueNamesKeepIds
<1>4. ListFollowsFile
  <2> SUFFICES ASSUME AcQuiet, acCurrent
               PROVE  /\ acApps = AcLoaded(Shown(acFile) \o Pseudo)
                      /\ acFile.version # AcUnreadable /\ acFile.apps # << >> => Len(acApps) > Len(Pseudo)
    BY DEF ListFollowsFile
  <2>1. acApps = AcLoaded(Shown(acFile) \o Pseudo) BY DEF AcInv, CurrentFollows
  <2>2. Len(Pseudo) = 3 BY PseudoEntries
  <2>3. PICK s \in Seq(AcEntry) : s = Shown(acFile) /\ (acFile.version # AcUnreadable /\ acFile.apps # << >> => Len(s) > 0)
    BY ShownEntries DEF AcInv
  <2>4. Len(AcLoaded(s \o Pseudo)) = Len(s) + 3 BY ListNamed
  <2>5. Len(s) \in Nat BY <2>3
  <2> QED BY <2>1, <2>2, <2>3, <2>4, <2>5
<1> QED BY <1>1, <1>2, <1>3, <1>4 DEF CatalogConsistent

\* Every entry of the one list has a place of its own in the other.
KeepsAt(D, E, old, new) ==
  \E f \in [D -> E] :
    /\ \A i, j \in D : i # j => f[i] # f[j]
    /\ Len(old) = Len(new) /\ \A i \in D : new[f[i]] = old[i]
KeepsApps(old, new) == KeepsAt(DOMAIN old, DOMAIN new, old, new)

LEMMA ReorderingKeeps ==
  ASSUME NEW old, AcEntries(old), NEW order, Len(order) \in Nat, NEW new, new = Reordered(old, order)
  PROVE  KeepsApps(old, new)
<1> DEFINE N == Len(old)
<1>1. N \in Nat /\ DOMAIN old = 1 .. N /\ old \in Seq(AcEntry) /\ AcUuidsUnique(old) BY SeqElements DEF AcEntries
<1>2. PICK p : Lists(p, 1 .. N) /\ new = AppsAt(old, p) BY <1>1, ReorderedPermutes
<1>3. Len(new) = Len(p) /\ DOMAIN new = 1 .. Len(p) /\ \A k \in 1 .. Len(p) : new[k] = old[p[k]]
  BY <1>1, <1>2, EntriesOfPositions
<1>4. Len(p) = N
  <2>1. Cardinality(1 .. N) = Len(p) BY <1>2, ListedCount
  <2>2. 1 \in Int /\ N \in Int BY <1>1
  <2> HIDE DEF N
  <2>3. Cardinality(1 .. N) = IF 1 > N THEN 0 ELSE N - 1 + 1 BY <2>2, FS_Interval
  <2> QED BY <1>1, <2>1, <2>3
<1> HIDE DEF N
<1>5. {p[k] : k \in 1 .. N} = 1 .. N BY <1>2, <1>4 DEF Lists
<1> DEFINE f == [i \in 1 .. N |-> CHOOSE k \in 1 .. N : p[k] = i]
<1>6. \A i \in 1 .. N : f[i] \in 1 .. N /\ p[f[i]] = i
  <2> SUFFICES ASSUME NEW i \in 1 .. N PROVE f[i] \in 1 .. N /\ p[f[i]] = i
    OBVIOUS
  <2>1. \E k \in 1 .. N : p[k] = i BY <1>5
  <2>2. f[i] = CHOOSE k \in 1 .. N : p[k] = i OBVIOUS
  <2> HIDE DEF f
  <2> QED BY <2>1, <2>2
<1>7. f \in [1 .. N -> 1 .. N] BY <1>6
<1> HIDE DEF f
<1>8. \A i, j \in 1 .. N : i # j => f[i] # f[j] BY <1>6
<1>9. \A i \in 1 .. N : new[f[i]] = old[i] BY <1>3, <1>4, <1>6
<1>10. Len(old) = Len(new) /\ DOMAIN old = 1 .. N /\ DOMAIN new = 1 .. N BY <1>1, <1>3, <1>4 DEF N
<1> QED
  <2>1. KeepsAt(1 .. N, 1 .. N, old, new) BY <1>7, <1>8, <1>9, <1>10 DEF KeepsAt
  <2> QED BY <2>1, <1>10, Zenon DEF KeepsApps

LEMMA AcReordersSteps == ASSUME AcInv PROVE ReorderKeepsApps
<1> SUFFICES ASSUME NEW order \in AcOrders, ReorderApps(order)
             PROVE  KeepsApps(acReader.file.apps, acReader'.file.apps)
  BY DEF ReorderKeepsApps, KeepsApps, KeepsAt
<1> DEFINE old == acReader.file.apps
           new == acReader'.file.apps
<1>1. Len(order) \in Nat BY OrdersAreLists
<1>2. new = Reordered(old, order) BY <1>1, AcInvReorders
<1>3. AcEntries(old) BY DEF ReorderApps, AcInv, AcFileOK
<1> HIDE DEF old, new
<1>4. KeepsApps(old, new) BY <1>1, <1>2, <1>3, ReorderingKeeps
<1> QED BY <1>4 DEF old, new

\* However applications are saved, ordered, removed and migrated, with a refresh
\* on another thread in between any two steps, no two entries of the file share a
\* uuid, an application with a name of its own keeps its id, and a refresh that
\* ran against no write of another thread leaves the list the file gives.
THEOREM CatalogStaysUsable == AcSpec => []CatalogConsistent
<1>1. AcInit => AcInv BY AcInvStarts
<1>2. AcInv /\ [AcNext]_acVars => AcInv' BY AcInvSteps
<1>3. AcInv => CatalogConsistent BY AcInvMeans
<1> QED BY <1>1, <1>2, <1>3, PTL DEF AcSpec

\* Reordering the applications neither loses nor duplicates one, whatever order
\* the request asks for.
THEOREM ReorderingPermutes == AcSpec => [][ReorderKeepsApps]_acVars
<1>1. AcInit => AcInv BY AcInvStarts
<1>2. AcInv /\ [AcNext]_acVars => AcInv' BY AcInvSteps
<1>3. AcInv /\ [AcNext]_acVars => [ReorderKeepsApps]_acVars BY AcReordersSteps
<1> QED BY <1>1, <1>2, <1>3, PTL DEF AcSpec
-----------------------------------------------------------------------------
(* The parts together *)

\* A step of the run is a step of the part that moves and leaves the others.
LEMMA EachPartSteps ==
  [MCNext]_mcVars =>
    /\ [DdNext]_ddVars /\ [NpNext]_npVars /\ [SvNext]_svVars /\ [UpNext]_upVars
    /\ [AppNext]_appVars /\ [AcNext]_acVars /\ [DrNext]_drVars /\ [CsNext]_csVars
<1> SUFFICES ASSUME [MCNext]_mcVars
             PROVE  /\ [DdNext]_ddVars /\ [NpNext]_npVars /\ [SvNext]_svVars /\ [UpNext]_upVars
                    /\ [AppNext]_appVars /\ [AcNext]_acVars /\ [DrNext]_drVars /\ [CsNext]_csVars
  OBVIOUS
<1>1. CASE UNCHANGED mcVars BY <1>1 DEF mcVars
<1>2. DdNext \/ UNCHANGED ddVars \/ UNCHANGED mcVars BY DEF MCNext, Rest
<1>3. NpNext \/ UNCHANGED npVars \/ UNCHANGED mcVars BY DEF MCNext, Rest
<1>4. SvNext \/ UNCHANGED svVars \/ UNCHANGED mcVars BY DEF MCNext, Rest
<1>5. UpNext \/ UNCHANGED upVars \/ UNCHANGED mcVars BY DEF MCNext, Rest
<1>6. AppNext \/ UNCHANGED appVars \/ UNCHANGED mcVars BY DEF MCNext, Rest
<1>7. AcNext \/ UNCHANGED acVars \/ UNCHANGED mcVars BY DEF MCNext, Rest
<1>8. DrNext \/ UNCHANGED drVars \/ UNCHANGED mcVars BY DEF MCNext, Rest
<1>9. CsNext \/ UNCHANGED csVars \/ UNCHANGED mcVars BY DEF MCNext, Rest
<1> QED BY <1>1, <1>2, <1>3, <1>4, <1>5, <1>6, <1>7, <1>8, <1>9

LEMMA EachPartStarts ==
  MCInit => DdInit /\ NpInit /\ SvInit /\ UpInit /\ AppInit /\ AcInit /\ DrInit /\ CsInit
BY DEF MCInit

\* display_device.cpp and nvprefs: what the host changed in the system can be
\* put back in every state, with the other parts around it.
THEOREM SettingsPutBack == MCSpec => []SettingsRecoverable
<1>1. DdInv /\ [DdNext]_ddVars => DdInv' BY DdInvStep, DdInvStays
<1>2. MCSpec => []DdInv BY <1>1, DdInvInit, EachPartStarts, EachPartSteps, PTL DEF MCSpec
<1>3. MCSpec => []NpInv BY NpInvInit, NpInvStep, EachPartStarts, EachPartSteps, PTL DEF MCSpec
<1>4. DdInv /\ NpInv => SettingsRecoverable BY DdInvHolds, NpInvHolds DEF SettingsRecoverable
<1> QED BY <1>2, <1>3, <1>4, PTL

\* sunshinesvc.cpp and upnp.cpp: no host process is left behind, and no port of a
\* router found in the last round but those it would not close; with the other
\* parts around them.
THEOREM NothingStays == MCSpec => []NothingLeftBehind
<1>1. SvInit => NoHostLeft BY DEF SvInit, NoHostLeft
<1>2. MCSpec => []NoHostLeft BY <1>1, NoHostLeftStep, EachPartStarts, EachPartSteps, PTL DEF MCSpec
<1>3. MCSpec => []UpInv BY UpInvInit, UpInvStep, EachPartStarts, EachPartSteps, PTL DEF MCSpec
<1>4. NoHostLeft /\ UpInv => NothingLeftBehind BY DEF UpInv, NothingLeftBehind
<1> QED BY <1>2, <1>3, <1>4, PTL

\* No step of any part does what its code must not: retry what was superseded,
\* keep the settings of an application that is gone or the last device's
\* application, give a device that pairs again more rights, lose an application
\* in a reorder, or serve a browser on an old cookie.
THEOREM OnlyAllowedChanges == MCSpec => ChangesAsAllowed
<1>1. MCSpec => []DdInv
  <2>1. DdInv /\ [DdNext]_ddVars => DdInv' BY DdInvStep, DdInvStays
  <2> QED BY <2>1, DdInvInit, EachPartStarts, EachPartSteps, PTL DEF MCSpec
<1>2. MCSpec => []AppInv
  <2>1. AppInv /\ UNCHANGED appVars => AppInv' BY DEF AppInv, appVars
  <2>2. AppInv /\ [AppNext]_appVars => AppInv' BY <2>1, AppInvStep
  <2> QED BY <2>2, AppInvInit, EachPartStarts, EachPartSteps, PTL DEF MCSpec
<1>3. MCSpec => []DrInv BY DrInvInit, DrInvStep, EachPartStarts, EachPartSteps, PTL DEF MCSpec
<1>4. MCSpec => []CsInv BY CsInvInit, CsInvStep, EachPartStarts, EachPartSteps, PTL DEF MCSpec
<1>5. MCSpec => []AcInv
  <2>1. AcInit => AcInv BY AcInvStarts
  <2>2. AcInv /\ [AcNext]_acVars => AcInv' BY AcInvSteps
  <2> QED BY <2>1, <2>2, EachPartStarts, EachPartSteps, PTL DEF MCSpec
<1>6. DdInv /\ [DdNext]_ddVars => JobDoesWhatIsWanted
  <2>1. UNCHANGED ddVars => JobDoesWhatIsWanted BY DEF ddVars, JobDoesWhatIsWanted
  <2> QED BY <2>1, DdInvStep
<1>7. AppInv /\ [AppNext]_appVars => SettingsFollowApp
  <2>1. UNCHANGED appVars => SettingsFollowApp BY DEF appVars, SettingsFollowApp
  <2> QED BY <2>1, AppInvStep
<1>8. DrInv /\ [DrNext]_drVars => RepairingGrantsNothing /\ LastDeviceEndsApp BY DrInvStep
<1>9. CsInv /\ [CsNext]_csVars => LoggedInWithCurrentPassword
  <2>1. UNCHANGED csVars => LoggedInWithCurrentPassword BY DEF csVars, LoggedInWithCurrentPassword
  <2> QED BY <2>1, LoginNeeded
<1>10. AcInv => ReorderKeepsApps BY AcReordersSteps
<1> DEFINE Allowed == /\ JobDoesWhatIsWanted
                      /\ SettingsFollowApp
                      /\ LastDeviceEndsApp
                      /\ RepairingGrantsNothing
                      /\ ReorderKeepsApps
                      /\ LoggedInWithCurrentPassword
<1>11. DdInv /\ AppInv /\ DrInv /\ CsInv /\ AcInv /\ [MCNext]_mcVars => Allowed
  BY <1>6, <1>7, <1>8, <1>9, <1>10, EachPartSteps
<1>12. ChangesAsAllowed <=> [][Allowed]_mcVars BY PTL DEF ChangesAsAllowed
<1> HIDE DEF Allowed
<1> QED BY <1>1, <1>2, <1>3, <1>4, <1>5, <1>11, <1>12, PTL DEF MCSpec
=============================================================================
