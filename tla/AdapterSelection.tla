--------------------------- MODULE AdapterSelection ---------------------------
(***************************************************************************)
(* The address a share listens on: the one saved in Settings, or the first *)
(* of the best adapter (src/src/snowlink/net/adapter_selection.py).  It is *)
(* taken when the user clicks (ui/share_controller.py), checked when the   *)
(* session starts, and looked at again while a legacy share runs           *)
(* (rtc/screen_session.py); adapters come, go and change in between.       *)
(***************************************************************************)
EXTENDS Integers, Sequences

VARIABLES
  nics,      \* the adapters, as Windows lists them now
  chosen,    \* the address saved in Settings, or auto
  legacy,    \* the share runs in Python
  listener,  \* of the share: no, resolved (its thread starts), on
  address    \* the address it uses

adapterVars == <<nics, chosen, legacy, listener, address>>

\* Addresses by what is_rfc1918_private() and is_loopback_address() say of them.
Private == {"lan", "lan2", "mesh"}
Addresses == Private \cup {"public", "loopback"}
\* By interface_type and tunnel_type; and what the names match.
Types == {"ethernet", "wifi", "tunnel", "loopback", "other"}
Patterns == {"mesh", "container", "hypervisor", "vpn"}
Adapter ==  \* speed is in Mbps, 0 if unknown
  [type : Types, names : SUBSET Patterns, up : BOOLEAN, speed : Nat, hosts : Seq(Addresses)]

AdapterTypeOK ==
  /\ nics \in Seq(Adapter) /\ chosen \in Addresses \cup {"auto"} /\ legacy \in BOOLEAN
  /\ listener \in {"no", "resolved", "on"} /\ address \in Addresses \cup {"none"}

Hosts(a) == {a.hosts[i] : i \in DOMAIN a.hosts}
LanHosts(a) == Hosts(a) \cap Private
Assigned == UNION {Hosts(nics[i]) : i \in DOMAIN nics}

\* classify_adapter(): loopback first; a tunnel is a mesh or a VPN whatever else it is
\* called; then the names, in their order; and only then the type.
Physical == {"ethernet", "wifi"}
LoopsBack(a) == a.type = "loopback" \/ "loopback" \in Hosts(a)
Names(a) == IF a.type = "tunnel" THEN (a.names \cap {"mesh"}) \cup {"vpn"} ELSE a.names
Order == [mesh |-> 1, container |-> 2, hypervisor |-> 3, vpn |-> 4]
\* Mutation: an Ethernet or Wi-Fi type is asked for before the names.
CategoryByType(a) ==
  IF LoopsBack(a) THEN "loopback" ELSE IF a.type \in Physical THEN a.type ELSE "unknown"
Category(a) ==
  IF LoopsBack(a) THEN "loopback"
  ELSE IF Names(a) # {}
       THEN CHOOSE n \in Names(a) : \A m \in Names(a) : Order[n] <= Order[m]
  ELSE IF a.type \in Physical THEN a.type ELSE "unknown"

\* score_adapter(), and the preferred of annotate_adapter().
Base == [ethernet |-> 1000, wifi |-> 900, mesh |-> 200, unknown |-> 100, hypervisor |-> 50,
         container |-> 40, vpn |-> 20, loopback |-> 0]
Speed(a) ==
  IF Category(a) \notin Physical THEN 0 ELSE IF a.speed < 100 THEN a.speed ELSE 100
AdapterScore(a) ==
  Base[Category(a)] + (IF a.up THEN 50 ELSE -200) + Speed(a)
  + (IF LanHosts(a) # {} THEN 100 ELSE IF Hosts(a) \ {"loopback"} # {} THEN 10 ELSE 0)
Preferred(a) == Category(a) \in Physical /\ a.up /\ LanHosts(a) # {}

\* select_preferred_endpoint(): the stable sort keeps the order of equals.
Candidates == {i \in DOMAIN nics : Preferred(nics[i])}
ScoreOf(i) == AdapterScore(nics[i])
Before(i, j) == ScoreOf(i) > ScoreOf(j) \/ (ScoreOf(i) = ScoreOf(j) /\ i <= j)
Best == {i \in Candidates : \A j \in Candidates : Before(i, j)}
FirstLan(a) ==
  {a.hosts[k] : k \in {l \in DOMAIN a.hosts :
     a.hosts[l] \in Private /\ \A m \in 1..(l - 1) : a.hosts[m] \notin Private}}

\* An adapter goes up or down, gets another address or loses it.
AdaptersChange ==
  /\ \E i \in DOMAIN nics :
       \/ nics' = [nics EXCEPT ![i].up = ~@]
       \/ \E h \in {<<>>, <<"lan2">>} : nics' = [nics EXCEPT ![i].hosts = h]
  /\ UNCHANGED <<chosen, legacy, listener, address>>

\* start_sharing() and resolve_bind_ip(); without an address nothing starts.
Resolve ==
  /\ listener = "no" /\ listener' = "resolved"
  /\ \/ chosen # "auto" /\ address' = chosen
     \/ chosen = "auto" /\ \E i \in Best : address' \in FirstLan(nics[i])
  /\ UNCHANGED <<nics, chosen, legacy>>
\* validate_local_ip(), with the adapters of that moment: it goes on or raises.  127.0.0.1
\* may always be used.
Valid == address \in Assigned \cup {"loopback"}
Validate ==
  /\ listener = "resolved" /\ listener' = (IF Valid THEN "on" ELSE "no")
  /\ UNCHANGED <<nics, chosen, legacy, address>>
\* One poll in eight of a legacy share; adapters that cannot be listed say nothing.
AddressGone ==
  /\ listener = "on" /\ legacy /\ nics # <<>> /\ address \notin Assigned /\ listener' = "no"
  /\ UNCHANGED <<nics, chosen, legacy, address>>
\* The user or the viewer ends it.
ShareLeaves ==
  /\ listener = "on" /\ listener' = "no" /\ UNCHANGED <<nics, chosen, legacy, address>>

\* Any adapter, alone or beside those of a usual machine.
Some ==
  [type : Types, names : {{}, {"mesh"}, {"vpn"}, {"container", "hypervisor"}},
   up : BOOLEAN, speed : {0, 1000},
   hosts : {<<>>, <<"public", "lan2">>, <<"mesh">>, <<"loopback">>}]
Usual(type, speed) ==
  [type |-> type, names |-> {}, up |-> TRUE, speed |-> speed, hosts |-> <<"lan">>]
Machines ==
  {<<Usual("wifi", 300), Usual("ethernet", speed)>> : speed \in {0, 50}}
  \cup UNION {{<<a>>, <<a, Usual("wifi", 300)>>, <<Usual("ethernet", 1000), a>>} : a \in Some}

AnyMachine == <<Usual("wifi", 300), Usual("ethernet", 0)>>

AdapterInit ==
  /\ nics \in Machines /\ chosen \in {"auto", "lan2"} /\ legacy \in BOOLEAN
  /\ listener = "no" /\ address = "none"
AdapterNext == AdaptersChange \/ Resolve \/ Validate \/ AddressGone \/ ShareLeaves
AdapterSpec == AdapterInit /\ [][AdapterNext]_adapterVars

-----------------------------------------------------------------------------
\* Where other computers of the LAN find a share: on a private address of an adapter that
\* is up, wired or wireless by its type, and by none of its names virtual or a tunnel.
OnLan(a) == a.up /\ a.type \in Physical /\ a.names = {} /\ LanHosts(a) # {} /\ ~LoopsBack(a)
Wired(a) == OnLan(a) /\ a.type = "ethernet" /\ a.speed > 0
RightAddress(h) ==
  \E i \in DOMAIN nics :
    /\ OnLan(nics[i]) /\ h \in LanHosts(nics[i])
    /\ nics[i].type = "wifi" => \A j \in DOMAIN nics : ~Wired(nics[j])
\* Without a saved address a share starts there, and not on Wi-Fi if a wired adapter of
\* known speed is there; and it listens only on an address the machine has by then.
AddressRight ==
  /\ listener = "no" /\ listener' = "resolved" /\ chosen = "auto" => RightAddress(address')
  /\ listener = "resolved" /\ listener' = "on" => Valid
=============================================================================
