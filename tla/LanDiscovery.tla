---------------------------- MODULE LanDiscovery ----------------------------
(***************************************************************************)
(* The neighbours a LAN agent knows (apps/lan-agent/src/discovery.ts): its *)
(* list by node id, fed by mDNS, by probing configured hosts and by manual *)
(* entries, and what a group page learns of it (apps/web/src/lib/lan.ts).  *)
(* Hosts come and go, and a host's id changes when its user logs in, while *)
(* its manifest goes on giving the id it was started with.                 *)
(***************************************************************************)
EXTENDS Integers

CONSTANTS
    Here,          \* the host of the agent
    Others,        \* the other hosts
    BootId,        \* host -> the id its agent is started with
    AccountId,     \* host -> the id of the user who logs in there
    Probed,        \* other hosts in DPE_DISCOVERY_PROBE_HOSTS
    MaxRestarts    \* bound on agents, ours or others, that are restarted

Hosts == Others \cup {Here}
Ids == {BootId[h] : h \in Hosts} \cup {AccountId[h] : h \in Hosts}

ASSUME HostAssumption == Here \notin Others /\ Probed \subseteq Others
ASSUME IdAssumption == BootId \in [Hosts -> Ids] /\ AccountId \in [Hosts -> Ids]
ASSUME RestartAssumption == MaxRestarts \in Nat
ASSUME NoneAssumption == "none" \notin Ids

VARIABLES
    alive,       \* host -> its agent runs
    uid,         \* host -> identity.uid, which it publishes
    restarts,
    services,    \* host -> the id under which our mDNS browser has its service, "none"
    list,        \* byUid: id -> [source, host]; source "none" for no entry
    probing,     \* the probe that runs: the id it skips, "none" for no probe
    found,       \* its results, pairs of an id and a host
    link,        \* the page's WebSocket to our agent is open
    seen         \* the hosts whose signaling URL the page has ever seen

hostVars == <<alive, uid, restarts>>
heardVars == <<link, seen>>
lanVars == <<hostVars, services, list, probing, found, heardVars>>

NoEntry == [source |-> "none", host |-> Here]
Sources == {"none", "manual", "mdns", "probe"}
Listed(l) == {l[k].host : k \in {j \in Ids : l[j].source # "none"}}

LanInit ==
    /\ alive = [h \in Hosts |-> TRUE]
    /\ uid = BootId
    /\ restarts = 0
    /\ services = [h \in Hosts |-> "none"]
    /\ list = [k \in Ids |-> NoEntry]
    /\ probing = "none" /\ found = {}
    /\ link = FALSE /\ seen = {}
-----------------------------------------------------------------------------
(* The page: it passes on any URL it has once seen, and forgets none. *)

(* emit and broadcastDiscovery: whoever is connected gets the new list.    *)
Emit(l) ==
    seen' = (IF link THEN seen \cup Listed(l) ELSE seen) /\ UNCHANGED link

(* The WebSocket opens, at first or 2 s after it closed; the agent sends   *)
(* its list at once.                                                       *)
Connect ==
    /\ ~link /\ alive[Here]
    /\ link' = TRUE
    /\ seen' = seen \cup Listed(list)
    /\ UNCHANGED <<hostVars, services, list, probing, found>>

Disconnect ==
    /\ link
    /\ link' = FALSE
    /\ UNCHANGED <<hostVars, services, list, probing, found, seen>>

(* fetchDiscovery when the page opens; an answer that comes after newer    *)
(* lists has nothing to add to them.                                       *)
Fetch ==
    /\ alive[Here]
    /\ seen' = seen \cup Listed(list)
    /\ UNCHANGED <<hostVars, services, list, probing, found, link>>
-----------------------------------------------------------------------------
(* The list *)

(* Mutant: whatever was heard last replaces an entry.                      *)
upsertAlways(l, k, h, source) == [l EXCEPT ![k] = [source |-> source, host |-> h]]

(* A manual entry is replaced by a manual one only.                        *)
upsert(l, k, h, source) ==
    IF l[k].source = "manual" /\ source # "manual" THEN l
    ELSE [l EXCEPT ![k] = [source |-> source, host |-> h]]

(* Our agent hears of host h's service, which it did not have, and skips   *)
(* its own.                                                                *)
Up(h) ==
    /\ alive[Here] /\ alive[h] /\ services[h] = "none"
    /\ services' = [services EXCEPT ![h] = uid[h]]
    /\ IF uid[h] = uid[Here] THEN UNCHANGED <<list, heardVars>>
       ELSE list' = upsert(list, uid[h], h, "mdns") /\ Emit(list')
    /\ UNCHANGED <<hostVars, probing, found>>

(* Mutant: an entry stays when its service goes.                           *)
DownKeeps(h) ==
    /\ alive[Here] /\ services[h] # "none"
    /\ ~alive[h] \/ uid[h] # services[h]
    /\ services' = [services EXCEPT ![h] = "none"]
    /\ UNCHANGED <<hostVars, list, probing, found, heardVars>>

(* The goodbye of a service that is gone, or published anew under another  *)
(* id; it may be lost.                                                     *)
Down(h) ==
    /\ alive[Here] /\ services[h] # "none"
    /\ ~alive[h] \/ uid[h] # services[h]
    /\ services' = [services EXCEPT ![h] = "none"]
    /\ IF list[services[h]].source = "mdns"
       THEN list' = [list EXCEPT ![services[h]] = NoEntry] /\ Emit(list')
       ELSE UNCHANGED <<list, heardVars>>
    /\ UNCHANGED <<hostVars, probing, found>>

(* Mutant: hosts are probed only while nobody is listed.                   *)
ProbeWhileAlone ==
    /\ alive[Here] /\ probing = "none" /\ Probed # {} /\ Listed(list) = {}
    /\ probing' = uid[Here]
    /\ UNCHANGED <<hostVars, services, list, found, heardVars>>

(* runProbe, every 15 s, with the id of that moment.                       *)
Probe ==
    /\ alive[Here] /\ probing = "none" /\ Probed # {}
    /\ probing' = uid[Here]
    /\ UNCHANGED <<hostVars, services, list, found, heardVars>>

(* A host's manifest.                                                      *)
ProbeReply(h) ==
    /\ probing # "none" /\ alive[h] /\ BootId[h] # probing
    /\ found' = found \cup {<<BootId[h], h>>}
    /\ UNCHANGED <<hostVars, services, list, probing, heardVars>>

(* All hosts have answered or timed out: the entries go into the list one  *)
(* after another.                                                          *)
ProbeEnd ==
    /\ probing # "none"
    /\ \A h \in Probed : alive[h] /\ BootId[h] # probing => <<BootId[h], h>> \in found
    /\ list' = [k \in Ids |->
           IF \E h \in Hosts : <<k, h>> \in found
           THEN upsert(list, k, CHOOSE h \in Hosts : <<k, h>> \in found, "probe")[k]
           ELSE list[k]]
    /\ IF found = {} THEN UNCHANGED heardVars ELSE Emit(list')
    /\ probing' = "none" /\ found' = {}
    /\ UNCHANGED <<hostVars, services>>

(* POST /peers/manual: the user has another host's id and address.         *)
registerManual(h) ==
    /\ alive[Here]
    /\ list' = upsert(list, uid[h], h, "manual")
    /\ Emit(list')
    /\ UNCHANGED <<hostVars, services, probing, found>>
-----------------------------------------------------------------------------
(* Hosts *)

(* POST /identity after a login: mDNS publishes the new id; entries and    *)
(* the manifest are as before.                                             *)
setLocalNodeId(h) ==
    /\ alive[h] /\ uid[h] # AccountId[h]
    /\ uid' = [uid EXCEPT ![h] = AccountId[h]]
    /\ IF h = Here THEN Emit(list) ELSE UNCHANGED heardVars
    /\ UNCHANGED <<alive, restarts, services, list, probing, found>>

Goes(h) ==
    /\ alive[h] /\ restarts < MaxRestarts
    /\ alive' = [alive EXCEPT ![h] = FALSE]
    /\ restarts' = restarts + 1
    /\ IF h = Here
       THEN /\ services' = [o \in Hosts |-> "none"]
            /\ list' = [k \in Ids |-> NoEntry]
            /\ probing' = "none" /\ found' = {}
            /\ link' = FALSE
       ELSE UNCHANGED <<services, list, probing, found, link>>
    /\ UNCHANGED <<uid, seen>>

Boots(h) ==
    /\ ~alive[h]
    /\ alive' = [alive EXCEPT ![h] = TRUE]
    /\ uid' = [uid EXCEPT ![h] = BootId[h]]
    /\ UNCHANGED <<restarts, services, list, probing, found, heardVars>>

LanNext ==
    \/ Connect \/ Disconnect \/ Fetch \/ Probe \/ ProbeEnd
    \/ \E h \in Probed : ProbeReply(h)
    \/ \E h \in Others : registerManual(h)
    \/ \E h \in Hosts : Up(h) \/ Down(h) \/ setLocalNodeId(h) \/ Goes(h) \/ Boots(h)

LanSpec == LanInit /\ [][LanNext]_lanVars

(* Timers fire, hosts that are probed answer, and the page reconnects;     *)
(* nothing is owed by mDNS, users or hosts.                                *)
LanFairness ==
    /\ WF_lanVars(Probe) /\ WF_lanVars(ProbeEnd) /\ WF_lanVars(Connect)
    /\ \A h \in Probed : WF_lanVars(ProbeReply(h))

LanFairSpec == LanSpec /\ LanFairness
-----------------------------------------------------------------------------
LanTypeOK ==
    /\ alive \in [Hosts -> BOOLEAN]
    /\ uid \in [Hosts -> Ids]
    /\ restarts \in 0..MaxRestarts
    /\ services \in [Hosts -> Ids \cup {"none"}]
    /\ list \in [Ids -> [source : Sources, host : Hosts]]
    /\ probing \in Ids \cup {"none"}
    /\ found \subseteq Ids \X Probed
    /\ probing = "none" => found = {}
    /\ link \in BOOLEAN /\ (link => alive[Here])
    /\ seen \subseteq Hosts

(* What mDNS says and the list agree, whatever else wrote to the list: an  *)
(* entry from mDNS has its service, so that the goodbye will remove it.    *)
MdnsEntriesHaveService ==
    \A k \in Ids : list[k].source = "mdns" => \E h \in Hosts : services[h] = k

(* Each of the other hosts has its own user.                               *)
DistinctNeighbours ==
    \A h, o \in Others :
        h # o => {BootId[h], AccountId[h]} \cap {BootId[o], AccountId[o]} = {}

(* Then a service of another host, whose id is not ours, has its entry: no *)
(* probe, manual entry or goodbye of another service removes it. Two hosts *)
(* of one user share an entry, and the goodbye of either removes it.       *)
ServicesAreListed ==
    \A h \in Others :
        services[h] # "none" /\ services[h] \notin {BootId[Here], AccountId[Here]}
            => list[services[h]].source # "none"

(* What the user entered stays as entered.                                 *)
ManualStays ==
    [][\A k \in Ids : list[k].source = "manual" =>
          list'[k].source = "manual" \/ ~alive'[Here]]_lanVars

(* A probed host that stays is listed under the id of its manifest in the  *)
(* end and from then on, whatever mDNS loses.                              *)
NeighbourIsListed ==
    \A h \in Probed :
        BootId[h] \notin {BootId[Here], AccountId[Here]} =>
            (<>[](alive[h] /\ alive[Here]) => <>[](list[BootId[h]].source # "none"))

(* Its signaling server reaches the page, through lost connections and     *)
(* answers that are late.                                                  *)
PageLearns ==
    \A h \in Hosts : <>[](h \in Listed(list)) => <>(h \in seen)

(* A neighbour that is gone for good disappears from the list.             *)
GoneIsUnlisted ==
    \A h \in Others : <>[](~alive[h] /\ alive[Here]) => <>[](h \notin Listed(list))
==============================================================================
