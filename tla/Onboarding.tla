----------------------------- MODULE Onboarding -----------------------------
(***************************************************************************)
(* From a host on the network to a certificate on it: an operator scans an *)
(* address (certctl scan), may override the status it got (certctl trust), *)
(* issues a certificate under the device id the scan printed (certctl      *)
(* issue, the gate before it) and copies it to the address that was        *)
(* scanned.  Meanwhile DHCP hands the addresses out anew.                  *)
(*                                                                         *)
(* What the components know of each other is a name: an address for the    *)
(* scan and the copy, a device id for the inventory and the gate, a common *)
(* name for the certificate and the blacklist.  TrustGate and Issuance     *)
(* look into the subcommands; here each SQL statement that matters is a    *)
(* step, and so are the two looks a scan takes at the network.  A session  *)
(* may stop after any step.  The operators named Bug... are plausible      *)
(* slips in the definition after them, no part of Next.                    *)
(***************************************************************************)
EXTENDS TrustScore

CONSTANTS
  Hosts,    \* machines on the local network
  Vendor,   \* [Hosts -> the first three octets of the MAC address]
  Nic,      \* [Hosts -> the last three]
  PortsOf,  \* [Hosts -> open TCP ports]
  Ips,      \* addresses
  Types,    \* device types, as the operator names them
  Leases,   \* the ways DHCP may hand the addresses out
  Sessions, \* an operator putting one device on board
  Overrides, Listed,  \* bounds: the statuses operators set by hand, and the
                      \* common names they blacklist
  Nobody,   \* no host, or a host whose MAC is not seen
  NoRow

ASSUME NetworkAssumption ==
  /\ Vendor \in [Hosts -> Mac \ {NoMac}]
  /\ PortsOf \in [Hosts -> SUBSET Port]
  /\ Nobody \notin Hosts \cup Sessions
  /\ \A h \in Hosts : Nic[h] \notin Ips
  /\ \A a \in Leases :
       /\ a \in [Ips -> Hosts \cup {Nobody}]
       /\ \A i, j \in Ips : a[i] = a[j] /\ a[i] # Nobody => i = j
  /\ Overrides \subseteq Status

VARIABLES
  address,       \* [Ips -> the host that answers there, or Nobody]
  devices,       \* [DeviceId -> Device, or NoRow]
  certificates,  \* [Sessions -> the row of the certificate issued, or NoRow]
  blacklist,     \* common names
  session,       \* [Sessions -> how far it is and what it has found]
  files,         \* certs/issued/<id>/: the session that issued last, or Nobody
  holds,         \* [Hosts -> the certificate it has, and the session it is from]
  shows,         \* history: [DeviceId -> the host a row is about, or Nobody]
  vetted         \* history: a host found, or declared, trusted under an id

network == <<address, holds>>
history == <<shows, vetted>>
vars == <<address, devices, certificates, blacklist, session, files, holds, shows,
          vetted>>

\* A suffix of the MAC, or the address, behind the type.
DeviceId == Types \X ({Nic[h] : h \in Hosts} \cup Ips)

Device == [mac : Hosts \cup {Nobody}, status : Status]

\* A session is its own serial, since it issues once.
Store == INSTANCE CertificateStore
           WITH Serials <- Sessions, Names <- DeviceId, Blank <- Nobody,
                events <- {}

ASSUME InventoryAssumption ==
  NoRow \notin Device /\ NoRow \notin Store!Row /\ Listed \subseteq DeviceId

Idle == [pc |-> "idle", ip |-> Nobody, type |-> Nobody, probed |-> Nobody,
         mac |-> Nobody, id |-> Nobody, moved |-> FALSE, vouched |-> FALSE,
         forced |-> FALSE]

At(p, pc) == session[p].pc = pc

\* The host that a row is about has been given a status.
Vetted(id, about, status) ==
  IF status = "trusted" /\ about # Nobody THEN vetted \cup {<<id, about>>} ELSE vetted

-----------------------------------------------------------------------------
(* certctl scan <ip> <type>.                                               *)

OpenPorts(h) == IF h = Nobody THEN {} ELSE PortsOf[h]
MacOf(h) == IF h = Nobody THEN NoMac ELSE Vendor[h]

\* nmap: whoever answers at the address, or nobody and no port.
Nmap(p, ip, type) ==
  /\ At(p, "idle")
  /\ session' = [session EXCEPT ![p] =
       [Idle EXCEPT !.pc = "mac", !.ip = ip, !.type = type,
                    !.probed = address[ip]]]
  /\ UNCHANGED <<network, devices, certificates, blacklist, files, history>>

\* Mutant: the type is left out.
BugTypeless(type, mac, ip) == IF mac = Nobody THEN ip ELSE Nic[mac]

\* Mutant: the address names the device.
BugDeviceIdFor(type, mac, ip) == <<type, ip>>

\* The MAC that was found, whose vendor half is not part of the id, or the
\* address that was scanned.
deviceIDFor(type, mac, ip) == <<type, IF mac = Nobody THEN ip ELSE Nic[mac]>>

\* ip neigh: the MAC of whoever has the address by now, or an entry missing.
LookUpMac(p) ==
  /\ At(p, "mac")
  /\ \E mac \in {address[session[p].ip], Nobody} :
       session' = [session EXCEPT ![p] =
         [@ EXCEPT !.pc = "record", !.mac = mac,
                   !.id = deviceIDFor(session[p].type, mac, session[p].ip)]]
  /\ UNCHANGED <<network, devices, certificates, blacklist, files, history>>

Found(p) == Calculate(MacOf(session[p].mac), OpenPorts(session[p].probed)).status

\* Mutant: a device that an operator has approved stays so.
BugScanned(p) ==
  LET row == devices[session[p].id] IN
  [mac |-> session[p].mac,
   status |-> IF row # NoRow /\ row.status = "trusted" THEN "trusted" ELSE Found(p)]

\* The row RecordScan leaves, whatever was there.
Scanned(p) == [mac |-> session[p].mac, status |-> Found(p)]

\* The upsert of RecordScan.  The row is about a host if that host had the
\* address from the probe until now.
RecordScan(p) ==
  LET id == session[p].id
      about == IF session[p].moved THEN Nobody ELSE session[p].probed
  IN
  /\ At(p, "record")
  /\ devices' = [devices EXCEPT ![id] = Scanned(p)]
  /\ shows' = [shows EXCEPT ![id] = about]
  /\ vetted' = Vetted(id, about, Found(p))
  /\ session' = [session EXCEPT ![p].pc = "scanned"]
  /\ UNCHANGED <<network, certificates, blacklist, files>>

-----------------------------------------------------------------------------
(* The rest.                                                               *)

\* certctl trust <id> <status>, of any operator.
Trust(id, status) ==
  /\ devices[id] # NoRow
  /\ devices' = [devices EXCEPT ![id].status = status]
  /\ vetted' = Vetted(id, shows[id], status)
  /\ UNCHANGED <<network, certificates, blacklist, session, files, shows>>

CheckIssuanceAllowed(id) == devices[id] # NoRow /\ devices[id].status = "trusted"

\* certctl issue <id> client, with or without --force: the gate.
Gate(p, force) ==
  LET id == session[p].id IN
  /\ At(p, "scanned")
  /\ session' = [session EXCEPT ![p] =
       [@ EXCEPT !.pc = IF CheckIssuanceAllowed(id) \/ force THEN "sign"
                                                              ELSE "refused",
                 !.forced = ~CheckIssuanceAllowed(id),
                 !.vouched = shows[id] # Nobody]]
  /\ UNCHANGED <<network, devices, certificates, blacklist, files, history>>

\* The certificate is signed, in place and recorded, whatever the gate says now.
Issue(p) ==
  /\ At(p, "sign")
  /\ Store!InsertCertificate(p, session[p].id, 0)
  /\ files' = [files EXCEPT ![session[p].id] = p]
  /\ session' = [session EXCEPT ![p].pc = "copy"]
  /\ UNCHANGED <<network, devices, blacklist, history>>

\* scp of what is in the directory of the id by now, to the address that was
\* scanned, over the files of an earlier session.
Copy(p) ==
  LET h == address[session[p].ip] IN
  /\ At(p, "copy")
  /\ IF h = Nobody
       THEN UNCHANGED holds
       ELSE holds' = [holds EXCEPT ![h] = [by |-> p, cert |-> files[session[p].id]]]
  /\ session' = [session EXCEPT ![p].pc = "done"]
  /\ UNCHANGED <<address, devices, certificates, blacklist, files, history>>

Blacklist(id) ==
  /\ blacklist' = blacklist \cup {id}
  /\ UNCHANGED <<network, devices, certificates, session, files, history>>

Unblacklist(id) ==
  /\ blacklist' = blacklist \ {id}
  /\ UNCHANGED <<network, devices, certificates, session, files, history>>

Still == {"idle", "done", "refused"}

\* Every session under way is overtaken.
Renumber(a) ==
  /\ a # address
  /\ address' = a
  /\ session' = [p \in Sessions |->
       [session[p] EXCEPT !.moved = @ \/ session[p].pc \notin Still]]
  /\ UNCHANGED <<devices, certificates, blacklist, files, holds, history>>

\* What CheckAuth answers on a certificate: its two lookups.
CheckAuth(s) == Store!RowStatus(s) = "issued" /\ certificates[s].cn \notin blacklist

-----------------------------------------------------------------------------

Init ==
  /\ address \in Leases
  /\ devices = [id \in DeviceId |-> NoRow]
  /\ certificates = [p \in Sessions |-> NoRow]
  /\ blacklist = {}
  /\ session = [p \in Sessions |-> Idle]
  /\ files = [id \in DeviceId |-> Nobody]
  /\ holds = [h \in Hosts |-> [by |-> Nobody, cert |-> Nobody]]
  /\ shows = [id \in DeviceId |-> Nobody]
  /\ vetted = {}

Next ==
  \/ \E p \in Sessions, ip \in Ips, type \in Types : Nmap(p, ip, type)
  \/ \E p \in Sessions : LookUpMac(p) \/ RecordScan(p) \/ Issue(p) \/ Copy(p)
  \/ \E p \in Sessions, force \in BOOLEAN : Gate(p, force)
  \/ \E id \in DeviceId, status \in Overrides : Trust(id, status)
  \/ \E id \in Listed : Blacklist(id) \/ Unblacklist(id)
  \/ \E a \in Leases : Renumber(a)

Spec == Init /\ [][Next]_vars

-----------------------------------------------------------------------------
(* Properties.                                                             *)

\* Types of the network, the tables and the sessions.
TypeOK ==
  /\ address \in Leases
  /\ devices \in [DeviceId -> Device \cup {NoRow}]
  /\ certificates \in [Sessions -> Store!Row \cup {NoRow}]
  /\ blacklist \subseteq Listed
  /\ session \in [Sessions ->
       [pc : Still \cup {"mac", "record", "scanned", "sign", "copy"},
        ip : Ips \cup {Nobody}, type : Types \cup {Nobody}, 
        probed : Hosts \cup {Nobody}, mac : Hosts \cup {Nobody},
        id : DeviceId \cup {Nobody},
        moved : BOOLEAN, vouched : BOOLEAN, forced : BOOLEAN]]
  /\ files \in [DeviceId -> Sessions \cup {Nobody}]
  /\ holds \in [Hosts -> [by : Sessions \cup {Nobody}, cert : Sessions \cup {Nobody}]]
  /\ shows \in [DeviceId -> Hosts \cup {Nobody}]
  /\ vetted \subseteq DeviceId \X Hosts

\* A host that the backend lets in with a certificate nobody forced has itself
\* been found trusted under that id, or been declared so by an operator while
\* the row was about it: never another host that had the address, the id or
\* the approval before.  Provided that no other MAC ends in the same three
\* octets, and that no address moved during the session, nor while the scan ran
\* whose row the gate read (main.go:163-176, store.go:493).
HolderWasVetted ==
  \A h \in Hosts : LET p == holds[h].by IN
    /\ p # Nobody
    /\ CheckAuth(holds[h].cert)
    /\ ~session[p].forced /\ session[p].vouched /\ ~session[p].moved
    /\ \A g \in Hosts : Nic[g] = Nic[h] => g = h
    => <<certificates[holds[h].cert].cn, h>> \in vetted

\* Blacklisting a device of the inventory that was seen with its MAC follows
\* that device through every rescan and reissue, at whatever address it is by
\* then: a session of its type that sees the MAC again gets it no certificate
\* that the backend accepts (main.go:299-301, store.go:224-227).
BlacklistFollowsTheDevice ==
  \A h \in Hosts, id \in blacklist : LET p == holds[h].by IN
    /\ devices[id] # NoRow /\ devices[id].mac = h
    /\ p # Nobody /\ session[p].mac = h /\ session[p].type = id[1]
    => ~CheckAuth(holds[h].cert)
=============================================================================
