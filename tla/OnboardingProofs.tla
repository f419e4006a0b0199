--------------------------- MODULE OnboardingProofs ---------------------------
(* TLAPS proofs about Onboarding, for any hosts, addresses, leases, types   *)
(* and sessions.                                                            *)
EXTENDS Onboarding, TrustScoreProofs

Session ==
  [pc : Still \cup {"mac", "record", "scanned", "sign", "copy"},
   ip : Ips \cup {Nobody}, type : Types \cup {Nobody},
   probed : Hosts \cup {Nobody}, mac : Hosts \cup {Nobody},
   id : DeviceId \cup {Nobody},
   moved : BOOLEAN, vouched : BOOLEAN, forced : BOOLEAN]

Copied == [by : Sessions \cup {Nobody}, cert : Sessions \cup {Nobody}]

TypesOK ==
  /\ address \in Leases
  /\ devices \in [DeviceId -> Device \cup {NoRow}]
  /\ certificates \in [Sessions -> Store!Row \cup {NoRow}]
  /\ blacklist \subseteq Listed
  /\ session \in [Sessions -> Session]
  /\ files \in [DeviceId -> Sessions \cup {Nobody}]
  /\ holds \in [Hosts -> Copied]
  /\ shows \in [DeviceId -> Hosts \cup {Nobody}]
  /\ vetted \subseteq DeviceId \X Hosts

\* No other MAC ends in the same three octets.
Unique(h) == \A g \in Hosts : Nic[g] = Nic[h] => g = h

\* A session past its neighbor table has an id.
Named(s) == s.pc \notin {"idle", "mac"}

\* What a session knows, given the network, what the rows show and who has been
\* vetted.  While no address moves, the one it scanned is still that host's.
SessionOK(s, a, sh, v) ==
  /\ s.pc # "idle" => s.ip \in Ips /\ s.type \in Types
  /\ Named(s) => s.id = deviceIDFor(s.type, s.mac, s.ip) /\ s.id \in DeviceId
  /\ s.pc \notin Still /\ ~s.moved => s.probed = a[s.ip]
  /\ Named(s) /\ ~s.moved => s.mac \in {s.probed, Nobody}
  /\ s.pc = "scanned" /\ ~s.moved /\ s.mac = Nobody =>
       sh[s.id] \in {s.probed, Nobody}
  /\ /\ s.pc \in {"sign", "copy", "done"}
     /\ ~s.forced /\ s.vouched /\ ~s.moved
     /\ s.probed \in Hosts /\ Unique(s.probed)
     => <<s.id, s.probed>> \in v

\* A row is of a host whose MAC it is filed under, and who is trusted in it has
\* been vetted.
RowOK(id, row, about, v) ==
  /\ row # NoRow /\ row.mac # Nobody => id[2] = Nic[row.mac]
  /\ about # Nobody => id[2] = Nic[about] \/ id[2] \in Ips
  /\ row # NoRow /\ row.status = "trusted" /\ about # Nobody => <<id, about>> \in v

\* The certificate of a directory is recorded under the id of the directory.
FileOK(id, s, rows) == s # Nobody => rows[s] \in Store!Row /\ rows[s].cn = id

\* What a host holds comes from a session that ended with it.
HoldOK(h, held, sessions, rows) ==
  held.by # Nobody =>
    LET s == sessions[held.by] IN
    /\ s.pc = "done"
    /\ FileOK(s.id, held.cert, rows) /\ held.cert # Nobody
    /\ ~s.moved => s.probed = h

\* The inductive invariant.
IInv ==
  /\ TypesOK
  /\ \A p \in Sessions : SessionOK(session[p], address, shows, vetted)
  /\ \A p \in Sessions : session[p].pc = "copy" => files[session[p].id] # Nobody
  /\ \A id \in DeviceId : RowOK(id, devices[id], shows[id], vetted)
  /\ \A id \in DeviceId : FileOK(id, files[id], certificates)
  /\ \A h \in Hosts : HoldOK(h, holds[h], session, certificates)

-----------------------------------------------------------------------------

LEMMA LeaseType ==
  ASSUME IInv
  PROVE  /\ address \in [Ips -> Hosts \cup {Nobody}]
         /\ \A ip \in Ips : address[ip] \in Hosts \cup {Nobody}
BY NetworkAssumption DEF IInv, TypesOK

LEMMA IdType ==
  ASSUME NEW type \in Types, NEW mac \in Hosts \cup {Nobody}, NEW ip \in Ips
  PROVE  /\ deviceIDFor(type, mac, ip) \in DeviceId
         /\ deviceIDFor(type, mac, ip)[1] = type
         /\ mac = Nobody => deviceIDFor(type, mac, ip)[2] = ip
         /\ mac # Nobody => deviceIDFor(type, mac, ip)[2] = Nic[mac]
BY DEF deviceIDFor, DeviceId

LEMMA InitOK == Init => IInv
<1> SUFFICES ASSUME Init PROVE IInv
  OBVIOUS
<1>1. Idle \in Session /\ Idle.pc = "idle"
  BY DEF Idle, Session, Still
<1>2. TypesOK
  BY <1>1 DEF Init, TypesOK, Copied
<1>3. \A p \in Sessions : SessionOK(session[p], address, shows, vetted)
  BY <1>1 DEF Init, SessionOK, Named, Still
<1>4. \A id \in DeviceId : RowOK(id, devices[id], shows[id], vetted)
                           /\ FileOK(id, files[id], certificates)
  BY DEF Init, RowOK, FileOK
<1>5. \A h \in Hosts : HoldOK(h, holds[h], session, certificates)
  BY DEF Init, HoldOK
<1> QED
  BY <1>1, <1>2, <1>3, <1>4, <1>5 DEF IInv, Init

\* A session keeps what it knows while the network stays, nobody is forgotten
\* and the row of its id shows nobody else than it did or the host it probed.
LEMMA SessionStays ==
  ASSUME NEW s, NEW a, NEW sh, NEW tt, NEW v, NEW w, SessionOK(s, a, sh, v),
         v \subseteq w,
         s.pc = "scanned" /\ ~s.moved /\ s.mac = Nobody =>
           tt[s.id] \in {sh[s.id], s.probed, Nobody}
  PROVE  SessionOK(s, a, tt, w)
BY DEF SessionOK

\* A step that replaces the record of one session that has not ended, and lets
\* the rest of what sessions see be.
LEMMA SessionStep ==
  ASSUME IInv, NEW p \in Sessions, NEW s \in Session,
         session' = [session EXCEPT ![p] = s], session[p].pc # "done",
         SessionOK(s, address, shows, vetted),
         s.pc = "copy" => files'[s.id] # Nobody,
         \A id \in DeviceId : files[id] # Nobody => files'[id] # Nobody,
         \A q \in Sessions : certificates[q] # NoRow =>
           certificates'[q] = certificates[q],
         UNCHANGED <<address, shows, vetted>>
  PROVE  /\ session' \in [Sessions -> Session]
         /\ \A q \in Sessions : SessionOK(session'[q], address', shows', vetted')
         /\ \A q \in Sessions : session'[q].pc = "copy" =>
              files'[session'[q].id] # Nobody
         /\ \A h \in Hosts : HoldOK(h, holds[h], session', certificates')
<1>1. session' \in [Sessions -> Session]
  BY DEF IInv, TypesOK
<1>2. \A q \in Sessions : session'[q] = IF q = p THEN s ELSE session[q]
  BY DEF IInv, TypesOK
<1>3. \A q \in Sessions : SessionOK(session'[q], address', shows', vetted')
  BY <1>2 DEF IInv
<1>4. ASSUME NEW q \in Sessions, session'[q].pc = "copy"
      PROVE  files'[session'[q].id] # Nobody
  <2>1. CASE q = p
    BY <1>2, <1>4, <2>1
  <2>2. CASE q # p
    <3>1. session'[q] = session[q] /\ session[q].id \in DeviceId
      BY <1>2, <1>4, <2>2 DEF IInv, SessionOK, Named
    <3> QED
      BY <1>4, <3>1 DEF IInv
  <2> QED
    BY <2>1, <2>2
<1>5. ASSUME NEW h \in Hosts PROVE HoldOK(h, holds[h], session', certificates')
  <2> SUFFICES ASSUME holds[h].by # Nobody
               PROVE  HoldOK(h, holds[h], session', certificates')
    BY DEF HoldOK
  <2>1. HoldOK(h, holds[h], session, certificates)
    BY DEF IInv
  <2>2. /\ holds[h].by \in Sessions /\ holds[h].cert \in Sessions \cup {Nobody}
        /\ session[holds[h].by].pc = "done"
    BY <2>1 DEF IInv, TypesOK, Copied, HoldOK
  <2>3. session'[holds[h].by] = session[holds[h].by]
    BY <1>2, <2>2
  <2>4. holds[h].cert \in Sessions /\ certificates[holds[h].cert] \in Store!Row
    BY <2>1, <2>2 DEF HoldOK, FileOK
  <2>5. certificates'[holds[h].cert] = certificates[holds[h].cert]
    BY <2>4, InventoryAssumption
  <2> QED
    BY <2>1, <2>3, <2>5 DEF HoldOK, FileOK
<1> QED
  BY <1>1, <1>3, <1>4, <1>5

-----------------------------------------------------------------------------

LEMMA NmapOK ==
  ASSUME IInv, NEW p \in Sessions, NEW ip \in Ips, NEW type \in Types,
         Nmap(p, ip, type)
  PROVE  IInv'
<1> DEFINE s == [Idle EXCEPT !.pc = "mac", !.ip = ip, !.type = type,
                             !.probed = address[ip]]
<1>1. /\ s \in Session /\ s.pc = "mac" /\ s.ip = ip /\ s.type = type
      /\ s.probed = address[ip]
  BY LeaseType DEF Idle, Session, Still
<1>2. /\ session' = [session EXCEPT ![p] = s] /\ session[p].pc = "idle"
      /\ UNCHANGED <<network, devices, certificates, blacklist, files, history>>
  BY DEF Nmap, At
<1> HIDE DEF s
<1>3. SessionOK(s, address, shows, vetted)
  BY <1>1 DEF SessionOK, Named, Still
<1> QED
  BY <1>1, <1>2, <1>3, SessionStep DEF IInv, TypesOK, network, history

LEMMA LookUpMacOK ==
  ASSUME IInv, NEW p \in Sessions, LookUpMac(p)
  PROVE  IInv'
<1> DEFINE s(mac) == [session[p] EXCEPT !.pc = "record", !.mac = mac,
                        !.id = deviceIDFor(session[p].type, mac, session[p].ip)]
<1>1. /\ session[p] \in Session /\ SessionOK(session[p], address, shows, vetted)
      /\ session[p].pc = "mac"
      /\ UNCHANGED <<network, devices, certificates, blacklist, files, history>>
  BY DEF IInv, TypesOK, LookUpMac, At
<1>2. PICK mac \in {address[session[p].ip], Nobody} :
        session' = [session EXCEPT ![p] = s(mac)]
  BY DEF LookUpMac
<1>3. /\ session[p].ip \in Ips /\ session[p].type \in Types
      /\ address[session[p].ip] \in Hosts \cup {Nobody}
  BY <1>1, LeaseType DEF SessionOK
<1>4. /\ mac \in Hosts \cup {Nobody}
      /\ deviceIDFor(session[p].type, mac, session[p].ip) \in DeviceId
  BY <1>3, IdType
<1> DEFINE t == s(mac)
<1>5. /\ t \in Session /\ t.pc = "record" /\ t.ip = session[p].ip
      /\ t.type = session[p].type /\ t.probed = session[p].probed
      /\ t.mac = mac /\ t.moved = session[p].moved
      /\ t.id = deviceIDFor(session[p].type, mac, session[p].ip)
  BY <1>1, <1>4 DEF Session, Still
<1>6. session' = [session EXCEPT ![p] = t]
  BY <1>2
<1> HIDE DEF t, s
<1>7. SessionOK(t, address, shows, vetted)
  BY <1>1, <1>3, <1>4, <1>5 DEF SessionOK, Named, Still
<1> QED
  BY <1>1, <1>5, <1>6, <1>7, SessionStep DEF IInv, TypesOK, network, history

\* The gate reads a row that is about the host of the session, or about nobody
\* that is known.
LEMMA GateOK ==
  ASSUME IInv, NEW p \in Sessions, NEW force \in BOOLEAN, Gate(p, force)
  PROVE  IInv'
<1> DEFINE id == session[p].id
           s == [session[p] EXCEPT
                   !.pc = IF CheckIssuanceAllowed(id) \/ force THEN "sign"
                                                                ELSE "refused",
                   !.forced = ~CheckIssuanceAllowed(id),
                   !.vouched = shows[id] # Nobody]
<1>1. /\ session[p] \in Session /\ SessionOK(session[p], address, shows, vetted)
      /\ session[p].pc = "scanned" /\ session' = [session EXCEPT ![p] = s]
      /\ UNCHANGED <<network, devices, certificates, blacklist, files, history>>
  BY DEF IInv, TypesOK, Gate, At
<1>2. /\ id = deviceIDFor(session[p].type, session[p].mac, session[p].ip)
      /\ id \in DeviceId /\ session[p].ip \in Ips /\ session[p].type \in Types
  BY <1>1 DEF SessionOK, Named
<1>3. CheckIssuanceAllowed(id) \in BOOLEAN
  BY DEF CheckIssuanceAllowed
<1>4. /\ s \in Session /\ s.pc \in {"sign", "refused"} /\ s.ip = session[p].ip
      /\ s.type = session[p].type /\ s.probed = session[p].probed
      /\ s.mac = session[p].mac /\ s.id = id /\ s.moved = session[p].moved
      /\ s.forced = ~CheckIssuanceAllowed(id)
      /\ s.vouched = (shows[id] # Nobody)
  BY <1>1, <1>3 DEF Session, Still
<1>5. ASSUME ~s.forced, s.vouched, ~s.moved, s.probed \in Hosts, Unique(s.probed)
      PROVE  <<id, s.probed>> \in vetted
  <2>1. devices[id] # NoRow /\ devices[id].status = "trusted" /\ shows[id] # Nobody
    BY <1>4, <1>5 DEF CheckIssuanceAllowed
  <2>2. /\ <<id, shows[id]>> \in vetted /\ shows[id] \in Hosts
        /\ id[2] = Nic[shows[id]] \/ id[2] \in Ips
    BY <1>2, <2>1 DEF IInv, TypesOK, RowOK
  <2>3. s.mac \in {s.probed, Nobody}
    BY <1>1, <1>4, <1>5 DEF SessionOK, Named
  <2>4. CASE s.mac = Nobody
    BY <1>1, <1>4, <1>5, <2>1, <2>2, <2>4 DEF SessionOK
  <2>5. CASE s.mac = s.probed
    <3>1. s.mac \in Hosts \cup {Nobody} /\ s.mac # Nobody
      BY <1>5, <2>5, NetworkAssumption
    <3>2. id[2] = Nic[s.probed]
      BY <1>2, <1>4, <2>5, <3>1, IdType
    <3>3. Nic[shows[id]] = Nic[s.probed]
      BY <1>5, <2>2, <3>2, NetworkAssumption
    <3> QED
      BY <1>5, <2>2, <3>3 DEF Unique
  <2> QED
    BY <2>3, <2>4, <2>5
<1> HIDE DEF s, id
<1>6. SessionOK(s, address, shows, vetted)
  <2>1. /\ s.id = deviceIDFor(s.type, s.mac, s.ip) /\ s.id \in DeviceId
        /\ s.ip \in Ips /\ s.type \in Types
    BY <1>2, <1>4
  <2>2. ~s.moved => s.probed = address[s.ip] /\ s.mac \in {s.probed, Nobody}
    BY <1>1, <1>4 DEF SessionOK, Named, Still
  <2> QED
    BY <1>4, <1>5, <2>1, <2>2 DEF SessionOK, Named
<1>7. s.pc # "copy" /\ session[p].pc # "done"
  BY <1>1, <1>4
<1> QED
  BY <1>1, <1>4, <1>6, <1>7, SessionStep DEF IInv, TypesOK, network, history

LEMMA IssueOK ==
  ASSUME IInv, NEW p \in Sessions, Issue(p)
  PROVE  IInv'
<1> DEFINE s == [session[p] EXCEPT !.pc = "copy"]
           id == session[p].id
           row == [cn |-> id, expires |-> 0, status |-> "issued"]
<1>1. /\ session[p] \in Session /\ SessionOK(session[p], address, shows, vetted)
      /\ session[p].pc = "sign" /\ session' = [session EXCEPT ![p] = s]
      /\ files' = [files EXCEPT ![id] = p]
      /\ UNCHANGED <<network, devices, blacklist, history>>
  BY DEF IInv, TypesOK, Issue, At
<1>2. id \in DeviceId
  BY <1>1 DEF SessionOK, Named
<1>3. /\ certificates[p] = NoRow
      /\ certificates' = [certificates EXCEPT ![p] = row]
  BY DEF Issue, Store!InsertCertificate
<1>4. row \in Store!Row /\ row.cn = id
  BY <1>2 DEF Store!Row
<1>5. /\ s \in Session /\ s.pc = "copy" /\ s.ip = session[p].ip
      /\ s.type = session[p].type /\ s.probed = session[p].probed
      /\ s.mac = session[p].mac /\ s.id = id /\ s.moved = session[p].moved
      /\ s.forced = session[p].forced /\ s.vouched = session[p].vouched
  BY <1>1 DEF Session, Still
<1> HIDE DEF s, id, row
<1>6. SessionOK(s, address, shows, vetted)
  BY <1>1, <1>5 DEF SessionOK, Named, Still, id
<1>7. /\ \A e \in DeviceId : files[e] # Nobody => files'[e] # Nobody
      /\ files'[s.id] # Nobody /\ files' \in [DeviceId -> Sessions \cup {Nobody}]
  BY <1>1, <1>2, <1>5, NetworkAssumption DEF IInv, TypesOK
<1>8. /\ certificates' \in [Sessions -> Store!Row \cup {NoRow}]
      /\ \A q \in Sessions : certificates[q] # NoRow =>
           certificates'[q] = certificates[q]
  BY <1>3, <1>4 DEF IInv, TypesOK
<1>9. ASSUME NEW e \in DeviceId PROVE FileOK(e, files'[e], certificates')
  <2>1. CASE e = id
    <3>1. files'[e] = p /\ certificates'[p] = row
      BY <1>1, <1>3, <2>1 DEF IInv, TypesOK
    <3> QED
      BY <1>4, <2>1, <3>1 DEF FileOK
  <2>2. CASE e # id
    <3>1. files'[e] = files[e] /\ FileOK(e, files[e], certificates)
          /\ files[e] \in Sessions \cup {Nobody}
      BY <1>1, <2>2 DEF IInv, TypesOK
    <3>2. files[e] # Nobody => certificates'[files[e]] = certificates[files[e]]
      BY <1>8, <3>1, InventoryAssumption DEF FileOK
    <3> QED
      BY <3>1, <3>2 DEF FileOK
  <2> QED
    BY <2>1, <2>2
<1>10. /\ session' \in [Sessions -> Session]
       /\ \A q \in Sessions : SessionOK(session'[q], address', shows', vetted')
       /\ \A q \in Sessions : session'[q].pc = "copy" =>
            files'[session'[q].id] # Nobody
       /\ \A h \in Hosts : HoldOK(h, holds[h], session', certificates')
  BY <1>1, <1>5, <1>6, <1>7, <1>8, SessionStep DEF network, history
<1> QED
  BY <1>1, <1>7, <1>8, <1>9, <1>10 DEF IInv, TypesOK, network, history

\* What RecordScan does to the inventory and to who has been vetted.
LEMMA RowScanned ==
  ASSUME IInv, NEW p \in Sessions, RecordScan(p)
  PROVE  /\ devices' \in [DeviceId -> Device \cup {NoRow}]
         /\ shows' \in [DeviceId -> Hosts \cup {Nobody}]
         /\ vetted \subseteq vetted' /\ vetted' \subseteq DeviceId \X Hosts
         /\ \A e \in DeviceId : RowOK(e, devices'[e], shows'[e], vetted')
<1> DEFINE s == session[p]
           about == IF s.moved THEN Nobody ELSE s.probed
           row == Scanned(p)
<1>1. s \in Session /\ SessionOK(s, address, shows, vetted) /\ s.pc = "record"
  BY DEF IInv, TypesOK, RecordScan, At
<1>2. /\ s.id = deviceIDFor(s.type, s.mac, s.ip) /\ s.id \in DeviceId
      /\ s.type \in Types /\ s.ip \in Ips /\ s.mac \in Hosts \cup {Nobody}
      /\ s.probed \in Hosts \cup {Nobody} /\ about \in Hosts \cup {Nobody}
  BY <1>1 DEF SessionOK, Named, Session
<1>3. Found(p) \in Status
  <2>1. MacOf(s.mac) \in Mac /\ OpenPorts(s.probed) \subseteq Port
    BY <1>2, NetworkAssumption DEF MacOf, OpenPorts, Mac
  <2> QED
    BY <2>1, ScoreType DEF Found
<1>4. row \in Device /\ row.mac = s.mac /\ row.status = Found(p)
  BY <1>2, <1>3 DEF Scanned, Device
<1>5. /\ devices' = [devices EXCEPT ![s.id] = row]
      /\ shows' = [shows EXCEPT ![s.id] = about]
      /\ vetted' = Vetted(s.id, about, Found(p))
  BY DEF RecordScan
<1> HIDE DEF row
<1>6. vetted \subseteq vetted' /\ vetted' \subseteq DeviceId \X Hosts
  BY <1>2, <1>5 DEF Vetted, IInv, TypesOK
<1>7. ASSUME NEW e \in DeviceId PROVE RowOK(e, devices'[e], shows'[e], vetted')
  <2>1. CASE e = s.id
    <3>1. devices'[e] = row /\ shows'[e] = about
      BY <1>5, <2>1 DEF IInv, TypesOK
    <3>2. row.mac # Nobody => e[2] = Nic[row.mac]
      BY <1>2, <1>4, <2>1, IdType
    <3>3. about # Nobody => e[2] = Nic[about] \/ e[2] \in Ips
      <4>1. about # Nobody => about = s.probed /\ s.mac \in {about, Nobody}
        BY <1>1 DEF SessionOK, Named
      <4> QED
        BY <1>2, <2>1, <4>1, IdType
    <3>4. row.status = "trusted" /\ about # Nobody => <<e, about>> \in vetted'
      BY <1>4, <1>5, <2>1 DEF Vetted
    <3> HIDE DEF about
    <3> QED
      BY <3>1, <3>2, <3>3, <3>4 DEF RowOK
  <2>2. CASE e # s.id
    <3>1. devices'[e] = devices[e] /\ shows'[e] = shows[e]
      BY <1>5, <2>2 DEF IInv, TypesOK
    <3>2. RowOK(e, devices[e], shows[e], vetted)
      BY DEF IInv
    <3> QED
      BY <1>6, <3>1, <3>2 DEF RowOK
  <2> QED
    BY <2>1, <2>2
<1> HIDE DEF about
<1> QED
  BY <1>2, <1>4, <1>5, <1>6, <1>7 DEF IInv, TypesOK

LEMMA RecordScanOK ==
  ASSUME IInv, NEW p \in Sessions, RecordScan(p)
  PROVE  IInv'
<1> DEFINE s == session[p]
           about == IF s.moved THEN Nobody ELSE s.probed
           t == [session[p] EXCEPT !.pc = "scanned"]
<1>1. s \in Session /\ SessionOK(s, address, shows, vetted) /\ s.pc = "record"
  BY DEF IInv, TypesOK, RecordScan, At
<1>2. /\ s.id = deviceIDFor(s.type, s.mac, s.ip) /\ s.id \in DeviceId
      /\ s.type \in Types /\ s.ip \in Ips /\ s.mac \in Hosts \cup {Nobody}
  BY <1>1 DEF SessionOK, Named, Session
<1>3. /\ session' = [session EXCEPT ![p] = t]
      /\ shows' = [shows EXCEPT ![s.id] = about]
      /\ UNCHANGED <<network, certificates, blacklist, files>>
  BY DEF RecordScan
<1>4. /\ t \in Session /\ t.pc = "scanned" /\ t.ip = s.ip /\ t.type = s.type
      /\ t.probed = s.probed /\ t.mac = s.mac /\ t.id = s.id /\ t.moved = s.moved
  BY <1>1 DEF Session, Still
<1> HIDE DEF t
<1>5. \A q \in Sessions : session'[q] = IF q = p THEN t ELSE session[q]
  BY <1>3 DEF IInv, TypesOK
<1>6. \A e \in DeviceId : shows'[e] = IF e = s.id THEN about ELSE shows[e]
  BY <1>3 DEF IInv, TypesOK
<1>7. session' \in [Sessions -> Session]
  BY <1>3, <1>4 DEF IInv, TypesOK
<1>8. SessionOK(t, address, shows', vetted')
  <2>1. t.mac = Nobody /\ ~t.moved => shows'[t.id] \in {t.probed, Nobody}
    BY <1>2, <1>4, <1>6
  <2>2. ~t.moved => t.probed = address[t.ip] /\ t.mac \in {t.probed, Nobody}
    BY <1>1, <1>4 DEF SessionOK, Named, Still
  <2> HIDE DEF s
  <2> QED
    BY <1>2, <1>4, <2>1, <2>2 DEF SessionOK, Named, Still
\* Another session that goes by the address sees the same host there.
<1>9. ASSUME NEW q \in Sessions, q # p
      PROVE  SessionOK(session[q], address, shows', vetted')
  <2> DEFINE u == session[q]
  <2>1. SessionOK(u, address, shows, vetted)
    BY DEF IInv
  <2>2. ASSUME u.pc = "scanned", ~u.moved, u.mac = Nobody
        PROVE  shows'[u.id] \in {shows[u.id], u.probed, Nobody}
    <3>1. /\ u.id \in DeviceId /\ u.id = deviceIDFor(u.type, Nobody, u.ip)
          /\ u.type \in Types /\ u.ip \in Ips /\ u.probed = address[u.ip]
      BY <2>1, <2>2 DEF SessionOK, Named, Still
    <3>2. u.id[2] = u.ip
      BY <3>1 DEF deviceIDFor
    <3>3. CASE u.id # s.id \/ about = Nobody
      BY <1>6, <3>1, <3>3
    <3>4. CASE u.id = s.id /\ about # Nobody
      <4>1. ~s.moved /\ about = s.probed /\ s.probed = address[s.ip]
        BY <1>1, <3>4 DEF SessionOK, Still
      <4>2. s.mac = Nobody
        BY <1>2, <3>1, <3>2, <3>4, IdType, NetworkAssumption
      <4>3. s.ip = u.ip
        BY <1>2, <3>2, <3>4, <4>2 DEF deviceIDFor
      <4> QED
        BY <1>6, <3>1, <3>4, <4>1, <4>3
    <3> QED
      BY <3>3, <3>4
  <2>3. vetted \subseteq vetted'
    BY RowScanned
  <2> HIDE DEF u
  <2>4. SessionOK(u, address, shows', vetted')
    BY <2>1, <2>2, <2>3, SessionStays
  <2> QED
    BY <2>4 DEF u
<1>10. \A q \in Sessions : SessionOK(session'[q], address, shows', vetted')
  BY <1>5, <1>8, <1>9
<1>11. \A q \in Sessions : session'[q].pc = "copy" => files[session'[q].id] # Nobody
  BY <1>4, <1>5 DEF IInv
<1>12. ASSUME NEW h \in Hosts PROVE HoldOK(h, holds[h], session', certificates)
  <2>1. HoldOK(h, holds[h], session, certificates)
        /\ holds[h].by \in Sessions \cup {Nobody}
    BY DEF IInv, TypesOK, Copied
  <2>2. holds[h].by # Nobody => session'[holds[h].by] = session[holds[h].by]
    BY <1>1, <1>5, <2>1 DEF HoldOK
  <2> QED
    BY <2>1, <2>2 DEF HoldOK
<1> QED
  BY <1>3, <1>7, <1>10, <1>11, <1>12, RowScanned DEF IInv, TypesOK, network

LEMMA TrustOK ==
  ASSUME IInv, NEW id \in DeviceId, NEW status \in Overrides, Trust(id, status)
  PROVE  IInv'
<1> DEFINE row == [devices[id] EXCEPT !.status = status]
<1>1. devices[id] # NoRow /\ devices[id] \in Device /\ status \in Status
  BY NetworkAssumption DEF Trust, IInv, TypesOK
<1>2. row \in Device /\ row.mac = devices[id].mac /\ row.status = status
  BY <1>1 DEF Device
<1>3. /\ devices' = [devices EXCEPT ![id] = row]
      /\ vetted' = Vetted(id, shows[id], status)
      /\ UNCHANGED <<network, certificates, blacklist, session, files, shows>>
  BY DEF Trust
<1> HIDE DEF row
<1>4. devices' \in [DeviceId -> Device \cup {NoRow}]
  BY <1>2, <1>3 DEF IInv, TypesOK
<1>5. vetted \subseteq vetted' /\ vetted' \subseteq DeviceId \X Hosts
  BY <1>3 DEF Vetted, IInv, TypesOK
<1>6. \A p \in Sessions : SessionOK(session[p], address, shows, vetted')
  BY <1>5, SessionStays DEF IInv
<1>7. ASSUME NEW e \in DeviceId PROVE RowOK(e, devices'[e], shows[e], vetted')
  <2>1. RowOK(e, devices[e], shows[e], vetted)
        /\ devices'[e] = IF e = id THEN row ELSE devices[e]
    BY <1>3 DEF IInv, TypesOK
  <2>2. CASE e = id
    BY <1>1, <1>2, <1>3, <2>1, <2>2 DEF RowOK, Vetted
  <2>3. CASE e # id
    BY <1>5, <2>1, <2>3 DEF RowOK
  <2> QED
    BY <2>2, <2>3
<1> QED
  BY <1>3, <1>4, <1>5, <1>6, <1>7 DEF IInv, TypesOK, network

\* The certificate of a directory goes to whoever has the address.
LEMMA CopyOK ==
  ASSUME IInv, NEW p \in Sessions, Copy(p)
  PROVE  IInv'
<1> DEFINE s == [session[p] EXCEPT !.pc = "done"]
           h == address[session[p].ip]
           held == [by |-> p, cert |-> files[session[p].id]]
<1>1. /\ session[p] \in Session /\ SessionOK(session[p], address, shows, vetted)
      /\ session[p].pc = "copy" /\ session' = [session EXCEPT ![p] = s]
      /\ UNCHANGED <<address, devices, certificates, blacklist, files, history>>
  BY DEF IInv, TypesOK, Copy, At
<1>2. session[p].id \in DeviceId /\ files[session[p].id] # Nobody
  BY <1>1 DEF SessionOK, Named, IInv
<1>3. /\ s \in Session /\ s.pc = "done" /\ s.ip = session[p].ip
      /\ s.type = session[p].type /\ s.probed = session[p].probed
      /\ s.mac = session[p].mac /\ s.id = session[p].id
      /\ s.moved = session[p].moved /\ s.forced = session[p].forced
      /\ s.vouched = session[p].vouched
  BY <1>1 DEF Session, Still
<1>4. \/ UNCHANGED holds
      \/ h # Nobody /\ holds' = [holds EXCEPT ![h] = held]
  BY DEF Copy
<1>5. h \in Hosts \cup {Nobody}
  BY <1>1, LeaseType DEF SessionOK
<1>6. ~s.moved => s.probed = h
  BY <1>1, <1>3 DEF SessionOK, Still
<1>7. held \in Copied /\ held.by = p /\ held.cert = files[session[p].id]
  BY <1>2 DEF IInv, TypesOK, Copied
<1> HIDE DEF s, h, held
<1>8. SessionOK(s, address, shows, vetted)
  BY <1>1, <1>3 DEF SessionOK, Named, Still
<1>9. /\ session' \in [Sessions -> Session]
      /\ \A q \in Sessions : SessionOK(session'[q], address', shows', vetted')
      /\ \A q \in Sessions : session'[q].pc = "copy" =>
           files'[session'[q].id] # Nobody
      /\ \A g \in Hosts : HoldOK(g, holds[g], session', certificates')
  BY <1>1, <1>3, <1>8, SessionStep DEF history
<1>10. holds' \in [Hosts -> Copied]
  BY <1>4, <1>7 DEF IInv, TypesOK
<1>11. ASSUME NEW g \in Hosts PROVE HoldOK(g, holds'[g], session', certificates')
  <2>1. CASE holds'[g] = holds[g]
    BY <1>9, <2>1
  <2>2. CASE g = h /\ holds'[g] = held
    <3>1. session'[p] = s /\ certificates' = certificates
      BY <1>1 DEF IInv, TypesOK
    <3>2. FileOK(s.id, held.cert, certificates) /\ held.cert # Nobody
      BY <1>2, <1>3, <1>7 DEF IInv
    <3> QED
      BY <1>3, <1>6, <1>7, <2>2, <3>1, <3>2 DEF HoldOK
  <2>3. holds'[g] = holds[g] \/ (g = h /\ holds'[g] = held)
    BY <1>4 DEF IInv, TypesOK
  <2> QED
    BY <2>1, <2>2, <2>3
<1> QED
  BY <1>1, <1>9, <1>10, <1>11 DEF IInv, TypesOK, history

LEMMA RenumberOK ==
  ASSUME IInv, NEW a \in Leases, Renumber(a)
  PROVE  IInv'
<1>1. /\ address' = a
      /\ UNCHANGED <<devices, certificates, blacklist, files, holds, history>>
  BY DEF Renumber
<1>2. ASSUME NEW p \in Sessions
      PROVE  /\ session'[p] \in Session /\ session'[p].pc = session[p].pc
             /\ session'[p].ip = session[p].ip /\ session'[p].type = session[p].type
             /\ session'[p].probed = session[p].probed
             /\ session'[p].mac = session[p].mac /\ session'[p].id = session[p].id
             /\ session'[p].forced = session[p].forced
             /\ session'[p].vouched = session[p].vouched
             /\ session'[p].moved <=>
                  session[p].moved \/ session[p].pc \notin Still
  <2> DEFINE moved == session[p].moved \/ session[p].pc \notin Still
  <2>1. session[p] \in Session
    BY DEF IInv, TypesOK
  <2>2. session'[p] = [session[p] EXCEPT !.moved = moved]
    BY DEF Renumber
  <2>3. moved \in BOOLEAN
    BY <2>1 DEF Session
  <2>4. session'[p].moved = moved
    BY <2>1, <2>2 DEF Session
  <2> HIDE DEF moved
  <2>5. /\ session'[p] \in Session /\ session'[p].pc = session[p].pc
        /\ session'[p].ip = session[p].ip /\ session'[p].type = session[p].type
        /\ session'[p].probed = session[p].probed
        /\ session'[p].mac = session[p].mac /\ session'[p].id = session[p].id
        /\ session'[p].forced = session[p].forced
        /\ session'[p].vouched = session[p].vouched
    BY <2>1, <2>2, <2>3 DEF Session
  <2> QED
    BY <2>4, <2>5 DEF moved
<1>3. session' \in [Sessions -> Session]
  BY <1>2 DEF Renumber
<1>4. ASSUME NEW p \in Sessions
      PROVE  SessionOK(session'[p], a, shows, vetted)
  <2>1. SessionOK(session[p], address, shows, vetted)
    BY DEF IInv
  <2> QED
    BY <1>2, <2>1 DEF SessionOK, Named, Still
<1>5. \A p \in Sessions : session'[p].pc = "copy" => files[session'[p].id] # Nobody
  BY <1>2 DEF IInv
<1>6. ASSUME NEW h \in Hosts PROVE HoldOK(h, holds[h], session', certificates)
  <2>1. HoldOK(h, holds[h], session, certificates)
        /\ holds[h].by \in Sessions \cup {Nobody}
    BY DEF IInv, TypesOK, Copied
  <2> QED
    BY <1>2, <2>1 DEF HoldOK, Still
<1> QED
  BY <1>1, <1>3, <1>4, <1>5, <1>6 DEF IInv, TypesOK, history

LEMMA BlacklistOK ==
  ASSUME IInv, NEW id \in Listed, Blacklist(id) \/ Unblacklist(id)
  PROVE  IInv'
<1>1. /\ blacklist' \subseteq Listed
      /\ UNCHANGED <<network, devices, certificates, session, files, history>>
  BY DEF Blacklist, Unblacklist, IInv, TypesOK
<1> QED
  BY <1>1 DEF IInv, TypesOK, network, history

LEMMA NextOK == IInv /\ [Next]_vars => IInv'
<1> SUFFICES ASSUME IInv, [Next]_vars PROVE IInv'
  OBVIOUS
<1>1. CASE UNCHANGED vars
  BY <1>1 DEF IInv, TypesOK, vars
<1>2. CASE Next
  BY <1>2, NmapOK, LookUpMacOK, RecordScanOK, IssueOK, CopyOK, GateOK, TrustOK,
     BlacklistOK, RenumberOK DEF Next
<1> QED
  BY <1>1, <1>2

LEMMA Invariance == Spec => []IInv
BY InitOK, NextOK, PTL DEF Spec

-----------------------------------------------------------------------------

\* Types of the network, the tables and the sessions.
THEOREM TypeCorrect == Spec => []TypeOK
<1>1. IInv => TypeOK
  BY DEF IInv, TypesOK, TypeOK, Session, Copied
<1> QED
  BY <1>1, Invariance, PTL

\* Whoever scans, approves and issues side by side while addresses move, a host
\* that is let in without force, and whose id and address are its own, was
\* itself vetted under that id.
THEOREM HolderVetted == Spec => []HolderWasVetted
<1>1. IInv => HolderWasVetted
  <2> SUFFICES ASSUME IInv, NEW h \in Hosts, holds[h].by # Nobody,
                      ~session[holds[h].by].forced, session[holds[h].by].vouched,
                      ~session[holds[h].by].moved, Unique(h)
               PROVE  <<certificates[holds[h].cert].cn, h>> \in vetted
    BY DEF HolderWasVetted, Unique
  <2> DEFINE s == session[holds[h].by]
  <2>1. s.pc = "done" /\ s.probed = h /\ certificates[holds[h].cert].cn = s.id
    BY DEF IInv, HoldOK, FileOK
  <2>2. SessionOK(s, address, shows, vetted)
    BY DEF IInv, TypesOK, Copied
  <2> QED
    BY <2>1, <2>2 DEF SessionOK
<1> QED
  BY <1>1, Invariance, PTL

\* A device that is blacklisted under the id of its MAC is refused with every
\* certificate that a session which saw this MAC has given it.
THEOREM BlacklistFollows == Spec => []BlacklistFollowsTheDevice
<1>1. IInv => BlacklistFollowsTheDevice
  <2> SUFFICES ASSUME IInv, NEW h \in Hosts, NEW id \in blacklist,
                      devices[id] # NoRow, devices[id].mac = h,
                      holds[h].by # Nobody, session[holds[h].by].mac = h,
                      session[holds[h].by].type = id[1]
               PROVE  certificates[holds[h].cert].cn = id
    BY DEF BlacklistFollowsTheDevice, CheckAuth
  <2> DEFINE s == session[holds[h].by]
  <2>1. s.pc = "done" /\ certificates[holds[h].cert].cn = s.id
    BY DEF IInv, HoldOK, FileOK
  <2>2. SessionOK(s, address, shows, vetted)
    BY DEF IInv, TypesOK, Copied
  <2>3. id \in DeviceId
    BY InventoryAssumption DEF IInv, TypesOK
  <2>4. id[2] = Nic[h] /\ h # Nobody
    BY <2>3, NetworkAssumption DEF IInv, RowOK
  <2>5. s.id = <<id[1], Nic[h]>>
    BY <2>1, <2>2, <2>4 DEF SessionOK, Named, deviceIDFor
  <2>6. id = <<id[1], id[2]>>
    BY <2>3 DEF DeviceId
  <2> QED
    BY <2>1, <2>4, <2>5, <2>6
<1> QED
  BY <1>1, Invariance, PTL
=============================================================================
