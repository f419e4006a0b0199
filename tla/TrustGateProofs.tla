-------------------------- MODULE TrustGateProofs ---------------------------
(* TLAPS proofs about TrustGate, for any devices, processes, observations  *)
(* and faults.                                                             *)
EXTENDS TrustGate, TrustScoreProofs

\* What holds of a process beside its type: a scan on its way to the table
\* still carries the status of its own score, and the count it has read is of
\* scans that were recorded.
ProcessOK(p, h) ==
  /\ p.op # "none" => p.device \in Devices
  /\ p.pc \notin {"idle", "failed"} => p.op # "none"
  /\ p.pc = "log" => p.op \in {"device_scanned", "trust_override"}
  /\ p.pc \in {"known", "upsert"} =>
       p.op = "device_scanned" /\ p.status = StatusOf(p.value)
  /\ p.pc = "upsert" => p.count \in 0..h[p.device].scans

\* StatusIsExplained and CountIsBacked, for one device.
RowOK(d) ==
  devices[d] # NoRow =>
    /\ devices[d].status = IF history[d].byHand THEN history[d].set
                                                ELSE StatusOf(devices[d].value)
    /\ devices[d].count \in 1..history[d].scans

Past == [shown : Nat, newest : Nat, manual : Nat, set : Status,
         byHand : BOOLEAN, scans : Nat]

Event == [type : {"device_scanned", "trust_override", "issue_blocked"},
          by : Commands, device : Devices, status : Status]

\* The inductive invariant.
IInv ==
  /\ devices \in [Devices -> Row \cup {NoRow}]
  /\ events \subseteq Event
  /\ command \in [Commands -> Command]
  /\ clock \in Nat
  /\ history \in [Devices -> Past]
  /\ \A c \in Commands : ProcessOK(command[c], history)
  /\ \A d \in Devices : RowOK(d)

LEMMA IdleType == Idle \in Command /\ Idle.pc = "idle" /\ Idle.op = "none"
BY DEF Idle, Command, Status

LEMMA InitOK == Init => IInv
<1> SUFFICES ASSUME Init PROVE IInv
  OBVIOUS
<1>1. Fresh \in Past
  BY DEF Fresh, Past, Status
<1> QED
  BY <1>1, IdleType DEF Init, IInv, ProcessOK, RowOK

LEMMA InvImplies ==
  IInv => TypeOK /\ StatusIsExplained /\ CountIsBacked
BY DEF IInv, TypeOK, Past, Event, ProcessOK, RowOK, StatusIsExplained,
       CountIsBacked

\* A step that replaces the record of one process, while no count of scans
\* goes down, keeps every process as it should be.
LEMMA ProcessStep ==
  ASSUME IInv, NEW c \in Commands, NEW p \in Command,
         command' = [command EXCEPT ![c] = p],
         ProcessOK(p, history'), history' \in [Devices -> Past],
         \A d \in Devices : history[d].scans <= history'[d].scans
  PROVE  /\ command' \in [Commands -> Command]
         /\ \A b \in Commands : ProcessOK(command'[b], history')
<1>1. command' \in [Commands -> Command]
  BY DEF IInv
<1>2. ASSUME NEW b \in Commands PROVE ProcessOK(command'[b], history')
  <2>1. CASE b = c
    BY <2>1 DEF IInv, ProcessOK
  <2>2. CASE b # c
    <3>1. command'[b] = command[b] /\ ProcessOK(command[b], history)
      BY <2>2 DEF IInv
    <3>2. command[b].pc = "upsert" =>
            command[b].count \in 0..history'[command[b].device].scans
      <4> SUFFICES ASSUME command[b].pc = "upsert"
                   PROVE  command[b].count \in 0..history'[command[b].device].scans
        OBVIOUS
      <4>1. command[b].device \in Devices
        BY <3>1 DEF ProcessOK
      <4>2. /\ history[command[b].device].scans \in Nat
            /\ history'[command[b].device].scans \in Nat
        BY <4>1 DEF IInv, Past
      <4> QED
        BY <3>1, <4>1, <4>2 DEF ProcessOK
    <3> QED
      BY <3>1, <3>2 DEF ProcessOK
  <2> QED
    BY <2>1, <2>2
<1> QED
  BY <1>1, <1>2

\* The same for a step that only moves a process on, to a place from which no
\* row is written.
LEMMA PcStep ==
  ASSUME IInv, NEW c \in Commands,
         NEW pc \in {"log", "ok", "sign", "signed", "failed", "killed"},
         Step(c, pc),
         pc # "failed" => command[c].op # "none",
         pc = "log" => command[c].op \in {"device_scanned", "trust_override"},
         history' \in [Devices -> Past],
         \A d \in Devices : history[d].scans <= history'[d].scans
  PROVE  /\ command' \in [Commands -> Command]
         /\ \A b \in Commands : ProcessOK(command'[b], history')
<1> DEFINE p == [command[c] EXCEPT !.pc = pc]
<1>1. command[c] \in Command /\ ProcessOK(command[c], history)
  BY DEF IInv
<1>2. p \in Command
  BY <1>1 DEF Command
<1>3. p.pc = pc /\ p.op = command[c].op /\ p.device = command[c].device
  BY <1>1 DEF Command
<1>4. command' = [command EXCEPT ![c] = p]
  BY DEF Step
<1> HIDE DEF p
<1>5. ProcessOK(p, history')
  BY <1>1, <1>3 DEF ProcessOK, p
<1> QED
  BY <1>2, <1>4, <1>5, ProcessStep

\* An event a process writes about its device.
LEMMA EventLogged ==
  ASSUME IInv, NEW c \in Commands, command[c].op # "none",
         NEW type \in {"device_scanned", "trust_override", "issue_blocked"},
         LogEvent(c, type)
  PROVE  events' \subseteq Event
<1>1. command[c].device \in Devices /\ command[c].status \in Status
  BY DEF IInv, ProcessOK, Command
<1> QED
  BY <1>1 DEF LogEvent, IInv, Event

-----------------------------------------------------------------------------

LEMMA ProbeOK ==
  ASSUME IInv, NEW c \in Commands, NEW d \in Devices, NEW o \in Observations,
         Probe(c, d, o)
  PROVE  IInv'
<1> DEFINE s == Calculate(o.mac, o.ports)
           p == [Idle EXCEPT !.pc = "known", !.op = "device_scanned", !.device = d,
                             !.value = s.value, !.status = s.status,
                             !.at = clock + 1]
<1>1. s.value \in 0..100 /\ s.status \in Status /\ s.status = StatusOf(s.value)
  BY GateAssumption, ScoreType
<1>2. /\ command' = [command EXCEPT ![c] = p]
      /\ clock' = clock + 1
      /\ UNCHANGED <<devices, events, history>>
  BY DEF Probe
<1> HIDE DEF s
<1>3. /\ p \in Command /\ p.pc = "known" /\ p.op = "device_scanned"
      /\ p.device = d /\ p.status = s.status /\ p.value = s.value
  <2>1. clock + 1 \in Nat
    BY DEF IInv
  <2>2. p \in Command
    BY <1>1, <2>1 DEF Idle, Command
  <2> QED
    BY <2>2 DEF Idle
<1> HIDE DEF p
<1>4. ProcessOK(p, history')
  BY <1>1, <1>3 DEF ProcessOK
<1>5. \A b \in Devices : history[b].scans <= history'[b].scans
  BY <1>2 DEF IInv, Past
<1>6. /\ command' \in [Commands -> Command]
      /\ \A b \in Commands : ProcessOK(command'[b], history')
  BY <1>2, <1>3, <1>4, <1>5, ProcessStep DEF IInv
<1> QED
  BY <1>2, <1>6 DEF IInv, RowOK

\* A step that replaces the record of one process and touches neither the
\* table nor the history.
LEMMA QuietStep ==
  ASSUME IInv, NEW c \in Commands, NEW p \in Command,
         command' = [command EXCEPT ![c] = p], ProcessOK(p, history),
         UNCHANGED <<devices, history>>, clock' \in Nat, events' \subseteq Event
  PROVE  IInv'
<1>1. \A b \in Devices : history[b].scans <= history'[b].scans
  BY DEF IInv, Past
<1>2. ProcessOK(p, history')
  OBVIOUS
<1>3. /\ command' \in [Commands -> Command]
      /\ \A b \in Commands : ProcessOK(command'[b], history')
  BY <1>1, <1>2, ProcessStep DEF IInv
<1> QED
  BY <1>3 DEF IInv, RowOK

\* The same for a step that moves a process on.
LEMMA QuietPcStep ==
  ASSUME IInv, NEW c \in Commands,
         NEW pc \in {"log", "ok", "sign", "signed", "failed", "killed"},
         Step(c, pc),
         pc # "failed" => command[c].op # "none",
         pc = "log" => command[c].op \in {"device_scanned", "trust_override"},
         UNCHANGED <<devices, history>>, clock' \in Nat, events' \subseteq Event
  PROVE  IInv'
<1>1. \A b \in Devices : history[b].scans <= history'[b].scans
  BY DEF IInv, Past
<1>2. /\ command' \in [Commands -> Command]
      /\ \A b \in Commands : ProcessOK(command'[b], history')
  BY <1>1, PcStep DEF IInv
<1> QED
  BY <1>2 DEF IInv, RowOK

LEMMA ReadKnownOK ==
  ASSUME IInv, NEW c \in Commands, ReadKnown(c)
  PROVE  IInv'
<1> DEFINE d == command[c].device
           row == devices[d]
<1>1. /\ command[c] \in Command /\ command[c].op = "device_scanned"
      /\ command[c].status = StatusOf(command[c].value) /\ d \in Devices
  BY DEF IInv, ReadKnown, ProcessOK
<1>2. row # NoRow => row \in Row /\ row.count \in 0..history[d].scans
  BY <1>1 DEF IInv, RowOK, Past
<1>3. history[d].scans \in Nat /\ clock \in Nat
  BY <1>1 DEF IInv, Past
<1> DEFINE q(first, count) == [command[c] EXCEPT !.pc = "upsert",
                                   !.first = first, !.count = count]
<1>4. PICK first \in Nat, count \in 0..history[d].scans :
        command' = [command EXCEPT ![c] = q(first, count)]
  <2>1. \/ row # NoRow /\ command' = [command EXCEPT ![c] = q(row.first, row.count)]
        \/ command' = [command EXCEPT ![c] = q(clock, 0)]
    BY DEF ReadKnown
  <2>2. 0 \in 0..history[d].scans
    BY <1>3
  <2>3. row # NoRow => row.first \in Nat
    BY <1>2 DEF Row
  <2> HIDE DEF q, row
  <2> QED
    BY <1>2, <1>3, <2>1, <2>2, <2>3
<1> DEFINE p == q(first, count)
<1>5. command' = [command EXCEPT ![c] = p]
  BY <1>4
<1>6. /\ p \in Command /\ p.pc = "upsert" /\ p.op = command[c].op
      /\ p.device = d /\ p.status = command[c].status
      /\ p.value = command[c].value /\ p.count = count
  <2>1. count \in Nat
    BY <1>3
  <2>2. p \in Command
    BY <1>1, <2>1 DEF Command
  <2> QED
    BY <1>1, <2>2 DEF Command
<1> HIDE DEF p, q, row
<1>7. ProcessOK(p, history)
  BY <1>1, <1>6 DEF ProcessOK
<1>8. UNCHANGED <<devices, history>> /\ clock' \in Nat /\ events' \subseteq Event
  BY DEF ReadKnown, IInv
<1> QED
  BY <1>5, <1>6, <1>7, <1>8, QuietStep

LEMMA LogCommandOK ==
  ASSUME IInv, NEW c \in Commands, LogCommand(c)
  PROVE  IInv'
<1>1. command[c].op \in {"device_scanned", "trust_override"}
  BY DEF IInv, LogCommand, ProcessOK
<1>2. events' \subseteq Event
  BY <1>1, EventLogged DEF LogCommand, IInv
<1> QED
  BY <1>1, <1>2, QuietPcStep DEF LogCommand, IInv

LEMMA LogIssueBlockedOK ==
  ASSUME IInv, NEW c \in Commands, LogIssueBlocked(c)
  PROVE  IInv'
<1>1. command[c].op # "none"
  BY DEF IInv, LogIssueBlocked, ProcessOK
<1>2. events' \subseteq Event
  BY <1>1, EventLogged DEF LogIssueBlocked, IInv
<1> QED
  BY <1>1, <1>2, QuietPcStep DEF LogIssueBlocked, IInv

LEMMA LogTrustForceOverrideOK ==
  ASSUME IInv, NEW c \in Commands, LogTrustForceOverride(c)
  PROVE  IInv'
<1>1. command[c].op # "none"
  BY DEF IInv, LogTrustForceOverride, ProcessOK
<1>2. events' \subseteq Event
  BY <1>1, EventLogged DEF LogTrustForceOverride, IInv
<1> QED
  BY <1>1, <1>2, QuietPcStep DEF LogTrustForceOverride, IInv

LEMMA SignOK ==
  ASSUME IInv, NEW c \in Commands, Sign(c)
  PROVE  IInv'
<1>1. command[c].op # "none"
  BY DEF IInv, Sign, ProcessOK
<1> QED
  BY <1>1, QuietPcStep DEF Sign, IInv

LEMMA KillOK ==
  ASSUME IInv, NEW c \in Commands, Kill(c)
  PROVE  IInv'
<1>1. command[c].op # "none"
  BY DEF IInv, Kill, ProcessOK
<1> QED
  BY <1>1, QuietPcStep DEF Kill, IInv

\* Both ways in which a row is written; the rows and the history of the other
\* devices stay as they are.
LEMMA RowStep ==
  ASSUME IInv, NEW d \in Devices, NEW row \in Row, NEW h \in Past,
         devices' = [devices EXCEPT ![d] = row],
         history' = [history EXCEPT ![d] = h],
         row.status = IF h.byHand THEN h.set ELSE StatusOf(row.value),
         row.count \in 1..h.scans, history[d].scans <= h.scans
  PROVE  /\ devices' \in [Devices -> Row \cup {NoRow}]
         /\ history' \in [Devices -> Past]
         /\ \A b \in Devices : RowOK(b)'
         /\ \A b \in Devices : history[b].scans <= history'[b].scans
<1>1. devices' \in [Devices -> Row \cup {NoRow}] /\ history' \in [Devices -> Past]
  BY DEF IInv
<1>2. devices'[d] = row /\ history'[d] = h
  BY DEF IInv
<1>3. ASSUME NEW b \in Devices, b # d
      PROVE  devices'[b] = devices[b] /\ history'[b] = history[b]
  BY <1>3 DEF IInv
<1>4. ASSUME NEW b \in Devices PROVE RowOK(b)'
  <2>1. CASE b = d
    BY <1>2, <2>1 DEF RowOK
  <2>2. CASE b # d
    BY <1>3, <2>2 DEF RowOK, IInv
  <2> QED
    BY <2>1, <2>2
<1>5. ASSUME NEW b \in Devices PROVE history[b].scans <= history'[b].scans
  <2>1. history[b].scans \in Nat
    BY DEF IInv, Past
  <2>2. CASE b = d
    BY <1>2, <2>2
  <2>3. CASE b # d
    BY <1>3, <2>1, <2>3
  <2> QED
    BY <2>2, <2>3
<1> QED
  BY <1>1, <1>4, <1>5

\* The row a scan writes.
LEMMA WrittenRow ==
  ASSUME IInv, NEW c \in Commands, command[c].pc = "upsert"
  PROVE  /\ Written(c) \in Row
         /\ Written(c).status = StatusOf(Written(c).value)
         /\ Written(c).count = command[c].count + 1
<1> DEFINE d == command[c].device
           first == IF devices[d] = NoRow THEN command[c].first
                                          ELSE devices[d].first
<1>1. /\ command[c] \in Command /\ d \in Devices
      /\ command[c].status = StatusOf(command[c].value)
  BY DEF IInv, ProcessOK
<1>2. devices[d] # NoRow => devices[d].first \in Nat
  BY <1>1 DEF IInv, Row
<1>3. /\ command[c].value \in 0..100 /\ command[c].status \in Status
      /\ command[c].first \in Nat /\ command[c].count + 1 \in Nat
  BY <1>1 DEF Command
<1>4. first \in Nat
  BY <1>2, <1>3
<1> QED
  BY <1>1, <1>3, <1>4 DEF Written, Row

LEMMA UpsertOK ==
  ASSUME IInv, NEW c \in Commands, Upsert(c)
  PROVE  IInv'
<1> DEFINE d == command[c].device
<1>1. /\ command[c] \in Command /\ command[c].op = "device_scanned"
      /\ command[c].status = StatusOf(command[c].value) /\ d \in Devices
      /\ command[c].count \in 0..history[d].scans
  BY DEF IInv, Upsert, ProcessOK
<1>2. history[d] \in Past /\ history[d].scans \in Nat /\ history[d].newest \in Nat
  BY <1>1 DEF IInv, Past
<1>3. CASE Step(c, "failed") /\ UNCHANGED <<devices, history>>
  BY <1>3, QuietPcStep DEF Upsert, IInv
<1> DEFINE row == Written(c)
           h == Recorded(history[d], command[c].at)
           Write == /\ devices' = [devices EXCEPT ![d] = row]
                    /\ history' = [history EXCEPT ![d] = h]
                    /\ Step(c, "log")
<1>4. /\ row \in Row /\ row.status = StatusOf(row.value)
      /\ row.count = command[c].count + 1
  BY WrittenRow DEF Upsert
<1>5. h \in Past /\ h.byHand = FALSE /\ h.scans = history[d].scans + 1
  <2>1. command[c].at \in Nat /\ history[d].scans + 1 \in Nat
        /\ (IF command[c].at > history[d].newest
             THEN command[c].at ELSE history[d].newest) \in Nat
    BY <1>1, <1>2 DEF Command
  <2> QED
    BY <1>2, <2>1 DEF Past, Recorded
<1>6. Upsert(c) => Write \/ (Step(c, "failed") /\ UNCHANGED <<devices, history>>)
  BY DEF Upsert
<1> HIDE DEF row, h
<1>7. row.count \in 1..h.scans /\ history[d].scans <= h.scans
  BY <1>1, <1>2, <1>4, <1>5
<1>8. CASE Write
  <2>1. /\ devices' \in [Devices -> Row \cup {NoRow}]
        /\ history' \in [Devices -> Past]
        /\ \A b \in Devices : RowOK(b)'
        /\ \A b \in Devices : history[b].scans <= history'[b].scans
    BY <1>1, <1>4, <1>5, <1>7, <1>8, RowStep
  <2>2. /\ command' \in [Commands -> Command]
        /\ \A b \in Commands : ProcessOK(command'[b], history')
    BY <1>1, <1>8, <2>1, PcStep
  <2>3. UNCHANGED <<events, clock>>
    BY DEF Upsert
  <2> QED
    BY <2>1, <2>2, <2>3 DEF IInv
<1> QED
  BY <1>3, <1>6, <1>8

LEMMA OverrideOK ==
  ASSUME IInv, NEW c \in Commands, NEW d \in Devices, NEW status \in Status,
         Override(c, d, status)
  PROVE  IInv'
<1> DEFINE row == [devices[d] EXCEPT !.status = status]
           h == [history[d] EXCEPT !.manual = clock + 1, !.set = status,
                                   !.byHand = TRUE]
           p == [Idle EXCEPT !.pc = "log", !.op = "trust_override",
                             !.device = d, !.status = status]
           Write == /\ devices[d] # NoRow
                    /\ devices' = [devices EXCEPT ![d] = row]
                    /\ history' = [history EXCEPT ![d] = h]
                    /\ clock' = clock + 1
                    /\ command' = [command EXCEPT ![c] = p]
<1>1. \/ Write
      \/ Step(c, "failed") /\ UNCHANGED <<devices, clock, history>>
  BY DEF Override
<1>2. UNCHANGED events
  BY DEF Override
<1>3. CASE Step(c, "failed") /\ UNCHANGED <<devices, clock, history>>
  BY <1>2, <1>3, QuietPcStep DEF IInv
<1>4. CASE Write
  <2>1. devices[d] \in Row /\ devices[d].count \in 1..history[d].scans
    BY <1>4 DEF IInv, RowOK
  <2>2. history[d] \in Past /\ history[d].scans \in Nat /\ clock + 1 \in Nat
    BY DEF IInv, Past
  <2>3. row \in Row /\ row.status = status /\ row.count = devices[d].count
    BY <2>1 DEF Row
  <2>4. h \in Past /\ h.byHand = TRUE /\ h.set = status
        /\ h.scans = history[d].scans
    BY <2>2 DEF Past
  <2>5. p \in Command
    BY IdleType DEF Command
  <2>6. p.pc = "log" /\ p.op = "trust_override" /\ p.device = d
    BY DEF Idle
  <2> HIDE DEF row, h, p
  <2>7. /\ row.count \in 1..h.scans
        /\ history[d].scans <= h.scans
    BY <2>1, <2>2, <2>3, <2>4
  <2>8. row.status = IF h.byHand THEN h.set ELSE StatusOf(row.value)
    BY <2>3, <2>4
  <2>9. /\ devices' \in [Devices -> Row \cup {NoRow}]
        /\ history' \in [Devices -> Past]
        /\ \A b \in Devices : RowOK(b)'
        /\ \A b \in Devices : history[b].scans <= history'[b].scans
    BY <1>4, <2>3, <2>4, <2>7, <2>8, RowStep
  <2>10. ProcessOK(p, history')
    BY <2>6 DEF ProcessOK
  <2>11. /\ command' \in [Commands -> Command]
         /\ \A b \in Commands : ProcessOK(command'[b], history')
    BY <1>4, <2>5, <2>9, <2>10, ProcessStep
  <2> QED
    BY <1>2, <1>4, <2>2, <2>9, <2>11 DEF IInv
<1> QED
  BY <1>1, <1>3, <1>4

LEMMA GateOK ==
  ASSUME IInv, NEW c \in Commands, NEW d \in Devices, NEW force \in BOOLEAN,
         Gate(c, d, force)
  PROVE  IInv'
<1> DEFINE p(pc, allowed) == [Idle EXCEPT !.pc = pc, !.op = "issue",
                                          !.device = d, !.allowed = allowed]
<1>1. PICK pc \in {"sign", "forced", "blocked"}, allowed \in BOOLEAN :
        command' = [command EXCEPT ![c] = p(pc, allowed)]
  <2>1. \/ command' = [command EXCEPT ![c] = p("sign", TRUE)]
        \/ command' = [command EXCEPT ![c] =
                         p(IF force THEN "forced" ELSE "blocked", FALSE)]
    BY DEF Gate
  <2> HIDE DEF p
  <2> QED
    BY <2>1
<1>2. p(pc, allowed) \in Command
  BY IdleType DEF Command
<1>3. ProcessOK(p(pc, allowed), history)
  BY DEF ProcessOK, Idle
<1>4. UNCHANGED <<devices, events, clock, history>>
  BY DEF Gate
<1> HIDE DEF p
<1> QED
  BY <1>1, <1>2, <1>3, <1>4, QuietStep DEF IInv

-----------------------------------------------------------------------------

LEMMA NextOK == IInv /\ [Next]_vars => IInv'
<1> SUFFICES ASSUME IInv, [Next]_vars PROVE IInv'
  OBVIOUS
<1>1. ASSUME NEW c \in Commands, NEW d \in Devices, NEW o \in Observations,
             Probe(c, d, o)
      PROVE  IInv'
  BY <1>1, ProbeOK
<1>2. ASSUME NEW c \in Commands, NEW d \in Devices, NEW s \in Status,
             Override(c, d, s)
      PROVE  IInv'
  BY <1>2, OverrideOK
<1>3. ASSUME NEW c \in Commands, NEW d \in Devices, NEW force \in BOOLEAN,
             Gate(c, d, force)
      PROVE  IInv'
  BY <1>3, GateOK
<1>4. ASSUME NEW c \in Commands,
             \/ ReadKnown(c) \/ Upsert(c) \/ LogCommand(c)
             \/ LogIssueBlocked(c) \/ LogTrustForceOverride(c) \/ Sign(c)
             \/ Kill(c)
      PROVE  IInv'
  BY <1>4, ReadKnownOK, UpsertOK, LogCommandOK, LogIssueBlockedOK,
     LogTrustForceOverrideOK, SignOK, KillOK
<1>5. CASE UNCHANGED vars
  BY <1>5 DEF IInv, RowOK, ProcessOK, vars
<1> QED
  BY <1>1, <1>2, <1>3, <1>4, <1>5 DEF Next

LEMMA Invariance == Spec => []IInv
BY InitOK, NextOK, PTL DEF Spec

\* Types, for any devices, observations and faults.
THEOREM TypeCorrect == Spec => []TypeOK
BY Invariance, InvImplies, PTL

\* However scans and overrides overlap, and whatever fails or is killed, a
\* stored status can be explained: by the score beside it, or by an operator.
THEOREM StatusExplained == Spec => []StatusIsExplained
BY Invariance, InvImplies, PTL

\* No lost update and no failed read makes scan_count count a scan that was
\* not recorded.
THEOREM CountBacked == Spec => []CountIsBacked
BY Invariance, InvImplies, PTL

\* Only the first scan recorded sets first_seen, whatever later scans read.
THEOREM FirstSeenKept == Spec => FirstSeenIsKept
<1> DEFINE Kept == \A d \in Devices : devices[d] # NoRow =>
             devices'[d] # NoRow /\ devices'[d].first = devices[d].first
<1>1. IInv /\ [Next]_vars => [Kept]_vars
  <2> SUFFICES ASSUME IInv, Next PROVE Kept
    OBVIOUS
  <2>1. ASSUME NEW c \in Commands, Upsert(c) PROVE Kept
    <3> DEFINE e == command[c].device
               row == Written(c)
    <3>1. devices' = devices \/ devices' = [devices EXCEPT ![e] = row]
      BY <2>1 DEF Upsert
    <3>2. row # NoRow
      BY <2>1, WrittenRow, NoRowAssumption DEF Upsert
    <3>3. devices[e] # NoRow => row.first = devices[e].first
      BY DEF Written
    <3> HIDE DEF row
    <3> QED
      BY <3>1, <3>2, <3>3 DEF IInv
  <2>2. ASSUME NEW c \in Commands, NEW d \in Devices, NEW s \in Status,
               Override(c, d, s)
        PROVE  Kept
    <3> DEFINE row == [devices[d] EXCEPT !.status = s]
    <3>1. \/ devices' = devices
          \/ devices[d] # NoRow /\ devices' = [devices EXCEPT ![d] = row]
      BY <2>2 DEF Override
    <3>2. devices[d] # NoRow => devices[d] \in Row
      BY DEF IInv
    <3>3. devices[d] # NoRow => row \in Row /\ row.first = devices[d].first
      BY <3>2 DEF Row
    <3> HIDE DEF row
    <3> QED
      BY <3>1, <3>3, NoRowAssumption DEF IInv
  <2>3. UNCHANGED devices => Kept
    OBVIOUS
  <2> QED
    BY <2>1, <2>2, <2>3
    DEF Next, Probe, Gate, ReadKnown, LogCommand, LogIssueBlocked,
        LogTrustForceOverride, Sign, Kill
<1> QED
  BY <1>1, Invariance, PTL DEF Spec, FirstSeenIsKept

\* No step lets a process past the gate unrecorded: the ones that enter "sign"
\* either passed the gate or log the force, and events are never deleted.
LEMMA StepForce ==
  ASSUME "write" \notin Faults, IInv, ForceNeverSilent, Next
  PROVE  ForceNeverSilent'
<1> DEFINE Unasked(p) == p.pc \in {"sign", "signed"} /\ ~p.allowed
           Logged(c, E) == \E e \in E : e.by = c /\ e.type = "trust_override"
           Kept == \A c \in Commands : Unasked(command'[c]) =>
                     Unasked(command[c]) \/ Logged(c, events')
<1>1. \A c \in Commands : Unasked(command[c]) => Logged(c, events)
  BY DEF ForceNeverSilent
<1>2. events \subseteq events'
  BY DEF Next, Probe, Override, Gate, ReadKnown, Upsert, LogCommand,
         LogIssueBlocked, LogTrustForceOverride, Sign, Kill, LogEvent
<1>3. ASSUME NEW b \in Commands, NEW p, ~Unasked(p) \/ Logged(b, events'),
             command' = [command EXCEPT ![b] = p]
      PROVE  Kept
  <2> SUFFICES ASSUME NEW c \in Commands, Unasked(command'[c])
               PROVE  Unasked(command[c]) \/ Logged(c, events')
    OBVIOUS
  <2>1. command'[c] = IF c = b THEN p ELSE command[c]
    BY <1>3 DEF IInv
  <2> HIDE DEF Unasked, Logged
  <2> QED
    BY <1>3, <2>1
<1>4. ASSUME NEW b \in Commands, NEW pc, Step(b, pc),
             pc \notin {"sign", "signed"}
      PROVE  Kept
  <2> DEFINE p == [command[b] EXCEPT !.pc = pc]
  <2>1. command' = [command EXCEPT ![b] = p]
    BY <1>4 DEF Step
  <2>2. p.pc = pc
    BY DEF IInv, Command
  <2> HIDE DEF p
  <2> QED
    BY <1>3, <1>4, <2>1, <2>2
<1>5. ASSUME NEW c \in Commands, NEW d \in Devices, NEW o \in Observations,
             Probe(c, d, o)
      PROVE  Kept
  <2> DEFINE p == [Idle EXCEPT !.pc = "known", !.op = "device_scanned",
                     !.device = d, !.value = Calculate(o.mac, o.ports).value,
                     !.status = Calculate(o.mac, o.ports).status, !.at = clock + 1]
  <2>1. command' = [command EXCEPT ![c] = p]
    BY <1>5 DEF Probe
  <2>2. p.pc = "known"
    BY DEF Idle
  <2> HIDE DEF p
  <2> QED
    BY <1>3, <2>1, <2>2
<1>6. ASSUME NEW c \in Commands, NEW d \in Devices, NEW s \in Status,
             Override(c, d, s)
      PROVE  Kept
  <2> DEFINE p == [Idle EXCEPT !.pc = "log", !.op = "trust_override",
                               !.device = d, !.status = s]
  <2>1. Step(c, "failed") \/ command' = [command EXCEPT ![c] = p]
    BY <1>6 DEF Override
  <2>2. p.pc = "log"
    BY DEF Idle
  <2> HIDE DEF p
  <2> QED
    BY <1>3, <1>4, <2>1, <2>2
<1>7. ASSUME NEW c \in Commands, NEW d \in Devices, NEW force \in BOOLEAN,
             Gate(c, d, force)
      PROVE  Kept
  <2> DEFINE p(pc, allowed) == [Idle EXCEPT !.pc = pc, !.op = "issue",
                                            !.device = d, !.allowed = allowed]
  <2>1. \/ command' = [command EXCEPT ![c] = p("sign", TRUE)]
        \/ command' = [command EXCEPT ![c] = p("forced", FALSE)]
        \/ command' = [command EXCEPT ![c] = p("blocked", FALSE)]
    BY <1>7 DEF Gate
  <2>2. /\ p("sign", TRUE).allowed
        /\ p("forced", FALSE).pc = "forced" /\ p("blocked", FALSE).pc = "blocked"
    BY DEF Idle
  <2> HIDE DEF p
  <2> QED
    BY <1>3, <2>1, <2>2
<1>8. ASSUME NEW c \in Commands, ReadKnown(c) PROVE Kept
  <2> DEFINE p(first, count) == [command[c] EXCEPT !.pc = "upsert",
                                   !.first = first, !.count = count]
             row == devices[command[c].device]
  <2>1. \/ command' = [command EXCEPT ![c] = p(row.first, row.count)]
        \/ command' = [command EXCEPT ![c] = p(clock, 0)]
    BY <1>8 DEF ReadKnown
  <2>2. p(row.first, row.count).pc = "upsert" /\ p(clock, 0).pc = "upsert"
    BY DEF IInv, Command
  <2> HIDE DEF p, row
  <2> QED
    BY <1>3, <2>1, <2>2
<1>9. ASSUME NEW c \in Commands, LogTrustForceOverride(c) PROVE Kept
  <2> DEFINE p == [command[c] EXCEPT !.pc = "sign"]
  <2>1. command' = [command EXCEPT ![c] = p]
    BY <1>9 DEF LogTrustForceOverride, Step
  <2>2. Logged(c, events')
    <3> DEFINE e == [type |-> "trust_override", by |-> c,
                     device |-> command[c].device, status |-> command[c].status]
    <3>1. e \in events'
      BY <1>9 DEF LogTrustForceOverride, LogEvent
    <3>2. e.by = c /\ e.type = "trust_override"
      OBVIOUS
    <3> QED
      BY <3>1, <3>2
  <2> HIDE DEF p
  <2> QED
    BY <1>3, <2>1, <2>2
<1>10. ASSUME NEW c \in Commands, Sign(c) PROVE Kept
  <2> DEFINE p == [command[c] EXCEPT !.pc = "signed"]
  <2>1. command' = [command EXCEPT ![c] = p]
    BY <1>10 DEF Sign, Step
  <2>2. p.allowed = command[c].allowed /\ command[c].pc = "sign"
    BY <1>10 DEF Sign, IInv, Command
  <2>3. ~p.allowed => Logged(c, events')
    BY <1>1, <1>2, <2>2
  <2> HIDE DEF p
  <2> QED
    BY <1>3, <2>1, <2>3
<1>11. ASSUME NEW c \in Commands,
              Upsert(c) \/ LogCommand(c) \/ LogIssueBlocked(c) \/ Kill(c)
       PROVE  Kept
  BY <1>4, <1>11 DEF Upsert, LogCommand, LogIssueBlocked, Kill
<1>12. Kept
  BY <1>5, <1>6, <1>7, <1>8, <1>9, <1>10, <1>11 DEF Next
<1> QED
  BY <1>1, <1>2, <1>12 DEF ForceNeverSilent

\* While no write fails, no certificate is signed past the gate without an
\* event of the command that forced it.
THEOREM ForceLogged ==
  ASSUME "write" \notin Faults
  PROVE  Spec => []ForceNeverSilent
<1>1. Init => ForceNeverSilent
  BY IdleType DEF Init, ForceNeverSilent
<1>2. IInv /\ ForceNeverSilent /\ [Next]_vars => ForceNeverSilent'
  <2> SUFFICES ASSUME IInv, ForceNeverSilent, [Next]_vars
               PROVE  ForceNeverSilent'
    OBVIOUS
  <2>1. CASE Next
    BY <2>1, StepForce
  <2>2. CASE UNCHANGED vars
    BY <2>2 DEF vars, ForceNeverSilent
  <2> QED
    BY <2>1, <2>2
<1> QED
  BY <1>1, <1>2, Invariance, PTL DEF Spec

-----------------------------------------------------------------------------
(* A signature the gate allowed can be explained.                          *)

\* A process that found, or declared, a device trusted and did not say so.
Claim(p, d) ==
  /\ p.pc \in {"log", "failed", "killed"}
  /\ p.op \in {"device_scanned", "trust_override"}
  /\ p.device = d /\ p.status = "trusted"

Entry(e, d) ==
  /\ e.device = d /\ e.status = "trusted"
  /\ e.type \in {"device_scanned", "trust_override"}

OnRecord(d, processes, log) ==
  (\E e \in log : Entry(e, d)) \/ (\E b \in Commands : Claim(processes[b], d))

TrustedRow(row) == row # NoRow /\ row.status = "trusted"

\* A process that the gate has let through.
Approved(p) == p.pc \in {"forced", "sign", "signed"} /\ p.allowed

\* Beside IInv: every trusted row, not only every signature, has its record.
ApprovalInv ==
  /\ \A d \in Devices : TrustedRow(devices[d]) => OnRecord(d, command, events)
  /\ \A c \in Commands : Approved(command[c]) =>
       OnRecord(command[c].device, command, events)

\* What is on record stays so, if the process that moves keeps what it claims
\* or has logged it.
LEMMA RecordStays ==
  ASSUME IInv, NEW c \in Commands, NEW p, command' = [command EXCEPT ![c] = p],
         events \subseteq events',
         \A d \in Devices : Claim(command[c], d) =>
           Claim(p, d) \/ \E e \in events' : Entry(e, d)
  PROVE  \A d \in Devices : OnRecord(d, command, events) =>
           OnRecord(d, command', events')
<1> SUFFICES ASSUME NEW d \in Devices, OnRecord(d, command, events)
             PROVE  OnRecord(d, command', events')
  OBVIOUS
<1>1. CASE \E e \in events : Entry(e, d)
  BY <1>1 DEF OnRecord
<1>2. ASSUME NEW b \in Commands, Claim(command[b], d)
      PROVE  OnRecord(d, command', events')
  <2>1. command'[b] = IF b = c THEN p ELSE command[b]
    BY DEF IInv
  <2>2. CASE b = c
    BY <1>2, <2>1, <2>2 DEF OnRecord
  <2>3. CASE b # c
    BY <1>2, <2>1, <2>3 DEF OnRecord
  <2> QED
    BY <2>2, <2>3
<1> QED
  BY <1>1, <1>2 DEF OnRecord

\* A step of one process keeps ApprovalInv if the record stays, a row it makes
\* trusted is on record, and it passes the gate by a trusted row only.
LEMMA ApprovalStep ==
  ASSUME IInv, IInv', ApprovalInv, NEW c \in Commands, NEW p,
         command' = [command EXCEPT ![c] = p],
         \A d \in Devices : OnRecord(d, command, events) =>
           OnRecord(d, command', events'),
         \A d \in Devices : TrustedRow(devices'[d]) =>
           TrustedRow(devices[d]) \/ OnRecord(d, command', events'),
         Approved(p) => \/ Approved(command[c]) /\ p.device = command[c].device
                        \/ TrustedRow(devices[p.device])
  PROVE  ApprovalInv'
<1>1. \A d \in Devices : TrustedRow(devices'[d]) => OnRecord(d, command', events')
  BY DEF ApprovalInv
<1>2. ASSUME NEW b \in Commands, Approved(command'[b])
      PROVE  OnRecord(command'[b].device, command', events')
  <2>1. command'[b] = IF b = c THEN p ELSE command[b]
    BY DEF IInv
  <2>2. CASE b = c
    <3>1. p.device \in Devices
      BY <1>2, <2>1, <2>2 DEF Approved, IInv, ProcessOK
    <3> QED
      BY <1>2, <2>1, <2>2, <3>1 DEF ApprovalInv
  <2>3. CASE b # c
    <3>1. Approved(command[b]) /\ command'[b].device = command[b].device
      BY <1>2, <2>1, <2>3
    <3>2. command[b].device \in Devices
      BY <3>1 DEF Approved, IInv, ProcessOK
    <3> QED
      BY <3>1, <3>2 DEF ApprovalInv
  <2> QED
    BY <2>2, <2>3
<1> QED
  BY <1>1, <1>2 DEF ApprovalInv

LEMMA StepApproval ==
  ASSUME IInv, IInv', ApprovalInv, Next
  PROVE  ApprovalInv'
<1>1. events \subseteq events'
  BY DEF Next, Probe, Override, Gate, ReadKnown, Upsert, LogCommand,
         LogIssueBlocked, LogTrustForceOverride, Sign, Kill, LogEvent
\* A step that claims nothing and writes no row.
<1>2. ASSUME NEW b \in Commands, NEW p, command' = [command EXCEPT ![b] = p],
             UNCHANGED devices, command[b].pc \notin {"log", "failed", "killed"},
             Approved(p) => \/ Approved(command[b]) /\ p.device = command[b].device
                            \/ TrustedRow(devices[p.device])
      PROVE  ApprovalInv'
  <2>1. \A d \in Devices : ~Claim(command[b], d)
    BY <1>2 DEF Claim
  <2>2. \A d \in Devices : OnRecord(d, command, events) => OnRecord(d, command', events')
    BY <1>1, <1>2, <2>1, RecordStays
  <2> QED
    BY <1>2, <2>2, ApprovalStep
\* The same for a step that only moves the process on.
<1>3. ASSUME NEW b \in Commands, NEW pc, Step(b, pc), UNCHANGED devices,
             command[b].pc \notin {"log", "failed", "killed"},
             pc = "sign" => command[b].pc = "forced",
             pc = "signed" => command[b].pc = "sign",
             pc # "forced"
      PROVE  ApprovalInv'
  <2> DEFINE p == [command[b] EXCEPT !.pc = pc]
  <2>1. command' = [command EXCEPT ![b] = p]
    BY <1>3 DEF Step
  <2>2. p.pc = pc /\ p.device = command[b].device /\ p.allowed = command[b].allowed
    BY DEF IInv, Command
  <2> HIDE DEF p
  <2>3. Approved(p) => Approved(command[b]) /\ p.device = command[b].device
    BY <1>3, <2>2 DEF Approved
  <2> QED
    BY <1>2, <1>3, <2>1, <2>3
\* A step after which the process claims the trusted row it wrote.
<1>4. ASSUME NEW b \in Commands, NEW p, command' = [command EXCEPT ![b] = p],
             command[b].pc \notin {"log", "failed", "killed"}, ~Approved(p),
             \A d \in Devices : TrustedRow(devices'[d]) =>
               TrustedRow(devices[d]) \/ Claim(p, d)
      PROVE  ApprovalInv'
  <2>1. \A d \in Devices : ~Claim(command[b], d)
    BY <1>4 DEF Claim
  <2>2. \A d \in Devices : OnRecord(d, command, events) => OnRecord(d, command', events')
    BY <1>1, <1>4, <2>1, RecordStays
  <2>3. command'[b] = p
    BY <1>4 DEF IInv
  <2>4. \A d \in Devices : Claim(p, d) => OnRecord(d, command', events')
    BY <2>3 DEF OnRecord
  <2> QED
    BY <1>4, <2>2, <2>4, ApprovalStep
<1>5. ASSUME NEW c \in Commands, NEW d \in Devices, NEW o \in Observations,
             Probe(c, d, o)
      PROVE  ApprovalInv'
  <2> DEFINE p == [Idle EXCEPT !.pc = "known", !.op = "device_scanned",
                     !.device = d, !.value = Calculate(o.mac, o.ports).value,
                     !.status = Calculate(o.mac, o.ports).status, !.at = clock + 1]
  <2>1. command' = [command EXCEPT ![c] = p] /\ UNCHANGED devices
        /\ command[c].pc = "idle"
    BY <1>5 DEF Probe
  <2>2. ~Approved(p)
    BY DEF Idle, Approved
  <2> HIDE DEF p
  <2> QED
    BY <1>2, <2>1, <2>2
<1>6. ASSUME NEW c \in Commands, NEW d \in Devices, NEW force \in BOOLEAN,
             Gate(c, d, force)
      PROVE  ApprovalInv'
  <2> DEFINE p(pc, allowed) == [Idle EXCEPT !.pc = pc, !.op = "issue",
                                            !.device = d, !.allowed = allowed]
  <2>1. /\ \/ /\ TrustedRow(devices[d])
              /\ command' = [command EXCEPT ![c] = p("sign", TRUE)]
           \/ command' = [command EXCEPT ![c] = p("forced", FALSE)]
           \/ command' = [command EXCEPT ![c] = p("blocked", FALSE)]
        /\ UNCHANGED devices /\ command[c].pc = "idle"
    BY <1>6 DEF Gate, TrustedRow
  <2>2. /\ p("sign", TRUE).device = d
        /\ ~Approved(p("forced", FALSE)) /\ ~Approved(p("blocked", FALSE))
    BY DEF Idle, Approved
  <2> HIDE DEF p
  <2> QED
    BY <1>2, <2>1, <2>2
<1>7. ASSUME NEW c \in Commands, ReadKnown(c) PROVE ApprovalInv'
  <2> DEFINE p(first, count) == [command[c] EXCEPT !.pc = "upsert",
                                   !.first = first, !.count = count]
             row == devices[command[c].device]
  <2>1. /\ \/ command' = [command EXCEPT ![c] = p(row.first, row.count)]
           \/ command' = [command EXCEPT ![c] = p(clock, 0)]
        /\ UNCHANGED devices /\ command[c].pc = "known"
    BY <1>7 DEF ReadKnown
  <2>2. ~Approved(p(row.first, row.count)) /\ ~Approved(p(clock, 0))
    BY DEF IInv, Command, Approved
  <2> HIDE DEF p, row
  <2> QED
    BY <1>2, <2>1, <2>2
<1>8. ASSUME NEW c \in Commands, NEW d \in Devices, NEW s \in Status,
             Override(c, d, s)
      PROVE  ApprovalInv'
  <2> DEFINE p == [Idle EXCEPT !.pc = "log", !.op = "trust_override",
                               !.device = d, !.status = s]
             row == [devices[d] EXCEPT !.status = s]
  <2>1. CASE Step(c, "failed") /\ UNCHANGED devices
    BY <1>3, <1>8, <2>1 DEF Override
  <2>2. CASE /\ command' = [command EXCEPT ![c] = p] /\ devices[d] # NoRow
             /\ devices' = [devices EXCEPT ![d] = row]
    <3>1. p.pc = "log" /\ p.op = "trust_override" /\ p.device = d /\ p.status = s
      BY DEF Idle
    <3>2. row.status = s
      BY <2>2 DEF IInv, Row
    <3>3. command[c].pc = "idle"
      BY <1>8 DEF Override
    <3> HIDE DEF p, row
    <3>4. ASSUME NEW e \in Devices, TrustedRow(devices'[e])
          PROVE  TrustedRow(devices[e]) \/ Claim(p, e)
      <4>1. devices'[e] = IF e = d THEN row ELSE devices[e]
        BY <2>2 DEF IInv
      <4> QED
        BY <3>1, <3>2, <3>4, <4>1 DEF TrustedRow, Claim
    <3> QED
      BY <1>4, <2>2, <3>1, <3>3, <3>4 DEF Approved
  <2> QED
    BY <1>8, <2>1, <2>2 DEF Override
<1>9. ASSUME NEW c \in Commands, Upsert(c) PROVE ApprovalInv'
  <2> DEFINE p == [command[c] EXCEPT !.pc = "log"]
             row == Written(c)
             d == command[c].device
  <2>1. CASE Step(c, "failed") /\ UNCHANGED devices
    BY <1>3, <1>9, <2>1 DEF Upsert
  <2>2. CASE Step(c, "log") /\ devices' = [devices EXCEPT ![d] = row]
    <3>1. command[c].pc = "upsert" /\ command[c].op = "device_scanned"
      BY <1>9 DEF Upsert, IInv, ProcessOK
    <3>2. p.pc = "log" /\ p.op = "device_scanned" /\ p.device = d
          /\ p.status = command[c].status
      BY <3>1 DEF IInv, Command
    <3>3. row.status = command[c].status
      BY DEF Written
    <3>4. command' = [command EXCEPT ![c] = p]
      BY <2>2 DEF Step
    <3> HIDE DEF p, row
    <3>5. ASSUME NEW e \in Devices, TrustedRow(devices'[e])
          PROVE  TrustedRow(devices[e]) \/ Claim(p, e)
      <4>1. devices'[e] = IF e = d THEN row ELSE devices[e]
        BY <2>2 DEF IInv
      <4> QED
        BY <3>2, <3>3, <3>5, <4>1 DEF TrustedRow, Claim
    <3> QED
      BY <1>4, <3>1, <3>2, <3>4, <3>5 DEF Approved
  <2> QED
    BY <1>9, <2>1, <2>2 DEF Upsert
\* The process that claims: it logs what it claims, fails or is killed.
<1>10. ASSUME NEW c \in Commands, LogCommand(c) PROVE ApprovalInv'
  <2> DEFINE e == [type |-> command[c].op, by |-> c,
                   device |-> command[c].device, status |-> command[c].status]
  <2>1. PICK pc \in {"ok", "failed"} : Step(c, pc) /\ (pc = "ok" => e \in events')
    BY <1>10 DEF LogCommand, LogEvent
  <2>2. UNCHANGED devices
    BY <1>10 DEF LogCommand
  <2> DEFINE p == [command[c] EXCEPT !.pc = pc]
  <2>3. p.pc = pc /\ p.device = command[c].device /\ p.op = command[c].op
        /\ p.status = command[c].status
    BY DEF IInv, Command
  <2>4. command' = [command EXCEPT ![c] = p]
    BY <2>1 DEF Step
  <2>5. e.type = command[c].op /\ e.device = command[c].device
        /\ e.status = command[c].status
    OBVIOUS
  <2> HIDE DEF p, e
  <2>6. \A d \in Devices : Claim(command[c], d) =>
          Claim(p, d) \/ \E f \in events' : Entry(f, d)
    BY <2>1, <2>3, <2>5 DEF Claim, Entry
  <2>7. \A d \in Devices : OnRecord(d, command, events) => OnRecord(d, command', events')
    BY <1>1, <2>4, <2>6, RecordStays
  <2>8. ~Approved(p)
    BY <2>1, <2>3 DEF Approved
  <2> QED
    BY <2>2, <2>4, <2>7, <2>8, ApprovalStep
<1>11. ASSUME NEW c \in Commands, Kill(c) PROVE ApprovalInv'
  <2> DEFINE p == [command[c] EXCEPT !.pc = "killed"]
  <2>1. p.pc = "killed" /\ p.device = command[c].device /\ p.op = command[c].op
        /\ p.status = command[c].status
    BY DEF IInv, Command
  <2>2. command' = [command EXCEPT ![c] = p] /\ UNCHANGED devices
    BY <1>11 DEF Kill, Step
  <2> HIDE DEF p
  <2>3. \A d \in Devices : Claim(command[c], d) =>
          Claim(p, d) \/ \E f \in events' : Entry(f, d)
    BY <2>1 DEF Claim
  <2>4. \A d \in Devices : OnRecord(d, command, events) => OnRecord(d, command', events')
    BY <1>1, <2>2, <2>3, RecordStays
  <2>5. ~Approved(p)
    BY <2>1 DEF Approved
  <2> QED
    BY <2>2, <2>4, <2>5, ApprovalStep
<1>12. ASSUME NEW c \in Commands,
              LogIssueBlocked(c) \/ LogTrustForceOverride(c) \/ Sign(c)
       PROVE  ApprovalInv'
  BY <1>3, <1>12 DEF LogIssueBlocked, LogTrustForceOverride, Sign
<1> QED
  BY <1>5, <1>6, <1>7, <1>8, <1>9, <1>10, <1>11, <1>12 DEF Next

\* Whatever fails or is killed, a certificate the gate let through can be
\* explained: by an event of a scan or an operator, or by one who never
\* reported success.
THEOREM ApprovalRecorded == Spec => []ApprovalIsOnRecord
<1>1. Init => ApprovalInv
  BY IdleType DEF Init, ApprovalInv, TrustedRow, Approved
<1>2. IInv /\ IInv' /\ ApprovalInv /\ [Next]_vars => ApprovalInv'
  <2> SUFFICES ASSUME IInv, IInv', ApprovalInv, [Next]_vars
               PROVE  ApprovalInv'
    OBVIOUS
  <2>1. CASE Next
    BY <2>1, StepApproval
  <2>2. CASE UNCHANGED vars
    BY <2>2 DEF vars, ApprovalInv
  <2> QED
    BY <2>1, <2>2
<1>3. ApprovalInv => ApprovalIsOnRecord
  <2> SUFFICES ASSUME ApprovalInv, NEW c \in Commands,
                      command[c].pc = "signed", command[c].allowed
               PROVE  OnRecord(command[c].device, command, events)
    BY DEF ApprovalIsOnRecord, OnRecord, Entry, Claim
  <2> QED
    BY DEF ApprovalInv, Approved
<1> QED
  BY <1>1, <1>2, <1>3, Invariance, PTL DEF Spec

-----------------------------------------------------------------------------
(* What a scan can undo.                                                   *)

\* No scan on its way to the table was probed before the latest override of
\* the device.
NoneOvertaken ==
  \A c \in Commands : command[c].pc \in {"known", "upsert"} =>
    history[command[c].device].manual <= command[c].at

LEMMA StepHonored ==
  ASSUME IInv, OverrideIsHonored, NoneOvertaken, [Next]_vars
  PROVE  OverrideIsHonored'
<1>1. ASSUME NEW c \in Commands, Upsert(c), UNCHANGED <<devices, history>>
      PROVE  OverrideIsHonored'
  BY <1>1 DEF OverrideIsHonored
<1>2. ASSUME NEW c \in Commands, Upsert(c), ~UNCHANGED <<devices, history>>
      PROVE  OverrideIsHonored'
  <2> DEFINE d == command[c].device
             row == Written(c)
             h == Recorded(history[d], command[c].at)
  <2>1. /\ devices' = [devices EXCEPT ![d] = row]
        /\ history' = [history EXCEPT ![d] = h]
    BY <1>2 DEF Upsert
  <2>2. d \in Devices /\ command[c].at \in Nat /\ history[d].manual \in Nat
        /\ history[d].manual <= command[c].at
    BY <1>2 DEF Upsert, IInv, ProcessOK, Command, Past, NoneOvertaken
  <2>3. h.manual = history[d].manual /\ h.shown = command[c].at
    BY <2>2 DEF IInv, Past, Recorded
  <2> HIDE DEF row, h
  <2>4. ~(h.manual > h.shown)
    BY <2>2, <2>3
  <2> HIDE DEF d
  <2>5. \A e \in Devices : /\ devices'[e] = IF e = d THEN row ELSE devices[e]
                           /\ history'[e] = IF e = d THEN h ELSE history[e]
    BY <2>1 DEF IInv
  <2> QED
    BY <2>4, <2>5 DEF OverrideIsHonored
<1>3. ASSUME NEW c \in Commands, NEW d \in Devices, NEW s \in Status,
             Override(c, d, s), UNCHANGED <<devices, history>>
      PROVE  OverrideIsHonored'
  BY <1>3 DEF OverrideIsHonored
<1>4. ASSUME NEW c \in Commands, NEW d \in Devices, NEW s \in Status,
             Override(c, d, s), ~UNCHANGED <<devices, history>>
      PROVE  OverrideIsHonored'
  <2> DEFINE row == [devices[d] EXCEPT !.status = s]
             h == [history[d] EXCEPT !.manual = clock + 1, !.set = s,
                                     !.byHand = TRUE]
  <2>1. /\ devices[d] # NoRow
        /\ devices' = [devices EXCEPT ![d] = row]
        /\ history' = [history EXCEPT ![d] = h]
    BY <1>4 DEF Override
  <2>2. row.status = s
    BY <2>1 DEF IInv, Row
  <2>3. h.set = s
    BY DEF IInv, Past
  <2> HIDE DEF row, h
  <2>4. \A e \in Devices : /\ devices'[e] = IF e = d THEN row ELSE devices[e]
                           /\ history'[e] = IF e = d THEN h ELSE history[e]
    BY <2>1 DEF IInv
  <2> QED
    BY <2>2, <2>3, <2>4 DEF OverrideIsHonored
<1>5. CASE UNCHANGED <<devices, history>>
  BY <1>5 DEF OverrideIsHonored
<1>6. \/ UNCHANGED <<devices, history>>
      \/ \E c \in Commands : Upsert(c)
      \/ \E c \in Commands, d \in Devices, s \in Status : Override(c, d, s)
  BY DEF Next, vars, Probe, Gate, ReadKnown, LogCommand, LogIssueBlocked,
         LogTrustForceOverride, Sign, Kill
<1> QED
  BY <1>1, <1>2, <1>3, <1>4, <1>5, <1>6

\* A manual override holds until the device is probed again, unless a scan that
\* was probed before it writes its row after it: no other overlap of scans,
\* overrides and gates, and no failure, can undo what an operator has set.
THEOREM OverrideHonored == Spec /\ []NoneOvertaken => []OverrideIsHonored
<1>1. Init => OverrideIsHonored
  BY DEF Init, Fresh, OverrideIsHonored
<1>2. IInv /\ OverrideIsHonored /\ NoneOvertaken /\ [Next]_vars
        => OverrideIsHonored'
  BY StepHonored
<1> QED
  BY <1>1, <1>2, Invariance, PTL DEF Spec

-----------------------------------------------------------------------------
(* What scan_count counts.                                                 *)

\* No two scans of one device are between RecordScan's SELECT and its INSERT.
OneWriter ==
  \A b, c \in Commands :
    /\ command[b].pc = "upsert" /\ command[c].pc = "upsert"
    /\ command[b].device = command[c].device
    => b = c

ScanCountIsExact ==
  \A d \in Devices :
    IF devices[d] = NoRow THEN history[d].scans = 0
                          ELSE devices[d].count = history[d].scans

\* With it: a count that has been read is still the count of the row.
CountRead(p, h) == p.pc = "upsert" => p.count = h[p.device].scans

CountInv ==
  /\ ScanCountIsExact
  /\ \A c \in Commands : CountRead(command[c], history)

LEMMA StepCount ==
  ASSUME "read" \notin Faults, IInv, CountInv, OneWriter, Next
  PROVE  CountInv'
\* A step that changes one process, and of no device the count.
<1>1. ASSUME NEW c \in Commands, NEW p, command' = [command EXCEPT ![c] = p],
             CountRead(p, history),
             \A d \in Devices :
               /\ history'[d].scans = history[d].scans
               /\ devices'[d] = NoRow <=> devices[d] = NoRow
               /\ devices[d] # NoRow => devices'[d].count = devices[d].count,
             p.pc = "upsert" => p.device \in Devices
      PROVE  CountInv'
  <2>1. ScanCountIsExact'
    BY <1>1 DEF CountInv, ScanCountIsExact
  <2>2. ASSUME NEW b \in Commands PROVE CountRead(command'[b], history')
    <3>1. CASE b = c
      BY <1>1, <3>1 DEF IInv, CountRead
    <3>2. CASE b # c
      <4>1. command'[b] = command[b] /\ CountRead(command[b], history)
        BY <1>1, <3>2 DEF IInv, CountInv
      <4>2. command[b].pc = "upsert" => command[b].device \in Devices
        BY DEF IInv, ProcessOK
      <4> QED
        BY <1>1, <4>1, <4>2 DEF CountRead
    <3> QED
      BY <3>1, <3>2
  <2> QED
    BY <2>1, <2>2 DEF CountInv
<1>2. ASSUME NEW c \in Commands, NEW p, command' = [command EXCEPT ![c] = p],
             p.pc # "upsert", UNCHANGED <<devices, history>>
      PROVE  CountInv'
  BY <1>1, <1>2 DEF CountRead
<1>3. ASSUME NEW c \in Commands, NEW pc, Step(c, pc), pc # "upsert",
             UNCHANGED <<devices, history>>
      PROVE  CountInv'
  <2> DEFINE p == [command[c] EXCEPT !.pc = pc]
  <2>1. p.pc = pc /\ command' = [command EXCEPT ![c] = p]
    BY <1>3 DEF Step, IInv, Command
  <2> HIDE DEF p
  <2> QED
    BY <1>2, <1>3, <2>1
<1>4. ASSUME NEW c \in Commands, NEW d \in Devices, NEW o \in Observations,
             Probe(c, d, o)
      PROVE  CountInv'
  <2> DEFINE p == [Idle EXCEPT !.pc = "known", !.op = "device_scanned",
                     !.device = d, !.value = Calculate(o.mac, o.ports).value,
                     !.status = Calculate(o.mac, o.ports).status, !.at = clock + 1]
  <2>1. command' = [command EXCEPT ![c] = p] /\ UNCHANGED <<devices, history>>
    BY <1>4 DEF Probe
  <2>2. p.pc # "upsert"
    BY DEF Idle
  <2> HIDE DEF p
  <2> QED
    BY <1>2, <2>1, <2>2
<1>5. ASSUME NEW c \in Commands, NEW d \in Devices, NEW force \in BOOLEAN,
             Gate(c, d, force)
      PROVE  CountInv'
  <2> DEFINE p(pc, allowed) == [Idle EXCEPT !.pc = pc, !.op = "issue",
                                            !.device = d, !.allowed = allowed]
  <2>1. /\ \/ command' = [command EXCEPT ![c] = p("sign", TRUE)]
           \/ command' = [command EXCEPT ![c] = p("forced", FALSE)]
           \/ command' = [command EXCEPT ![c] = p("blocked", FALSE)]
        /\ UNCHANGED <<devices, history>>
    BY <1>5 DEF Gate
  <2>2. /\ p("sign", TRUE).pc # "upsert" /\ p("forced", FALSE).pc # "upsert"
        /\ p("blocked", FALSE).pc # "upsert"
    BY DEF Idle
  <2> HIDE DEF p
  <2> QED
    BY <1>2, <2>1, <2>2
<1>6. ASSUME NEW c \in Commands, ReadKnown(c) PROVE CountInv'
  <2> DEFINE d == command[c].device
             row == devices[d]
             p(first, count) == [command[c] EXCEPT !.pc = "upsert",
                                   !.first = first, !.count = count]
  <2>1. d \in Devices /\ (IF row = NoRow THEN history[d].scans = 0
                                         ELSE row.count = history[d].scans)
    BY <1>6 DEF ReadKnown, IInv, ProcessOK, CountInv, ScanCountIsExact
  <2>2. PICK first, count :
          /\ command' = [command EXCEPT ![c] = p(first, count)]
          /\ count = history[d].scans
    <3>1. \/ row # NoRow /\ command' = [command EXCEPT ![c] = p(row.first, row.count)]
          \/ row = NoRow /\ command' = [command EXCEPT ![c] = p(clock, 0)]
      BY <1>6 DEF ReadKnown
    <3> HIDE DEF p
    <3> QED
      BY <2>1, <3>1
  <2>3. /\ p(first, count).pc = "upsert" /\ p(first, count).device = d
        /\ p(first, count).count = count
    BY DEF IInv, Command
  <2>4. UNCHANGED <<devices, history>>
    BY <1>6 DEF ReadKnown
  <2> HIDE DEF p
  <2>5. CountRead(p(first, count), history)
    BY <2>2, <2>3 DEF CountRead
  <2> HIDE DEF d, row
  <2> QED
    BY <1>1, <2>1, <2>2, <2>3, <2>4, <2>5
<1>7. ASSUME NEW c \in Commands, NEW d \in Devices, NEW s \in Status,
             Override(c, d, s)
      PROVE  CountInv'
  <2> DEFINE p == [Idle EXCEPT !.pc = "log", !.op = "trust_override",
                               !.device = d, !.status = s]
             row == [devices[d] EXCEPT !.status = s]
             h == [history[d] EXCEPT !.manual = clock + 1, !.set = s,
                                     !.byHand = TRUE]
  <2>1. CASE Step(c, "failed") /\ UNCHANGED <<devices, history>>
    BY <1>3, <2>1
  <2>2. CASE /\ command' = [command EXCEPT ![c] = p] /\ devices[d] # NoRow
             /\ devices' = [devices EXCEPT ![d] = row]
             /\ history' = [history EXCEPT ![d] = h]
    <3>1. row \in Row /\ row.count = devices[d].count /\ h.scans = history[d].scans
      BY <2>2 DEF IInv, Row, Past
    <3>2. p.pc = "log"
      BY DEF Idle
    <3>3. row # NoRow
      BY <3>1, NoRowAssumption
    <3> HIDE DEF p, row, h
    <3>4. \A e \in Devices : /\ devices'[e] = IF e = d THEN row ELSE devices[e]
                             /\ history'[e] = IF e = d THEN h ELSE history[e]
      BY <2>2 DEF IInv
    <3>5. \A e \in Devices :
            /\ history'[e].scans = history[e].scans
            /\ devices'[e] = NoRow <=> devices[e] = NoRow
            /\ devices[e] # NoRow => devices'[e].count = devices[e].count
      BY <2>2, <3>1, <3>3, <3>4
    <3>6. CountRead(p, history)
      BY <3>2 DEF CountRead
    <3> QED
      BY <1>1, <2>2, <3>2, <3>5, <3>6
  <2> QED
    BY <1>7, <2>1, <2>2 DEF Override
<1>8. ASSUME NEW c \in Commands, Upsert(c) PROVE CountInv'
  <2> DEFINE d == command[c].device
             row == Written(c)
             h == Recorded(history[d], command[c].at)
             p == [command[c] EXCEPT !.pc = "log"]
  <2>1. CASE Step(c, "failed") /\ UNCHANGED <<devices, history>>
    BY <1>3, <2>1
  <2>2. CASE /\ devices' = [devices EXCEPT ![d] = row]
             /\ history' = [history EXCEPT ![d] = h]
             /\ Step(c, "log")
    <3>1. /\ command[c].pc = "upsert" /\ d \in Devices
          /\ command[c].count = history[d].scans
      BY <1>8 DEF Upsert, IInv, ProcessOK, CountInv, CountRead
    <3>2. row \in Row /\ row # NoRow /\ row.count = history[d].scans + 1
      BY <3>1, WrittenRow, NoRowAssumption
    <3>3. h.scans = history[d].scans + 1
      BY <3>1 DEF IInv, Past, Recorded
    <3>4. command' = [command EXCEPT ![c] = p] /\ p.pc = "log"
      BY <2>2 DEF Step, IInv, Command
    <3> HIDE DEF row, h, p
    <3>5. \A e \in Devices : /\ devices'[e] = IF e = d THEN row ELSE devices[e]
                             /\ history'[e] = IF e = d THEN h ELSE history[e]
      BY <2>2 DEF IInv
    <3>6. ScanCountIsExact'
      BY <3>2, <3>3, <3>5 DEF CountInv, ScanCountIsExact
    <3>7. ASSUME NEW b \in Commands PROVE CountRead(command'[b], history')
      <4>1. CASE b = c
        BY <3>4, <4>1 DEF IInv, CountRead
      <4>2. CASE b # c
        <5>1. command'[b] = command[b] /\ CountRead(command[b], history)
          BY <3>4, <4>2 DEF IInv, CountInv
        <5>2. command[b].pc = "upsert" =>
                command[b].device \in Devices /\ command[b].device # d
          BY <3>1, <4>2 DEF OneWriter, IInv, ProcessOK
        <5> HIDE DEF d
        <5> QED
          BY <3>5, <5>1, <5>2 DEF CountRead
      <4> QED
        BY <4>1, <4>2
    <3> QED
      BY <3>6, <3>7 DEF CountInv
  <2> QED
    BY <1>8, <2>1, <2>2 DEF Upsert
<1>9. ASSUME NEW c \in Commands,
             \/ LogCommand(c) \/ LogIssueBlocked(c) \/ LogTrustForceOverride(c)
             \/ Sign(c) \/ Kill(c)
      PROVE  CountInv'
  BY <1>3, <1>9 DEF LogCommand, LogIssueBlocked, LogTrustForceOverride, Sign, Kill
<1> QED
  BY <1>4, <1>5, <1>6, <1>7, <1>8, <1>9 DEF Next

\* scan_count is the number of scans that were recorded, whatever else overlaps
\* and whatever is killed, as long as no two scans of a device read the row
\* before either has written it, and no SELECT fails (a failure starts the
\* count again).  In general it only never exceeds that number (CountBacked).
THEOREM CountExact ==
  ASSUME "read" \notin Faults
  PROVE  Spec /\ []OneWriter => []ScanCountIsExact
<1>1. Init => CountInv
  BY IdleType DEF Init, Fresh, CountInv, ScanCountIsExact, CountRead
<1>2. IInv /\ CountInv /\ OneWriter /\ [Next]_vars => CountInv'
  <2> SUFFICES ASSUME IInv, CountInv, OneWriter, [Next]_vars
               PROVE  CountInv'
    OBVIOUS
  <2>1. CASE Next
    BY <2>1, StepCount
  <2>2. CASE UNCHANGED vars
    BY <2>2 DEF vars, CountInv, ScanCountIsExact, CountRead
  <2> QED
    BY <2>1, <2>2
<1>3. CountInv => ScanCountIsExact
  BY DEF CountInv
<1> QED
  BY <1>1, <1>2, <1>3, Invariance, PTL DEF Spec
=============================================================================
