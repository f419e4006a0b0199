---------------------------- MODULE ReportsProofs -----------------------------
(* TLAPS proofs about Reports, for any processes, names, zones, validities, *)
(* horizon and faults.                                                      *)
EXTENDS Reports, FiniteSetTheorems, TLAPS

Entry == [id : Nat, name : Names, at : Nat, wall : Int, expires : Nat,
          status : {"issued", "revoked"}, pem : BOOLEAN]

Event == [id : Nat, at : Nat, wall : Int]

Process ==
  [pc : Working \cup {"idle", "migrate", "failed", "killed"},
   next : 1..Len(Statements), name : Names \cup {"none"}, at : Nat,
   wall : Int, expires : Nat]

\* What holds of a process beside its type: the statements behind it are in
\* the schema, for good.
ProcessOK(c, p, objects, gaveUp) ==
  /\ p.pc = "idle" => p.next = 1
  /\ p.pc = "migrate" => \A i \in 1..(p.next - 1) : Statements[i] \in objects
  /\ p.pc \in Working => objects = FullSchema
  /\ p.pc = "insert" => p.name \in Names /\ p.at >= 1
  /\ p.pc = "failed" => c \in gaveUp

\* A row without a PEM is older than this version, and no other row is.
RowOK(r) == r.pem <=> r.at >= 1

\* The inductive invariant.
IInv ==
  /\ schema \subseteq FullSchema
  /\ rows \subseteq Entry /\ IsFiniteSet(rows)
  /\ \A r \in rows : RowOK(r)
  /\ log \subseteq Event /\ IsFiniteSet(log)
  /\ now \in 1..Horizon /\ offset \in Offsets /\ fell \in BOOLEAN
  /\ command \in [Commands -> Process]
  /\ \A c \in Commands : ProcessOK(c, command[c], schema, refused)
  /\ refused \subseteq Commands

LEMMA StatementsOfSchema ==
  /\ Len(Statements) = 9
  /\ \A i \in 1..9 : Statements[i] \in FullSchema
  /\ \A o \in FullSchema : \E i \in 1..9 : Statements[i] = o
<1>1. Len(Statements) = 9
  BY DEF Statements
<1>2. /\ Statements[1] = "certificates" /\ Statements[2] = "blacklist"
      /\ Statements[3] = "events" /\ Statements[4] = "devices"
      /\ Statements[5] = "idx_events_ts" /\ Statements[6] = "idx_certs_expires"
      /\ Statements[7] = "cert_pem" /\ Statements[8] = "key_path"
      /\ Statements[9] = "algorithm"
  BY DEF Statements
<1>3. \A i \in 1..9 : i = 1 \/ i = 2 \/ i = 3 \/ i = 4 \/ i = 5 \/ i = 6
                      \/ i = 7 \/ i = 8 \/ i = 9
  OBVIOUS
<1>4. \A i \in 1..9 : Statements[i] \in FullSchema
  BY <1>2, <1>3 DEF FullSchema, Tables, AddedColumns
<1>5. ASSUME NEW o \in FullSchema PROVE \E i \in 1..9 : Statements[i] = o
  <2>1. 1 \in 1..9 /\ 2 \in 1..9 /\ 3 \in 1..9 /\ 4 \in 1..9 /\ 5 \in 1..9
        /\ 6 \in 1..9 /\ 7 \in 1..9 /\ 8 \in 1..9 /\ 9 \in 1..9
    OBVIOUS
  <2> QED
    BY <1>2, <2>1 DEF FullSchema, Tables, AddedColumns
<1> QED
  BY <1>1, <1>4, <1>5

LEMMA InitOK == Init => IInv
<1> SUFFICES ASSUME Init PROVE IInv
  OBVIOUS
<1>1. now \in 1..Horizon /\ offset \in Offsets /\ offset \in Int
  BY ReportsAssumption DEF Init
<1>2. rows \subseteq Entry /\ IsFiniteSet(rows) /\ \A r \in rows : RowOK(r)
  <2>1. CASE rows = {}
    BY <2>1, FS_EmptySet
  <2>2. ASSUME NEW n \in Names, rows = {OldRow(n)}
        PROVE  rows \subseteq Entry /\ IsFiniteSet(rows) /\ \A r \in rows : RowOK(r)
    <3>1. OldRow(n) \in Entry /\ RowOK(OldRow(n))
      BY <1>1 DEF OldRow, Entry, RowOK
    <3>2. IsFiniteSet({OldRow(n)})
      BY FS_Singleton
    <3> QED
      BY <2>2, <3>1, <3>2
  <2> QED
    BY <2>1, <2>2 DEF Init
<1>3. schema \subseteq FullSchema
  BY DEF Init, OldSchema, FullSchema, Tables
<1>4. log = {} /\ IsFiniteSet(log) /\ fell \in BOOLEAN /\ refused \subseteq Commands
  BY FS_EmptySet DEF Init
<1>5. /\ command \in [Commands -> Process]
      /\ \A c \in Commands : ProcessOK(c, command[c], schema, refused)
  <2> DEFINE p == [pc |-> "idle", next |-> 1, name |-> "none", at |-> 0,
                   wall |-> 0, expires |-> 0]
  <2>1. p \in Process /\ p.pc = "idle" /\ p.next = 1
    BY StatementsOfSchema DEF Process
  <2>2. command = [c \in Commands |-> p]
    BY DEF Init
  <2> HIDE DEF p
  <2> QED
    BY <2>1, <2>2 DEF ProcessOK, Working
<1> QED
  BY <1>1, <1>2, <1>3, <1>4, <1>5 DEF IInv

\* A step that replaces the record of one process, while nothing is taken from
\* the schema and no refusal forgotten, keeps every process as it should be.
LEMMA ProcessStep ==
  ASSUME IInv, NEW c \in Commands, NEW p \in Process,
         command' = [command EXCEPT ![c] = p],
         ProcessOK(c, p, schema', refused'),
         schema \subseteq schema', schema' \subseteq FullSchema,
         refused \subseteq refused'
  PROVE  /\ command' \in [Commands -> Process]
         /\ \A b \in Commands : ProcessOK(b, command'[b], schema', refused')
<1>1. command' \in [Commands -> Process]
  BY DEF IInv
<1>2. ASSUME NEW b \in Commands, b # c
      PROVE  ProcessOK(b, command'[b], schema', refused')
  <2>1. command'[b] = command[b] /\ ProcessOK(b, command[b], schema, refused)
    BY <1>2 DEF IInv
  <2> QED
    BY <2>1 DEF ProcessOK
<1>3. command'[c] = p
  BY DEF IInv
<1> QED
  BY <1>1, <1>2, <1>3

\* The same for a step that only moves a process on.
LEMMA PcStep ==
  ASSUME IInv, NEW c \in Commands,
         NEW pc \in Working \cup {"migrate", "failed", "killed"},
         Goto(c, pc),
         pc \in Working => schema = FullSchema,
         pc # "insert", pc = "migrate" => command[c].next = 1,
         pc = "failed" => c \in refused',
         UNCHANGED schema, refused \subseteq refused'
  PROVE  /\ command' \in [Commands -> Process]
         /\ \A b \in Commands : ProcessOK(b, command'[b], schema', refused')
<1> DEFINE p == [command[c] EXCEPT !.pc = pc]
<1>1. p \in Process
  BY DEF IInv, Process
<1>2. p.pc = pc /\ p.next = command[c].next
  BY DEF IInv, Process
<1>3. command' = [command EXCEPT ![c] = p]
  BY DEF Goto
<1> HIDE DEF p
<1>4. ProcessOK(c, p, schema', refused')
  BY <1>2 DEF ProcessOK, Working
<1>5. schema' \subseteq FullSchema
  BY DEF IInv
<1> QED
  BY <1>1, <1>3, <1>4, <1>5, ProcessStep

\* A statement that is refused.
LEMMA RefuseStep ==
  ASSUME IInv, NEW c \in Commands, Refuse(c), UNCHANGED schema
  PROVE  /\ command' \in [Commands -> Process]
         /\ \A b \in Commands : ProcessOK(b, command'[b], schema', refused')
         /\ refused' \subseteq Commands
<1>1. refused \subseteq refused' /\ c \in refused' /\ refused' \subseteq Commands
  BY DEF Refuse, IInv
<1>2. Goto(c, "failed") /\ "failed" \notin Working
  BY DEF Refuse, Working
<1> QED
  BY <1>1, <1>2, PcStep

-----------------------------------------------------------------------------

LEMMA OpenOK == ASSUME IInv, NEW c \in Commands, Open(c) PROVE IInv'
<1>1. command[c].next = 1
  BY DEF Open, IInv, ProcessOK
<1>2. /\ Goto(c, "migrate")
      /\ UNCHANGED <<schema, rows, log, now, offset, fell, refused>>
      /\ "migrate" \notin Working
  BY DEF Open, Working
<1> QED
  BY <1>1, <1>2, PcStep DEF IInv

LEMMA AddedToSchema ==
  ASSUME NEW o \in FullSchema
  PROVE  o \in Added(o) /\ Added(o) \subseteq FullSchema
BY DEF Added, FullSchema

\* After the last statement every object of the schema is there.
LEMMA MigrateOK == ASSUME IInv, NEW c \in Commands, Migrate(c) PROVE IInv'
<1> DEFINE object == Statements[command[c].next]
<1>1. /\ command[c].next \in 1..9
      /\ \A i \in 1..(command[c].next - 1) : Statements[i] \in schema
  BY StatementsOfSchema DEF Migrate, IInv, Process, ProcessOK
<1>2. CASE Refuse(c) /\ UNCHANGED schema
  <2>1. UNCHANGED <<rows, log, now, offset, fell>>
    BY DEF Migrate
  <2> QED
    BY <1>2, <2>1, RefuseStep DEF IInv
<1>3. CASE /\ schema' = schema \cup Added(object) /\ UNCHANGED refused
           /\ command' = [command EXCEPT ![c] = Advanced(command[c])]
  <2> DEFINE last == [command[c] EXCEPT !.pc = "open"]
             next == [command[c] EXCEPT !.next = command[c].next + 1]
  <2>1. object \in FullSchema
    BY <1>1, StatementsOfSchema
  <2>2. schema \subseteq schema' /\ schema' \subseteq FullSchema /\ object \in schema'
    BY <1>3, <2>1, AddedToSchema DEF IInv
  <2>3. UNCHANGED <<rows, log, now, offset, fell>> /\ command[c].pc = "migrate"
    BY DEF Migrate
  <2>4. CASE command[c].next = 9
    <3>1. last \in Process /\ last.pc = "open"
      BY DEF IInv, Process, Working
    <3>2. \A i \in 1..9 : Statements[i] \in schema'
      <4> SUFFICES ASSUME NEW i \in 1..9 PROVE Statements[i] \in schema'
        OBVIOUS
      <4>1. CASE i = 9
        BY <2>2, <2>4, <4>1
      <4>2. CASE i # 9
        <5>1. i \in 1..(command[c].next - 1)
          BY <2>4, <4>2
        <5> QED
          BY <1>1, <2>2, <5>1
      <4> QED
        BY <4>1, <4>2
    <3>3. schema' = FullSchema
      BY <2>2, <3>2, StatementsOfSchema
    <3>4. command' = [command EXCEPT ![c] = last]
      BY <1>3, <2>4, StatementsOfSchema DEF Advanced
    <3> HIDE DEF last
    <3>5. ProcessOK(c, last, schema', refused')
      BY <3>1, <3>3 DEF ProcessOK
    <3> QED
      BY <1>3, <2>2, <2>3, <3>1, <3>4, <3>5, ProcessStep DEF IInv
  <2>5. CASE command[c].next # 9
    <3>1. next \in Process /\ next.pc = "migrate" /\ next.next = command[c].next + 1
      BY <1>1, <2>3, <2>5, StatementsOfSchema DEF IInv, Process
    <3>2. \A i \in 1..(next.next - 1) : Statements[i] \in schema'
      <4> SUFFICES ASSUME NEW i \in 1..command[c].next PROVE Statements[i] \in schema'
        BY <1>1, <3>1
      <4>1. CASE i = command[c].next
        BY <2>2, <4>1
      <4>2. CASE i # command[c].next
        <5>1. i \in 1..(command[c].next - 1)
          BY <1>1, <4>2
        <5> QED
          BY <1>1, <2>2, <5>1
      <4> QED
        BY <4>1, <4>2
    <3>3. command' = [command EXCEPT ![c] = next]
      BY <1>3, <2>5, StatementsOfSchema DEF Advanced
    <3> HIDE DEF next
    <3>4. ProcessOK(c, next, schema', refused')
      BY <3>1, <3>2 DEF ProcessOK, Working
    <3> QED
      BY <1>3, <2>2, <2>3, <3>1, <3>3, <3>4, ProcessStep DEF IInv
  <2> QED
    BY <2>4, <2>5
<1> QED
  BY <1>2, <1>3 DEF Migrate

\* The present instant and its text.
LEMMA PresentType == IInv => now \in Nat /\ now >= 1 /\ Wall \in Int
BY ReportsAssumption DEF IInv, Wall

LEMMA IssueOK ==
  ASSUME IInv, NEW c \in Commands, NEW n \in Names, NEW v \in Validities,
         Issue(c, n, v)
  PROVE  IInv'
<1> DEFINE p == [command[c] EXCEPT !.pc = "insert", !.name = n, !.at = now,
                                   !.wall = Wall, !.expires = now + v]
<1>1. now + v \in Nat
  BY PresentType, ReportsAssumption
<1>2. p \in Process /\ p.pc = "insert" /\ p.name = n /\ p.at = now
  BY <1>1, PresentType DEF IInv, Process, Working
<1>3. /\ command' = [command EXCEPT ![c] = p]
      /\ UNCHANGED <<schema, rows, log, now, offset, fell, refused>>
      /\ command[c].pc = "open"
  BY DEF Issue
<1>4. schema = FullSchema
  BY <1>3 DEF IInv, ProcessOK, Working
<1> HIDE DEF p
<1>5. ProcessOK(c, p, schema', refused')
  BY <1>2, <1>3, <1>4, PresentType DEF ProcessOK
<1> QED
  BY <1>2, <1>3, <1>4, <1>5, ProcessStep DEF IInv

LEMMA InsertOK == ASSUME IInv, NEW c \in Commands, Insert(c) PROVE IInv'
<1>1. schema = FullSchema /\ command[c] \in Process
      /\ command[c].name \in Names /\ command[c].at >= 1
  BY DEF Insert, IInv, ProcessOK, Working
<1>2. UNCHANGED <<schema, log, now, offset, fell>>
  BY DEF Insert
<1>3. CASE Refuse(c) /\ UNCHANGED rows
  BY <1>2, <1>3, RefuseStep DEF IInv
<1>4. CASE Goto(c, "event") /\ UNCHANGED refused
           /\ rows' = rows \cup {[id |-> Cardinality(rows) + 1,
                               name |-> command[c].name, at |-> command[c].at,
                               wall |-> command[c].wall,
                               expires |-> command[c].expires,
                               status |-> "issued", pem |-> TRUE]}
  <2> DEFINE r == [id |-> Cardinality(rows) + 1, name |-> command[c].name,
                   at |-> command[c].at, wall |-> command[c].wall,
                   expires |-> command[c].expires, status |-> "issued",
                   pem |-> TRUE]
  <2>1. Cardinality(rows) + 1 \in Nat
    BY FS_CardinalityType DEF IInv
  <2>2. r \in Entry /\ RowOK(r)
    BY <1>1, <2>1 DEF Process, Entry, RowOK
  <2>3. rows' = rows \cup {r}
    BY <1>4
  <2> HIDE DEF r
  <2>4. IsFiniteSet(rows')
    BY <2>3, FS_AddElement DEF IInv
  <2>5. rows' \subseteq Entry /\ \A q \in rows' : RowOK(q)
    BY <2>2, <2>3 DEF IInv
  <2>6. "event" \in Working
    BY DEF Working
  <2> QED
    BY <1>1, <1>2, <1>4, <2>4, <2>5, <2>6, PcStep DEF IInv
<1> QED
  BY <1>3, <1>4 DEF Insert

LEMMA RevokeOK ==
  ASSUME IInv, NEW c \in Commands, NEW row \in rows, Revoke(c, row)
  PROVE  IInv'
<1>1. schema = FullSchema /\ UNCHANGED <<schema, log, now, offset, fell>>
  BY DEF Revoke, IInv, ProcessOK, Working
<1>2. CASE Refuse(c) /\ UNCHANGED rows
  BY <1>1, <1>2, RefuseStep DEF IInv
<1>3. CASE /\ rows' = (rows \ {row}) \cup {[row EXCEPT !.status = "revoked"]}
           /\ Goto(c, "event") /\ UNCHANGED refused
  <2> DEFINE r == [row EXCEPT !.status = "revoked"]
  <2>1. r \in Entry /\ RowOK(r)
    BY DEF IInv, Entry, RowOK
  <2>2. rows' = (rows \ {row}) \cup {r}
    BY <1>3
  <2> HIDE DEF r
  <2>3. IsFiniteSet(rows \ {row})
    BY FS_RemoveElement DEF IInv
  <2>4. IsFiniteSet(rows')
    BY <2>2, <2>3, FS_AddElement
  <2>5. rows' \subseteq Entry /\ \A q \in rows' : RowOK(q)
    BY <2>1, <2>2 DEF IInv
  <2>6. "event" \in Working
    BY DEF Working
  <2> QED
    BY <1>1, <1>3, <2>4, <2>5, <2>6, PcStep DEF IInv
<1> QED
  BY <1>2, <1>3 DEF Revoke

LEMMA StampEventOK ==
  ASSUME IInv, NEW c \in Commands, StampEvent(c) PROVE IInv'
<1> DEFINE p == [command[c] EXCEPT !.pc = "log", !.at = now, !.wall = Wall]
<1>1. p \in Process /\ p.pc = "log"
  BY PresentType DEF IInv, Process, Working
<1>2. /\ command' = [command EXCEPT ![c] = p]
      /\ UNCHANGED <<schema, rows, log, now, offset, fell, refused>>
      /\ command[c].pc = "event"
  BY DEF StampEvent
<1>3. schema = FullSchema
  BY <1>2 DEF IInv, ProcessOK, Working
<1> HIDE DEF p
<1>4. ProcessOK(c, p, schema', refused')
  BY <1>1, <1>2, <1>3 DEF ProcessOK
<1> QED
  BY <1>1, <1>2, <1>3, <1>4, ProcessStep DEF IInv

LEMMA InsertEventOK ==
  ASSUME IInv, NEW c \in Commands, InsertEvent(c) PROVE IInv'
<1>1. schema = FullSchema /\ command[c] \in Process
  BY DEF InsertEvent, IInv, ProcessOK, Working
<1>2. UNCHANGED <<schema, rows, now, offset, fell>>
  BY DEF InsertEvent
<1>3. CASE Refuse(c) /\ UNCHANGED log
  BY <1>2, <1>3, RefuseStep DEF IInv
<1>4. CASE Goto(c, "ok") /\ UNCHANGED refused
           /\ log' = log \cup {[id |-> Cardinality(log) + 1, at |-> command[c].at,
                                wall |-> command[c].wall]}
  <2> DEFINE e == [id |-> Cardinality(log) + 1, at |-> command[c].at,
                   wall |-> command[c].wall]
  <2>1. Cardinality(log) + 1 \in Nat
    BY FS_CardinalityType DEF IInv
  <2>2. e \in Event
    BY <1>1, <2>1 DEF Process, Event
  <2>3. log' = log \cup {e}
    BY <1>4
  <2> HIDE DEF e
  <2>4. IsFiniteSet(log') /\ log' \subseteq Event
    BY <2>2, <2>3, FS_AddElement DEF IInv
  <2>5. "ok" \in Working
    BY DEF Working
  <2> QED
    BY <1>1, <1>2, <1>4, <2>4, <2>5, PcStep DEF IInv
<1> QED
  BY <1>3, <1>4 DEF InsertEvent

LEMMA KillOK == ASSUME IInv, NEW c \in Commands, Kill(c) PROVE IInv'
<1>1. /\ Goto(c, "killed") /\ "killed" \notin Working
      /\ UNCHANGED <<schema, rows, log, now, offset, fell, refused>>
  BY DEF Kill, Working
<1> QED
  BY <1>1, PcStep DEF IInv

LEMMA ClockOK ==
  ASSUME IInv, Tick \/ \E o \in Offsets : ChangeZone(o)
  PROVE  IInv'
<1>1. now' \in 1..Horizon /\ offset' \in Offsets
  BY ReportsAssumption DEF IInv, Tick, ChangeZone
<1>2. fell' \in BOOLEAN
  <2>1. CASE Tick
    BY <2>1 DEF IInv, Tick
  <2>2. ASSUME NEW o \in Offsets, ChangeZone(o) PROVE fell' \in BOOLEAN
    BY <2>2, Zenon DEF ChangeZone
  <2> QED
    BY <2>1, <2>2
<1>3. UNCHANGED <<schema, rows, log, command, refused>>
  BY DEF Tick, ChangeZone
<1> QED
  BY <1>1, <1>2, <1>3 DEF IInv

LEMMA NextOK == IInv /\ [Next]_vars => IInv'
<1> SUFFICES ASSUME IInv, [Next]_vars PROVE IInv'
  OBVIOUS
<1>1. CASE UNCHANGED vars
  BY <1>1 DEF IInv, vars
<1>2. CASE Next
  BY <1>2, OpenOK, MigrateOK, IssueOK, RevokeOK, InsertOK, StampEventOK,
     InsertEventOK, KillOK, ClockOK DEF Next
<1> QED
  BY <1>1, <1>2

LEMMA Invariance == Spec => []IInv
BY InitOK, NextOK, PTL DEF Spec

-----------------------------------------------------------------------------

\* Types of the schema, the tables, the zone and the processes.
THEOREM TypeCorrect == Spec => []TypeOK
<1>1. IInv => TypeOK
  BY DEF IInv, TypeOK, Entry, Event, Process
<1> QED
  BY <1>1, Invariance, PTL

\* A process past store.Open has the full schema, whatever number of processes
\* migrate the file at once and whichever of them are killed or refused.
THEOREM Migrated == Spec => []OpenedMeansMigrated
<1>1. IInv => OpenedMeansMigrated
  BY DEF IInv, ProcessOK, OpenedMeansMigrated
<1> QED
  BY <1>1, Invariance, PTL

\* No process fails to open the database because others have done its work.
THEOREM OpeningSucceeds == Spec => []OpenSucceeds
<1>1. IInv => OpenSucceeds
  BY DEF IInv, ProcessOK, OpenSucceeds
<1> QED
  BY <1>1, Invariance, PTL

\* expiring and the warnings agree on the 30 days as far as the zone in which the
\* window ends lets them, whatever the zone is now and whenever it changes.
THEOREM ExpiringAgrees == Spec => []ExpiringAgreesWithWarnings
<1>1. IInv => ExpiringAgreesWithWarnings
  <2> SUFFICES ASSUME IInv, NEW later \in Offsets, NEW r \in rows
               PROVE  /\ later >= 0 /\ Warned(r) => r \in ExpiringSoon(later)
                      /\ r \in ExpiringSoon(later) =>
                           /\ r.status = "issued"
                           /\ later <= 0 => \/ Warned(r) \/ now > r.expires
                                            \/ r.expires = now + WarnWindow
    BY DEF ExpiringAgreesWithWarnings, ExpiringSoon
  <2>1. now \in Nat /\ later \in Int /\ WarnWindow \in Nat /\ r.expires \in Nat
    BY ReportsAssumption DEF IInv, Entry
  <2> QED
    BY <2>1 DEF ExpiringSoon, Warned
<1> QED
  BY <1>1, Invariance, PTL

-----------------------------------------------------------------------------
(* The order of the texts is the order of the instants, until the local    *)
(* clock is set back.                                                      *)

Stamp(x) == <<x.at, x.wall>>

Carrying == {c \in Commands : command[c].pc \in {"insert", "log"}}

\* Every time that is in the tables or on its way there.
Stamps == {Stamp(r) : r \in rows} \cup {Stamp(e) : e \in log}
          \cup {Stamp(command[c]) : c \in Carrying}

\* The times of S lie in the past of an instant n whose text is w, and their
\* texts are in their order.
InOrder(S, n, w) ==
  /\ \A x \in S : x[1] <= n /\ x[2] <= w /\ (x[1] < n => x[2] < w)
  /\ \A x, y \in S : x[1] < y[1] => x[2] < y[2]

TimeInv == ~fell => InOrder(Stamps, now, Wall)

LEMMA StampsType == IInv => Stamps \subseteq Nat \X Int
<1> SUFFICES ASSUME IInv PROVE Stamps \subseteq Nat \X Int
  OBVIOUS
<1>1. \A r \in rows : Stamp(r) \in Nat \X Int
  BY DEF IInv, Entry, Stamp
<1>2. \A e \in log : Stamp(e) \in Nat \X Int
  BY DEF IInv, Event, Stamp
<1>3. \A c \in Commands : Stamp(command[c]) \in Nat \X Int
  BY DEF IInv, Process, Stamp
<1> QED
  BY <1>1, <1>2, <1>3 DEF Stamps, Carrying

\* The present may be added to what is past ...
LEMMA PresentInOrder ==
  ASSUME NEW S \in SUBSET (Nat \X Int), NEW n \in Nat, NEW w \in Int,
         InOrder(S, n, w), NEW T \in SUBSET (S \cup {<<n, w>>})
  PROVE  InOrder(T, n, w)
<1>1. \A x \in T : x \in S \/ (x[1] = n /\ x[2] = w)
  OBVIOUS
<1>2. \A x \in S : x[1] \in Nat /\ x[2] \in Int
  OBVIOUS
<1> QED
  BY <1>1, <1>2 DEF InOrder

\* ... and what is past stays so when the clock goes on, or forward.
LEMMA LaterInOrder ==
  ASSUME NEW S \in SUBSET (Nat \X Int), NEW n \in Nat, NEW w \in Int,
         InOrder(S, n, w), NEW m \in Nat, NEW v \in Int, v >= w,
         m = n \/ (m = n + 1 /\ v = w + 1)
  PROVE  InOrder(S, m, v)
<1>1. \A x \in S : x[1] \in Nat /\ x[2] \in Int
  OBVIOUS
<1> QED
  BY <1>1 DEF InOrder

\* A step of a process puts no other time anywhere than the present.
LEMMA StampsOfStep ==
  ASSUME IInv, NEW c \in Commands,
         \/ Open(c) \/ Migrate(c) \/ Insert(c) \/ StampEvent(c)
         \/ InsertEvent(c) \/ Kill(c)
         \/ \E n \in Names, v \in Validities : Issue(c, n, v)
         \/ \E row \in rows : Revoke(c, row)
  PROVE  Stamps' \subseteq Stamps \cup {<<now, Wall>>}
<1> DEFINE Kept(p) == p.pc \in {"insert", "log"} =>
                        \/ Stamp(p) = <<now, Wall>>
                        \/ c \in Carrying /\ Stamp(p) = Stamp(command[c])
\* It is enough to look at the process and at the row it inserts.
<1>1. ASSUME NEW p, command' = [command EXCEPT ![c] = p], Kept(p),
             \A r \in rows' : Stamp(r) \in Stamps,
             \A e \in log' : Stamp(e) \in Stamps
      PROVE  Stamps' \subseteq Stamps \cup {<<now, Wall>>}
  <2>1. ASSUME NEW b \in Commands, command'[b].pc \in {"insert", "log"}
        PROVE  Stamp(command'[b]) \in Stamps \cup {<<now, Wall>>}
    <3>1. command'[b] = IF b = c THEN p ELSE command[b]
      BY <1>1 DEF IInv
    <3>2. CASE b = c
      BY <1>1, <2>1, <3>1, <3>2 DEF Stamps
    <3>3. CASE b # c
      BY <2>1, <3>1, <3>3 DEF Stamps, Carrying
    <3> QED
      BY <3>2, <3>3
  <2>2. Stamps' = {Stamp(r) : r \in rows'} \cup {Stamp(e) : e \in log'}
          \cup {Stamp(command'[b]) : b \in {d \in Commands :
                                       command'[d].pc \in {"insert", "log"}}}
    BY DEF Stamps, Carrying, Stamp
  <2> QED
    BY <1>1, <2>1, <2>2
<1>2. (\A r \in rows : Stamp(r) \in Stamps) /\ (\A e \in log : Stamp(e) \in Stamps)
  BY DEF Stamps
<1>3. command[c] \in Process
  BY DEF IInv
\* A process that is moved on and not stamped.
<1>4. ASSUME NEW pc, Goto(c, pc), pc \notin {"insert", "log"},
             \A r \in rows' : Stamp(r) \in Stamps,
             \A e \in log' : Stamp(e) \in Stamps
      PROVE  Stamps' \subseteq Stamps \cup {<<now, Wall>>}
  <2> DEFINE p == [command[c] EXCEPT !.pc = pc]
  <2>1. p.pc = pc
    BY <1>3 DEF Process
  <2>2. command' = [command EXCEPT ![c] = p]
    BY <1>4 DEF Goto
  <2> HIDE DEF p
  <2> QED
    BY <1>1, <1>4, <2>1, <2>2
<1>5. CASE Open(c) \/ Kill(c)
  BY <1>2, <1>4, <1>5 DEF Open, Kill
<1>6. CASE Migrate(c)
  <2>1. UNCHANGED <<rows, log>> /\ command[c].pc = "migrate"
    BY <1>6 DEF Migrate
  <2>2. CASE Refuse(c)
    BY <1>2, <1>4, <2>1, <2>2 DEF Refuse
  <2>3. CASE command' = [command EXCEPT ![c] = Advanced(command[c])]
    <3>1. Advanced(command[c]).pc \in {"open", "migrate"}
      BY <1>3, <2>1 DEF Advanced, Process
    <3> QED
      BY <1>1, <1>2, <2>1, <2>3, <3>1
  <2> QED
    BY <1>6, <2>2, <2>3 DEF Migrate
<1>7. ASSUME NEW n \in Names, NEW v \in Validities, Issue(c, n, v)
      PROVE  Stamps' \subseteq Stamps \cup {<<now, Wall>>}
  <2> DEFINE p == [command[c] EXCEPT !.pc = "insert", !.name = n, !.at = now,
                                     !.wall = Wall, !.expires = now + v]
  <2>1. command' = [command EXCEPT ![c] = p] /\ UNCHANGED <<rows, log>>
    BY <1>7 DEF Issue
  <2>2. Stamp(p) = <<now, Wall>>
    BY <1>3 DEF Process, Stamp
  <2> HIDE DEF p
  <2> QED
    BY <1>1, <1>2, <2>1, <2>2
<1>8. CASE StampEvent(c)
  <2> DEFINE p == [command[c] EXCEPT !.pc = "log", !.at = now, !.wall = Wall]
  <2>1. command' = [command EXCEPT ![c] = p] /\ UNCHANGED <<rows, log>>
    BY <1>8 DEF StampEvent
  <2>2. Stamp(p) = <<now, Wall>>
    BY <1>3 DEF Process, Stamp
  <2> HIDE DEF p
  <2> QED
    BY <1>1, <1>2, <2>1, <2>2
<1>9. ASSUME NEW row \in rows, Revoke(c, row)
      PROVE  Stamps' \subseteq Stamps \cup {<<now, Wall>>}
  <2> DEFINE r == [row EXCEPT !.status = "revoked"]
  <2>1. /\ UNCHANGED log
        /\ \/ Goto(c, "event") /\ rows' = (rows \ {row}) \cup {r}
           \/ Goto(c, "failed") /\ rows' = rows
    BY <1>9 DEF Revoke, Refuse
  <2>2. Stamp(r) = Stamp(row)
    BY DEF IInv, Entry, Stamp
  <2> HIDE DEF r
  <2> QED
    BY <1>2, <1>4, <2>1, <2>2
<1>10. CASE Insert(c)
  <2>1. UNCHANGED log /\ Stamp(command[c]) \in Stamps
    BY <1>10 DEF Insert, Stamps, Carrying
  <2>2. CASE Refuse(c) /\ UNCHANGED rows
    BY <1>2, <1>4, <2>1, <2>2 DEF Refuse
  <2>3. CASE ~(Refuse(c) /\ UNCHANGED rows)
    <3> DEFINE r == [id |-> Cardinality(rows) + 1, name |-> command[c].name,
                     at |-> command[c].at, wall |-> command[c].wall,
                     expires |-> command[c].expires, status |-> "issued",
                     pem |-> TRUE]
    <3>1. rows' = rows \cup {r} /\ Goto(c, "event")
      BY <1>10, <2>3 DEF Insert
    <3>2. Stamp(r) = Stamp(command[c])
      BY DEF Stamp
    <3> HIDE DEF r
    <3> QED
      BY <1>2, <1>4, <2>1, <3>1, <3>2
  <2> QED
    BY <2>2, <2>3
<1>11. CASE InsertEvent(c)
  <2>1. UNCHANGED rows /\ Stamp(command[c]) \in Stamps
    BY <1>11 DEF InsertEvent, Stamps, Carrying
  <2>2. CASE Refuse(c) /\ UNCHANGED log
    BY <1>2, <1>4, <2>1, <2>2 DEF Refuse
  <2>3. CASE ~(Refuse(c) /\ UNCHANGED log)
    <3> DEFINE e == [id |-> Cardinality(log) + 1, at |-> command[c].at,
                     wall |-> command[c].wall]
    <3>1. log' = log \cup {e} /\ Goto(c, "ok")
      BY <1>11, <2>3 DEF InsertEvent
    <3>2. Stamp(e) = Stamp(command[c])
      BY DEF Stamp
    <3> HIDE DEF e
    <3> QED
      BY <1>2, <1>4, <2>1, <3>1, <3>2
  <2> QED
    BY <2>2, <2>3
<1> QED
  BY <1>5, <1>6, <1>7, <1>8, <1>9, <1>10, <1>11

LEMMA TimeInit == Init => TimeInv
<1> SUFFICES ASSUME Init PROVE InOrder(Stamps, now, Wall)
  BY DEF TimeInv
<1>1. now = 1 /\ offset \in Int /\ Wall = 1 + offset
  BY ReportsAssumption DEF Init, Wall
<1>2. Carrying = {} /\ log = {}
  BY DEF Init, Carrying
<1>3. \A r \in rows : Stamp(r) = <<0, offset>>
  BY DEF Init, OldRow, Stamp
<1>4. \A x \in Stamps : x[1] = 0 /\ x[2] = offset
  BY <1>2, <1>3 DEF Stamps
<1> QED
  BY <1>1, <1>4 DEF InOrder

LEMMA TimeNext == IInv /\ IInv' /\ TimeInv /\ [Next]_vars => TimeInv'
<1> SUFFICES ASSUME IInv, IInv', TimeInv, [Next]_vars, ~fell'
             PROVE  InOrder(Stamps', now', Wall')
  BY DEF TimeInv
<1>1. Stamps \in SUBSET (Nat \X Int)
  BY StampsType
<1>2. /\ now \in Nat /\ Wall \in Int /\ now' \in Nat /\ Wall' \in Int
      /\ offset \in Int /\ offset' \in Int
  BY PresentType, ReportsAssumption DEF IInv, Wall
<1>3. CASE UNCHANGED vars
  <2>1. Stamps' = Stamps /\ now' = now /\ Wall' = Wall /\ fell' = fell
    BY <1>3 DEF vars, Stamps, Carrying, Stamp, Wall
  <2> QED
    BY <2>1 DEF TimeInv
<1>4. ASSUME Stamps' \subseteq Stamps \cup {<<now, Wall>>},
             UNCHANGED <<now, offset, fell>>
      PROVE  InOrder(Stamps', now', Wall')
  <2>1. InOrder(Stamps, now, Wall) /\ Wall' = Wall
    BY <1>4 DEF TimeInv, Wall
  <2> QED
    BY <1>1, <1>2, <1>4, <2>1, PresentInOrder
<1>5. CASE Tick
  <2>1. Stamps' = Stamps
    BY <1>5 DEF Tick, Stamps, Carrying, Stamp
  <2>2. now' = now + 1 /\ Wall' = Wall + 1 /\ fell' = fell
    BY <1>2, <1>5 DEF Tick, Wall
  <2>3. InOrder(Stamps, now, Wall)
    BY <2>2 DEF TimeInv
  <2> QED
    BY <1>1, <1>2, <2>1, <2>2, <2>3, LaterInOrder
<1>6. ASSUME NEW o \in Offsets, ChangeZone(o)
      PROVE  InOrder(Stamps', now', Wall')
  <2>1. Stamps' = Stamps
    BY <1>6 DEF ChangeZone, Stamps, Carrying, Stamp
  <2>2. now' = now /\ offset' = o /\ ~fell /\ ~(o < offset)
    BY <1>6, Zenon DEF ChangeZone
  <2>3. Wall' >= Wall
    BY <1>2, <2>2 DEF Wall
  <2>4. InOrder(Stamps, now, Wall)
    BY <2>2 DEF TimeInv
  <2> QED
    BY <1>1, <1>2, <2>1, <2>2, <2>3, <2>4, LaterInOrder
<1>7. ASSUME NEW c \in Commands,
             \/ Open(c) \/ Migrate(c) \/ Insert(c) \/ StampEvent(c)
             \/ InsertEvent(c) \/ Kill(c)
             \/ \E n \in Names, v \in Validities : Issue(c, n, v)
             \/ \E row \in rows : Revoke(c, row)
      PROVE  InOrder(Stamps', now', Wall')
  <2>1. UNCHANGED <<now, offset, fell>>
    BY <1>7 DEF Open, Migrate, Insert, StampEvent, InsertEvent, Kill, Issue, Revoke
  <2>2. Stamps' \subseteq Stamps \cup {<<now, Wall>>}
    BY <1>7, StampsOfStep
  <2> QED
    BY <1>4, <2>1, <2>2
<1> QED
  BY <1>3, <1>5, <1>6, <1>7 DEF Next

LEMMA TimeInvariance == Spec => []TimeInv
BY Invariance, TimeInit, TimeNext, PTL DEF Spec

\* Until the local clock is set back, an event that log leaves out did not
\* happen after one that it shows.
THEOREM RecentNewest == Spec => []RecentAreNewest
<1>1. IInv /\ TimeInv => RecentAreNewest
  <2> SUFFICES ASSUME IInv, TimeInv, ~fell, NEW top \in RecentEvents,
                      NEW e \in top, NEW f \in log \ top
               PROVE  f.at <= e.at
    BY DEF RecentAreNewest
  <2>1. e \in log /\ f.wall <= e.wall
    BY DEF RecentEvents
  <2>2. e.at \in Nat /\ f.at \in Nat /\ e.wall \in Int /\ f.wall \in Int
    BY <2>1 DEF IInv, Event
  <2>3. Stamp(e) \in Stamps /\ Stamp(f) \in Stamps
    BY <2>1 DEF Stamps
  <2>4. Stamp(e)[1] < Stamp(f)[1] => Stamp(e)[2] < Stamp(f)[2]
    BY <2>3 DEF TimeInv, InOrder
  <2> QED
    BY <2>1, <2>2, <2>4 DEF Stamp
<1> QED
  BY <1>1, Invariance, TimeInvariance, PTL

\* Until the local clock is set back, export prints the certificate that was
\* issued last, and it fails for no name this version has issued one to.
THEOREM ExportNewest == Spec => []ExportedIsNewest
<1>1. IInv /\ TimeInv => ExportedIsNewest
  <2> SUFFICES ASSUME IInv, TimeInv, ~fell, NEW n \in Names, NEW r \in Exported(n)
               PROVE  /\ \A q \in Of(n) : q.at <= r.at
                      /\ (\E q \in Of(n) : q.pem) => r.pem
    BY DEF ExportedIsNewest
  <2>1. r \in rows /\ r.at \in Nat /\ r.wall \in Int /\ RowOK(r)
    BY DEF Exported, Of, IInv, Entry
  <2>2. ASSUME NEW q \in Of(n) PROVE q.at <= r.at
    <3>1. q \in rows /\ q.at \in Nat /\ q.wall \in Int /\ q.wall <= r.wall
      BY DEF Exported, Of, IInv, Entry
    <3>2. Stamp(q) \in Stamps /\ Stamp(r) \in Stamps
      BY <2>1, <3>1 DEF Stamps
    <3>3. Stamp(r)[1] < Stamp(q)[1] => Stamp(r)[2] < Stamp(q)[2]
      BY <3>2 DEF TimeInv, InOrder
    <3> QED
      BY <2>1, <3>1, <3>3 DEF Stamp
  <2>3. ASSUME NEW q \in Of(n), q.pem PROVE r.pem
    <3>1. q.at >= 1 /\ q.at \in Nat
      BY <2>3 DEF Of, IInv, Entry, RowOK
    <3>2. r.at >= 1
      BY <2>1, <2>2, <3>1
    <3> QED
      BY <2>1, <3>2 DEF RowOK
  <2> QED
    BY <2>2, <2>3
<1> QED
  BY <1>1, Invariance, TimeInvariance, PTL
=============================================================================
