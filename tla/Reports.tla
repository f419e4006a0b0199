------------------------------ MODULE Reports -------------------------------
(***************************************************************************)
(* The schema of data/pki.db, its timestamps, and what certctl reads back  *)
(* from them: export, list, expiring and log (server/internal/store).      *)
(*                                                                         *)
(* Every process begins with store.Open, which applies the schema one      *)
(* statement at a time.  A timestamp is bound as the text of its wall      *)
(* clock with the zone after it, and ORDER BY and <= compare the text: a   *)
(* time.Now() is written in the zone of the process, an expiry, which      *)
(* comes from the certificate, in UTC.                                     *)
(*                                                                         *)
(* A report is one SELECT, so it is an operator here: what certctl would   *)
(* print if it ran now.  The operators named Bug... are plausible slips in *)
(* the definition after them.                                              *)
(***************************************************************************)
EXTENDS Integers, Sequences, FiniteSets

CONSTANTS
  Commands,    \* certctl processes that write, one subcommand each
  Names,       \* names of devices
  Offsets,     \* what the local zone may add to UTC, in ticks
  Validities,  \* how long a certificate may be issued for
  WarnWindow,  \* the 30 days of expiring and of the warning in CheckAuth
  Limit,       \* how many events certctl log asks for
  Horizon,     \* bound: the clock stops here
  Faults       \* what may go wrong: a write is refused, a process is killed

ASSUME ReportsAssumption ==
  /\ Offsets \subseteq Int
  /\ Validities \subseteq Nat
  /\ WarnWindow \in Nat /\ Limit \in Nat /\ Horizon \in Nat \ {0}
  /\ Faults \subseteq {"write", "kill"}

VARIABLES
  schema,   \* the tables, indexes and added columns there are
  rows,     \* certificates
  log,      \* events
  now,      \* time.Now(), an instant
  offset,   \* the local zone
  fell,     \* history: the local clock has been set back
  command,  \* [Commands -> where the process is]
  refused   \* history: the processes that had a statement refused

vars == <<schema, rows, log, now, offset, fell, command, refused>>

Tables == {"certificates", "blacklist", "events", "devices",
           "idx_events_ts", "idx_certs_expires"}
AddedColumns == {"cert_pem", "key_path", "algorithm"}
FullSchema == Tables \cup AddedColumns

\* migrate, in its order: the CREATE script, then one ALTER per column.
Statements == <<"certificates", "blacklist", "events", "devices",
                "idx_events_ts", "idx_certs_expires",
                "cert_pem", "key_path", "algorithm">>

\* A database made before the columns and the inventory were.
OldSchema == {"certificates", "blacklist", "events"}

\* The text of a time.Now(): its wall clock decides every comparison.
Wall == now + offset

Goto(c, pc) == command' = [command EXCEPT ![c].pc = pc]
Refuse(c) == Goto(c, "failed") /\ refused' = refused \cup {c}

-----------------------------------------------------------------------------
(* store.Open.                                                             *)

Open(c) ==
  /\ command[c].pc = "idle"
  /\ Goto(c, "migrate")
  /\ UNCHANGED <<schema, rows, log, now, offset, fell, refused>>

\* What a statement adds to the schema; a table that is made now is made whole.
Added(object) ==
  IF object = "certificates" /\ object \notin schema
    THEN {object} \cup AddedColumns
    ELSE {object}

\* On to the next statement, or into the subcommand.
Advanced(p) ==
  IF p.next = Len(Statements) THEN [p EXCEPT !.pc = "open"]
                              ELSE [p EXCEPT !.next = @ + 1]

\* Mutant: the error "duplicate column" ends the migration.
BugMigrate(c) ==
  LET object == Statements[command[c].next] IN
  /\ command[c].pc = "migrate"
  /\ IF object \in schema \cap AddedColumns
       THEN Goto(c, "failed") /\ UNCHANGED schema
       ELSE /\ schema' = schema \cup Added(object)
            /\ command' = [command EXCEPT ![c] = Advanced(@)]
  /\ UNCHANGED <<rows, log, now, offset, fell, refused>>

\* Mutant: a table that is there is taken for a schema that is complete.
BugSkip(c) ==
  LET object == Statements[command[c].next] IN
  /\ command[c].pc = "migrate"
  /\ schema' = schema \cup Added(object)
  /\ command' = [command EXCEPT ![c] =
       IF @.next = Len(Statements) \/ object \in schema
         THEN [@ EXCEPT !.pc = "open"]
         ELSE [@ EXCEPT !.next = @ + 1]]
  /\ UNCHANGED <<rows, log, now, offset, fell, refused>>

\* One statement: IF NOT EXISTS or "duplicate column" makes it a no-op on what
\* is there, any other error ends the process.
Migrate(c) ==
  /\ command[c].pc = "migrate"
  /\ \/ /\ schema' = schema \cup Added(Statements[command[c].next])
        /\ command' = [command EXCEPT ![c] = Advanced(@)]
        /\ UNCHANGED refused
     \/ "write" \in Faults /\ Refuse(c) /\ UNCHANGED schema
  /\ UNCHANGED <<rows, log, now, offset, fell>>

-----------------------------------------------------------------------------
(* What is written: certctl issue from its time.Now(), certctl revoke.     *)

\* issuedAt := time.Now(), on its way to the INSERT.
Issue(c, n, validity) ==
  /\ command[c].pc = "open"
  /\ command' = [command EXCEPT ![c] =
       [@ EXCEPT !.pc = "insert", !.name = n, !.at = now, !.wall = Wall,
                 !.expires = now + validity]]
  /\ UNCHANGED <<schema, rows, log, now, offset, fell, refused>>

Insert(c) ==
  /\ command[c].pc = "insert"
  /\ \/ /\ rows' = rows \cup {[id |-> Cardinality(rows) + 1,
                               name |-> command[c].name, at |-> command[c].at,
                               wall |-> command[c].wall,
                               expires |-> command[c].expires,
                               status |-> "issued", pem |-> TRUE]}
        /\ Goto(c, "event")
        /\ UNCHANGED refused
     \/ "write" \in Faults /\ Refuse(c) /\ UNCHANGED rows
  /\ UNCHANGED <<schema, log, now, offset, fell>>

\* Mutant: the reason is written where the status belongs.
BugRevoke(c, row) ==
  /\ command[c].pc = "open"
  /\ rows' = (rows \ {row}) \cup {[row EXCEPT !.status = "reason"]}
  /\ Goto(c, "event")
  /\ UNCHANGED <<schema, log, now, offset, fell, refused>>

\* The UPDATE of store.Revoke.
Revoke(c, row) ==
  /\ command[c].pc = "open"
  /\ \/ /\ rows' = (rows \ {row}) \cup {[row EXCEPT !.status = "revoked"]}
        /\ Goto(c, "event")
        /\ UNCHANGED refused
     \/ "write" \in Faults /\ Refuse(c) /\ UNCHANGED rows
  /\ UNCHANGED <<schema, log, now, offset, fell>>

\* logEvent: its time.Now(), on its way to the INSERT ...
StampEvent(c) ==
  /\ command[c].pc = "event"
  /\ command' = [command EXCEPT ![c] =
                   [@ EXCEPT !.pc = "log", !.at = now, !.wall = Wall]]
  /\ UNCHANGED <<schema, rows, log, now, offset, fell, refused>>

\* ... which may wait for the lock of another process.
InsertEvent(c) ==
  /\ command[c].pc = "log"
  /\ \/ /\ log' = log \cup {[id |-> Cardinality(log) + 1, at |-> command[c].at,
                             wall |-> command[c].wall]}
        /\ Goto(c, "ok")
        /\ UNCHANGED refused
     \/ "write" \in Faults /\ Refuse(c) /\ UNCHANGED log
  /\ UNCHANGED <<schema, rows, now, offset, fell>>

Kill(c) ==
  /\ "kill" \in Faults
  /\ command[c].pc \in {"migrate", "insert", "event", "log"}
  /\ Goto(c, "killed")
  /\ UNCHANGED <<schema, rows, log, now, offset, fell, refused>>

Tick ==
  /\ now < Horizon
  /\ now' = now + 1
  /\ UNCHANGED <<schema, rows, log, offset, fell, command, refused>>

\* Summer time begins or ends, or the machine is moved to another zone.
ChangeZone(o) ==
  /\ offset' = o
  /\ fell' = (fell \/ o < offset)
  /\ UNCHANGED <<schema, rows, log, now, command, refused>>

-----------------------------------------------------------------------------
(* What is read back.                                                      *)

\* SELECT ... WHERE name = n.
Of(n) == {r \in rows : r.name = n}

\* Mutant: the row that was inserted last.
BugExported(n) == {r \in Of(n) : \A q \in Of(n) : q.id <= r.id}

\* GetCertificatePEM: ORDER BY issued_at DESC LIMIT 1; equal texts tie.  A row
\* without a PEM makes the export fail.
Exported(n) == {r \in Of(n) : \A q \in Of(n) : q.wall <= r.wall}

\* Mutant: the status is not asked for.
BugExpiringSoon(later) == {r \in rows : r.expires <= now + WarnWindow + later}

\* ExpiringSoon: the text of an expiry in UTC against that of
\* time.Now().Add(within), which is written in the zone of that later instant:
\* the zone in which the window ends, not the one in which it begins.
ExpiringSoon(later) ==
  {r \in rows : r.status = "issued" /\ r.expires <= now + WarnWindow + later}

\* Mutant: the newest rows are taken for the newest events.
BugRecentEvents ==
  {top \in SUBSET log :
     /\ Cardinality(top) = IF Cardinality(log) < Limit THEN Cardinality(log) ELSE Limit
     /\ \A e \in top, f \in log \ top : f.id <= e.id}

\* RecentEvents: ORDER BY ts DESC LIMIT ?, whichever rows that may select.
RecentEvents ==
  {top \in SUBSET log :
     /\ Cardinality(top) = IF Cardinality(log) < Limit THEN Cardinality(log) ELSE Limit
     /\ \A e \in top, f \in log \ top : f.wall <= e.wall}

\* The certificates that CheckAuth allows with a warning: those it does not deny
\* for their status or their expiry.
Warned(r) ==
  /\ r.status = "issued"
  /\ ~(now > r.expires)
  /\ r.expires - now < WarnWindow

-----------------------------------------------------------------------------

OldRow(n) == [id |-> 1, name |-> n, at |-> 0, wall |-> offset, expires |-> 1,
              status |-> "issued", pem |-> FALSE]

\* No database yet, or one from before cert_pem that holds an older certificate.
Init ==
  /\ now = 1 /\ offset \in Offsets /\ fell = FALSE
  /\ \/ schema = {} /\ rows = {}
     \/ schema = OldSchema /\ rows \in {{OldRow(n)} : n \in Names}
  /\ log = {}
  /\ command = [c \in Commands |->
       [pc |-> "idle", next |-> 1, name |-> "none", at |-> 0, wall |-> 0,
        expires |-> 0]]
  /\ refused = {}

Next ==
  \/ \E c \in Commands : Open(c) \/ Migrate(c)
  \/ \E c \in Commands, n \in Names, v \in Validities : Issue(c, n, v)
  \/ \E c \in Commands, row \in rows : Revoke(c, row)
  \/ \E c \in Commands : Insert(c) \/ StampEvent(c) \/ InsertEvent(c) \/ Kill(c)
  \/ Tick
  \/ \E o \in Offsets : ChangeZone(o)

Spec == Init /\ [][Next]_vars

-----------------------------------------------------------------------------
(* Properties.                                                             *)

Working == {"open", "insert", "event", "log", "ok"}

\* Types of the schema, the tables, the zone and the processes.
TypeOK ==
  /\ schema \subseteq FullSchema
  /\ rows \subseteq [id : Nat, name : Names, at : Nat, wall : Int, expires : Nat,
                     status : {"issued", "revoked"}, pem : BOOLEAN]
  /\ log \subseteq [id : Nat, at : Nat, wall : Int]
  /\ now \in 1..Horizon
  /\ offset \in Offsets
  /\ fell \in BOOLEAN
  /\ command \in [Commands ->
       [pc : Working \cup {"idle", "migrate", "failed", "killed"},
        next : 1..Len(Statements), name : Names \cup {"none"}, at : Nat,
        wall : Int, expires : Nat]]
  /\ refused \subseteq Commands

\* A process that has opened the database finds every table and column it will
\* name in a statement, whichever other process was migrating the same file or
\* was killed halfway (store.go:107-109, 174-189).
OpenedMeansMigrated ==
  \A c \in Commands : command[c].pc \in Working => schema = FullSchema

\* And opening never fails because somebody else has done part of the work: a
\* process gives up only when one of its own statements is refused.
OpenSucceeds ==
  \A c \in Commands : command[c].pc = "failed" => c \in refused

\* export prints the certificate of the name that was issued last, also when
\* overlapping issues record theirs in the other order, and it never fails once
\* this version has issued one; as long as the local clock is not set back
\* (store.go:333-343).
ExportedIsNewest ==
  ~fell => \A n \in Names : \A r \in Exported(n) :
    /\ \A q \in Of(n) : q.at <= r.at
    /\ (\E q \in Of(n) : q.pem) => r.pem

\* log shows the newest events there are, under the same condition: none that
\* is left out happened after one that is shown (store.go:370-376).
RecentAreNewest ==
  ~fell => \A top \in RecentEvents : \A e \in top, f \in log \ top : f.at <= e.at

\* expiring and the warnings of CheckAuth tell the same story about the same 30
\* days.  Where the window ends in UTC or east of it, every certificate that draws
\* a warning is listed; where it ends in UTC or west of it, every listed one draws
\* a warning, would a tick later, or is expired and denied; and a revoked one is
\* never listed (store.go:269-284, 346-351).
ExpiringAgreesWithWarnings ==
  \A later \in Offsets :
    /\ later >= 0 => \A r \in rows : Warned(r) => r \in ExpiringSoon(later)
    /\ \A r \in ExpiringSoon(later) : r.status = "issued"
    /\ later <= 0 => \A r \in ExpiringSoon(later) :
         Warned(r) \/ now > r.expires \/ r.expires = now + WarnWindow
=============================================================================
