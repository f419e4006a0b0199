----------------------------- MODULE TrustGate ------------------------------
(***************************************************************************)
(* The gate before issuance: certctl processes that scan a device into the *)
(* devices table (certctl scan), override its status (certctl trust) and   *)
(* ask whether it may have a certificate (certctl issue <device> client),  *)
(* side by side on one SQLite file, a statement at a time.                 *)
(*                                                                         *)
(* A process that ends before its first statement (nmap fails, usage       *)
(* error) has changed nothing and is left out.  The operators named Bug... *)
(* are plausible slips in the definition after them, no part of Next.      *)
(***************************************************************************)
EXTENDS TrustScore

CONSTANTS
  Devices,       \* device ids, as deviceIDFor makes them
  Commands,      \* certctl processes, one subcommand each
  Observations,  \* what nmap and the neighbor table may show of a device
  NoRow,         \* a device that has no row in devices
  Faults         \* what may go wrong: reads, writes, the process itself

ASSUME GateAssumption ==
  /\ Observations \subseteq [mac : Mac, ports : SUBSET Port]
  /\ Faults \subseteq {"read", "write", "kill"}

VARIABLES
  devices,  \* [Devices -> Row, or NoRow before the first scan]
  events,   \* the rows of events that name a device
  command,  \* [Commands -> where the process is, its arguments and locals]
  clock,    \* history: counts the probes and the overrides, in their order
  history   \* [Devices -> what the rows of the device have been through]

vars == <<devices, events, command, clock, history>>

\* The columns the gate and the scans read.
Row == [value : 0..100, status : Status, first : Nat, count : Nat]

ASSUME NoRowAssumption == NoRow \notin Row

\* store.Device while it is on its way to the table, and main's locals.
Idle == [pc |-> "idle", op |-> "none", device |-> NoRow, value |-> 0,
         status |-> "pending", first |-> 0, count |-> 0, allowed |-> FALSE,
         at |-> 0]

\* shown: the probe the row shows; newest: the latest probe ever written;
\* manual: the latest override, and the status it set; byHand: an operator was
\* the last to write the status; scans: how often a scan wrote the row.
Fresh == [shown |-> 0, newest |-> 0, manual |-> 0, set |-> "pending",
          byHand |-> FALSE, scans |-> 0]

Step(c, pc) == command' = [command EXCEPT ![c].pc = pc]

LogEvent(c, type) ==
  events' = events \cup {[type |-> type, by |-> c, device |-> command[c].device,
                          status |-> command[c].status]}

-----------------------------------------------------------------------------
(* certctl scan.                                                           *)

\* trust.Scan and trust.Calculate: the host is probed at this instant.
Probe(c, d, o) ==
  LET score == Calculate(o.mac, o.ports) IN
  /\ command[c].pc = "idle"
  /\ clock' = clock + 1
  /\ command' = [command EXCEPT ![c] =
       [Idle EXCEPT !.pc = "known", !.op = "device_scanned", !.device = d,
                    !.value = score.value, !.status = score.status,
                    !.at = clock + 1]]
  /\ UNCHANGED <<devices, events, history>>

\* Mutant: the row that is read has been incremented already.
BugKnown(c) ==
  LET row == devices[command[c].device] IN
  /\ command[c].pc = "known"
  /\ command' = [command EXCEPT ![c] =
       [@ EXCEPT !.pc = "upsert",
                 !.first = IF row = NoRow THEN clock ELSE row.first,
                 !.count = IF row = NoRow THEN 0 ELSE row.count + 1]]
  /\ UNCHANGED <<devices, events, clock, history>>

\* RecordScan's SELECT.  Any error, not only "no rows", makes it a device
\* never seen before.
ReadKnown(c) ==
  LET row == devices[command[c].device] IN
  /\ command[c].pc = "known"
  /\ \/ /\ row # NoRow
        /\ command' = [command EXCEPT ![c] =
             [@ EXCEPT !.pc = "upsert", !.first = row.first, !.count = row.count]]
     \/ /\ row = NoRow \/ "read" \in Faults
        /\ command' = [command EXCEPT ![c] =
             [@ EXCEPT !.pc = "upsert", !.first = clock, !.count = 0]]
  /\ UNCHANGED <<devices, events, clock, history>>

\* Mutant: the conflict clause takes every column from the new row.
BugWritten(c) ==
  [value |-> command[c].value, status |-> command[c].status,
   first |-> command[c].first, count |-> command[c].count + 1]

\* Mutant: a device once trusted keeps its status through a rescan.
BugSticky(c) ==
  LET row == devices[command[c].device] IN
  [value |-> command[c].value,
   status |-> IF row # NoRow /\ row.status = "trusted" THEN "trusted"
              ELSE command[c].status,
   first |-> IF row = NoRow THEN command[c].first ELSE row.first,
   count |-> command[c].count + 1]

\* INSERT ... ON CONFLICT(device_id) DO UPDATE: first_seen alone survives, and
\* scan_count is the one read before, plus one.
Written(c) ==
  LET row == devices[command[c].device] IN
  [value |-> command[c].value, status |-> command[c].status,
   first |-> IF row = NoRow THEN command[c].first ELSE row.first,
   count |-> command[c].count + 1]

\* What the history of a device becomes by the row of a probe.
Recorded(h, at) ==
  [h EXCEPT !.shown = at, !.scans = @ + 1, !.byHand = FALSE,
            !.newest = IF at > @ THEN at ELSE @]

Upsert(c) ==
  LET d == command[c].device IN
  /\ command[c].pc = "upsert"
  /\ \/ /\ devices' = [devices EXCEPT ![d] = Written(c)]
        /\ history' = [history EXCEPT ![d] = Recorded(@, command[c].at)]
        /\ Step(c, "log")
     \/ "write" \in Faults /\ Step(c, "failed") /\ UNCHANGED <<devices, history>>
  /\ UNCHANGED <<events, clock>>

-----------------------------------------------------------------------------
(* certctl trust.                                                          *)

\* Mutant: SetOnboardingStatus returns once the UPDATE has succeeded.
BugOverride(c, d, status) ==
  /\ command[c].pc = "idle"
  /\ devices[d] # NoRow
  /\ devices' = [devices EXCEPT ![d].status = status]
  /\ history' = [history EXCEPT ![d] =
                   [@ EXCEPT !.manual = clock + 1, !.set = status, !.byHand = TRUE]]
  /\ clock' = clock + 1
  /\ command' = [command EXCEPT ![c] =
       [Idle EXCEPT !.pc = "ok", !.op = "trust_override", !.device = d,
                    !.status = status]]
  /\ UNCHANGED events

\* SetOnboardingStatus: an UPDATE, an error if it affects no row.  The status
\* is free text; one that is not of Status is to the gate what "pending" is.
Override(c, d, status) ==
  /\ command[c].pc = "idle"
  /\ \/ /\ devices[d] # NoRow
        /\ devices' = [devices EXCEPT ![d].status = status]
        /\ history' = [history EXCEPT ![d] =
                         [@ EXCEPT !.manual = clock + 1, !.set = status, !.byHand = TRUE]]
        /\ clock' = clock + 1
        /\ command' = [command EXCEPT ![c] =
             [Idle EXCEPT !.pc = "log", !.op = "trust_override", !.device = d,
                          !.status = status]]
     \/ /\ devices[d] = NoRow \/ "write" \in Faults
        /\ Step(c, "failed")
        /\ UNCHANGED <<devices, clock, history>>
  /\ UNCHANGED events

\* The logEvent that ends a scan and an override; its error is returned.
LogCommand(c) ==
  /\ command[c].pc = "log"
  /\ \/ LogEvent(c, command[c].op) /\ Step(c, "ok")
     \/ "write" \in Faults /\ Step(c, "failed") /\ UNCHANGED events
  /\ UNCHANGED <<devices, clock, history>>

-----------------------------------------------------------------------------
(* certctl issue <device> client, up to the signature.                     *)

\* CheckIssuanceAllowed: one SELECT; an error reads as "never scanned".
Gate(c, d, force) ==
  LET trusted == devices[d] # NoRow /\ devices[d].status = "trusted"
      Issue(pc, allowed) ==
        command' = [command EXCEPT ![c] =
          [Idle EXCEPT !.pc = pc, !.op = "issue", !.device = d,
                       !.allowed = allowed]]
  IN
  /\ command[c].pc = "idle"
  /\ \/ trusted /\ Issue("sign", TRUE)
     \/ /\ ~trusted \/ "read" \in Faults
        /\ Issue(IF force THEN "forced" ELSE "blocked", FALSE)
  /\ UNCHANGED <<devices, events, clock, history>>

\* LogIssueBlocked, its error ignored; then exit status 1.
LogIssueBlocked(c) ==
  /\ command[c].pc = "blocked"
  /\ LogEvent(c, "issue_blocked") \/ ("write" \in Faults /\ UNCHANGED events)
  /\ Step(c, "failed")
  /\ UNCHANGED <<devices, clock, history>>

\* LogTrustForceOverride, its error ignored; then issuance goes on.
LogTrustForceOverride(c) ==
  /\ command[c].pc = "forced"
  /\ LogEvent(c, "trust_override") \/ ("write" \in Faults /\ UNCHANGED events)
  /\ Step(c, "sign")
  /\ UNCHANGED <<devices, clock, history>>

\* The CA signs: seconds after the gate, which is not looked at again.
Sign(c) ==
  /\ command[c].pc = "sign"
  /\ Step(c, "signed")
  /\ UNCHANGED <<devices, events, clock, history>>

Kill(c) ==
  /\ "kill" \in Faults
  /\ command[c].pc \in {"known", "upsert", "log", "blocked", "forced", "sign"}
  /\ Step(c, "killed")
  /\ UNCHANGED <<devices, events, clock, history>>

-----------------------------------------------------------------------------

Init ==
  /\ devices = [d \in Devices |-> NoRow]
  /\ events = {}
  /\ command = [c \in Commands |-> Idle]
  /\ clock = 0
  /\ history = [d \in Devices |-> Fresh]

Next ==
  \/ \E c \in Commands, d \in Devices, o \in Observations : Probe(c, d, o)
  \/ \E c \in Commands, d \in Devices, s \in Status : Override(c, d, s)
  \/ \E c \in Commands, d \in Devices, force \in BOOLEAN : Gate(c, d, force)
  \/ \E c \in Commands :
       \/ ReadKnown(c) \/ Upsert(c) \/ LogCommand(c)
       \/ LogIssueBlocked(c) \/ LogTrustForceOverride(c) \/ Sign(c)
       \/ Kill(c)

Spec == Init /\ [][Next]_vars

-----------------------------------------------------------------------------
(* Properties.                                                             *)

Command ==
  [pc : {"idle", "known", "upsert", "log", "blocked", "forced", "sign", "ok",
         "signed", "failed", "killed"},
   op : {"none", "device_scanned", "trust_override", "issue"},
   device : Devices \cup {NoRow}, value : 0..100, status : Status,
   first : Nat, count : Nat, allowed : BOOLEAN, at : Nat]

\* Types of the table, the log, the processes and the history.
TypeOK ==
  /\ devices \in [Devices -> Row \cup {NoRow}]
  /\ events \subseteq
       [type : {"device_scanned", "trust_override", "issue_blocked"},
        by : Commands, device : Devices, status : Status]
  /\ command \in [Commands -> Command]
  /\ \A c \in Commands : command[c].op # "none" => command[c].device \in Devices
  /\ \A c \in Commands : command[c].pc \notin {"idle", "failed"} =>
                           command[c].op # "none"
  /\ \A c \in Commands : command[c].pc = "log" =>
                           command[c].op \in {"device_scanned", "trust_override"}
  /\ clock \in Nat
  /\ history \in [Devices -> [shown : Nat, newest : Nat, manual : Nat,
                              set : Status, byHand : BOOLEAN, scans : Nat]]

\* A status has a reason that can still be given: the score beside it in the
\* row, or the latest operator who has set it since that score was written.
\* No mixture of two scans, or of a scan and an override, is ever stored.
StatusIsExplained ==
  \A d \in Devices : devices[d] # NoRow =>
    devices[d].status = IF history[d].byHand THEN history[d].set
                                             ELSE StatusOf(devices[d].value)

\* A certificate that the gate let through can be explained from the log: the
\* event log holds a scan or an operator that found the device trusted, or the
\* one who did never reported success (README.md:138, store.go:488-491).
ApprovalIsOnRecord ==
  \A c \in Commands : command[c].pc = "signed" /\ command[c].allowed =>
    \/ \E e \in events : /\ e.device = command[c].device
                         /\ e.status = "trusted"
                         /\ e.type \in {"device_scanned", "trust_override"}
    \/ \E b \in Commands : /\ command[b].pc \in {"log", "failed", "killed"}
                           /\ command[b].op \in {"device_scanned", "trust_override"}
                           /\ command[b].device = command[c].device
                           /\ command[b].status = "trusted"

\* A forced issuance "must never be silent" (store.go:534-537).
ForceNeverSilent ==
  \A c \in Commands :
    command[c].pc \in {"sign", "signed"} /\ ~command[c].allowed =>
      \E e \in events : e.by = c /\ e.type = "trust_override"

\* scan_count never counts a scan that was not recorded.
CountIsBacked ==
  \A d \in Devices :
    devices[d] # NoRow => devices[d].count \in 1..history[d].scans

\* A device's first_seen is fixed by its first recorded scan, whichever scans
\* race with it and whatever they have read (store.go:401-402).
FirstSeenIsKept ==
  [][\A d \in Devices : devices[d] # NoRow =>
       devices'[d] # NoRow /\ devices'[d].first = devices[d].first]_vars

\* "unless the device already has a manual override recorded more recent than
\* this scan" (store.go:403-405): an override made after the host was probed
\* is not undone by the row that the probe writes.
OverrideIsHonored ==
  \A d \in Devices : history[d].manual > history[d].shown =>
    devices[d].status = history[d].set
=============================================================================
