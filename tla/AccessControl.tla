--------------------------- MODULE AccessControl ----------------------------
(***************************************************************************)
(* The access decision: requests to the mTLS backend (cmd/server), each    *)
(* answered by store.CheckAuth, while certctl processes record, revoke,    *)
(* blacklist and unblacklist through the same SQLite file.                 *)
(*                                                                         *)
(* A request is one call of handleDeviceRequest; a command is one certctl  *)
(* process, which executes one subcommand and exits.  Both advance one SQL *)
(* statement at a time.  A statement may fail if Faults says so: a read or *)
(* a write that gets SQLITE_BUSY once the driver's busy timeout has        *)
(* passed, or an I/O error.                                                *)
(*                                                                         *)
(* The operators named Bug... are no part of Next: each is a plausible     *)
(* slip in the definition that follows it, which a property must notice.   *)
(***************************************************************************)
EXTENDS CertificateStore

CONSTANTS
  Requests,      \* HTTP requests, each carrying one client certificate
  Commands,      \* certctl processes
  CommonNameOf,  \* [Serials -> Names]: subject of the signed certificate
  ExpiresAt,     \* [Serials -> Nat]: NotAfter of the signed certificate
  WarnWindow,    \* the 30 days before NotAfter, in ticks of the clock
  Horizon,       \* bound: the clock stops here
  Faults         \* the kinds of statement that may fail

ASSUME AccessAssumption ==
  /\ CommonNameOf \in [Serials -> Names]
  /\ ExpiresAt \in [Serials -> Nat]
  /\ WarnWindow \in Nat
  /\ Horizon \in Nat
  /\ Faults \subseteq {"read", "write"}
  /\ Requests \cap Commands = {}

VARIABLES
  now,      \* time.Now()
  request,  \* [Requests -> where CheckAuth is and what it has read]
  command,  \* [Commands -> where the certctl process is and its arguments]
  seen      \* history: what held at each instant of a request so far

tables == <<certificates, blacklist>>
vars == <<certificates, blacklist, events, now, request, command, seen>>

-----------------------------------------------------------------------------
(* Requests.                                                               *)

Checking == {"blacklist", "certificate", "expiry", "deny", "grant", "warn"}
Answers == {"allowed", "denied"}

Request == [pc : {"idle", "dropped"} \cup Checking \cup Answers,
            serial : Serials \cup {Blank},
            expires : Nat]

\* What an observer of the whole database would say of a certificate now.
Instant(s) == [barred  |-> CommonNameOf[s] \in blacklist,
               row     |-> RowStatus(s),
               expired |-> now > ExpiresAt[s],
               closing |-> now + WarnWindow > ExpiresAt[s]]

Instants == [barred : BOOLEAN, row : {"none", "issued", "revoked"},
             expired : BOOLEAN, closing : BOOLEAN]

InstantsOf(r) ==
  IF request[r].pc \in Checking THEN {Instant(request[r].serial)} ELSE {}

\* Every step extends the history of the requests in progress after it.
Observe == seen' = [r \in Requests |-> seen[r] \cup InstantsOf(r)']

Goto(r, pc) == request' = [request EXCEPT ![r].pc = pc]

\* logEvent with its error ignored, as CheckAuth calls it.
TryLog(type, r) ==
  \/ LogEvent(type, r, request[r].serial, CommonNameOf[request[r].serial])
  \/ "write" \in Faults /\ UNCHANGED events

\* The certificate has passed the TLS handshake, on this request or earlier on
\* a connection kept alive (it may have expired since); the handler calls
\* CheckAuth with its serial and subject.
Present(r, s) ==
  /\ request[r].pc = "idle"
  /\ request' = [request EXCEPT ![r].pc = "blacklist", ![r].serial = s]
  /\ UNCHANGED <<tables, events, now, command>>
  /\ Observe

\* Mutant: the blacklist is not consulted.
BugNoBlacklist(r) ==
  /\ request[r].pc = "blacklist"
  /\ Goto(r, "certificate")
  /\ UNCHANGED <<tables, events, now, command>>
  /\ Observe

\* SELECT reason FROM blacklist: only err == nil denies, so a lookup that
\* fails reads as "not blacklisted".
ReadBlacklist(r) ==
  LET cn == CommonNameOf[request[r].serial] IN
  /\ request[r].pc = "blacklist"
  /\ \/ cn \in blacklist /\ Goto(r, "deny")
     \/ /\ cn \notin blacklist \/ "read" \in Faults
        /\ Goto(r, "certificate")
  /\ UNCHANGED <<tables, events, now, command>>
  /\ Observe

\* Mutant: the status column is selected and not compared.
BugStatusIgnored(r) ==
  LET s == request[r].serial IN
  /\ request[r].pc = "certificate"
  /\ IF RowStatus(s) = "none"
       THEN Goto(r, "deny")
       ELSE request' = [request EXCEPT ![r].pc = "expiry",
                                       ![r].expires = certificates[s].expires]
  /\ UNCHANGED <<tables, events, now, command>>
  /\ Observe

\* Mutant: a failed SELECT starts the whole check again.
BugRetry(r) ==
  LET s == request[r].serial IN
  /\ request[r].pc = "certificate"
  /\ \/ "read" \in Faults /\ Goto(r, "blacklist")
     \/ RowStatus(s) # "issued" /\ Goto(r, "deny")
     \/ /\ RowStatus(s) = "issued"
        /\ request' = [request EXCEPT ![r].pc = "expiry",
                                      ![r].expires = certificates[s].expires]
  /\ UNCHANGED <<tables, events, now, command>>
  /\ Observe

\* SELECT status, expires_at FROM certificates: any error denies.
ReadCertificate(r) ==
  LET s == request[r].serial IN
  /\ request[r].pc = "certificate"
  /\ \/ /\ RowStatus(s) # "issued" \/ "read" \in Faults
        /\ Goto(r, "deny")
     \/ /\ RowStatus(s) = "issued"
        /\ request' = [request EXCEPT ![r].pc = "expiry",
                                      ![r].expires = certificates[s].expires]
  /\ UNCHANGED <<tables, events, now, command>>
  /\ Observe

\* Mutant: validity is left to the TLS handshake.
BugNoExpiry(r) ==
  /\ request[r].pc = "expiry"
  /\ Goto(r, "grant")
  /\ UNCHANGED <<tables, events, now, command>>
  /\ Observe

\* Mutant: the warning window is applied to the refusal.
BugEarlyExpiry(r) ==
  /\ request[r].pc = "expiry"
  /\ Goto(r, IF now + WarnWindow > request[r].expires THEN "deny" ELSE "grant")
  /\ UNCHANGED <<tables, events, now, command>>
  /\ Observe

\* time.Now().After(expiresAt), on the row read by the statement before.
CheckExpiry(r) ==
  /\ request[r].pc = "expiry"
  /\ Goto(r, IF now > request[r].expires THEN "deny" ELSE "grant")
  /\ UNCHANGED <<tables, events, now, command>>
  /\ Observe

\* Mutant: a refusal returns before it is logged.
BugSilentDenial(r) ==
  /\ request[r].pc = "deny"
  /\ Goto(r, "denied")
  /\ UNCHANGED <<tables, events, now, command>>
  /\ Observe

\* Every refusal: logEvent auth_denied, then return false.
LogDenied(r) ==
  /\ request[r].pc = "deny"
  /\ TryLog("auth_denied", r)
  /\ Goto(r, "denied")
  /\ UNCHANGED <<tables, now, command>>
  /\ Observe

LogGranted(r) ==
  /\ request[r].pc = "grant"
  /\ TryLog("auth_success", r)
  /\ Goto(r, "warn")
  /\ UNCHANGED <<tables, now, command>>
  /\ Observe

\* Mutant: the warning waits for the expiry itself.
BugLateWarning(r) ==
  /\ request[r].pc = "warn"
  /\ IF now > request[r].expires THEN TryLog("expiry_warning", r)
                                 ELSE UNCHANGED events
  /\ Goto(r, "allowed")
  /\ UNCHANGED <<tables, now, command>>
  /\ Observe

\* time.Until(expiresAt) < 30 days adds a warning; then CheckAuth returns
\* true and the handler answers 200.
Allow(r) ==
  /\ request[r].pc = "warn"
  /\ IF now + WarnWindow > request[r].expires THEN TryLog("expiry_warning", r)
                                              ELSE UNCHANGED events
  /\ Goto(r, "allowed")
  /\ UNCHANGED <<tables, now, command>>
  /\ Observe

\* The server process dies: the requests in progress get no answer.
ServerCrash ==
  /\ \E r \in Requests : request[r].pc \in Checking
  /\ request' = [r \in Requests |->
       IF request[r].pc \in Checking THEN [request[r] EXCEPT !.pc = "dropped"]
                                     ELSE request[r]]
  /\ UNCHANGED <<tables, events, now, command>>
  /\ Observe

-----------------------------------------------------------------------------
(* certctl processes.  Each first changes a table, then logs the change;   *)
(* must() turns the error of either statement into exit status 1.          *)

Ops == {"issued", "revoked", "blacklisted", "unblacklisted"}

Command == [pc : {"idle", "name", "log", "ok", "failed", "killed"},
            op : Ops \cup {Blank},
            serial : Serials \cup {Blank},
            cn : Names \cup {Blank}]

\* Process c has committed its change and goes on at pc.
Committed(c, pc, op, s, n) ==
  command' = [command EXCEPT ![c] =
                [pc |-> pc, op |-> op, serial |-> s, cn |-> n]]

Fail(c) == command' = [command EXCEPT ![c].pc = "failed"]

\* certctl issue, from the moment it calls store.RecordIssued.
RecordIssued(c, s) ==
  /\ command[c].pc = "idle"
  /\ \/ /\ InsertCertificate(s, CommonNameOf[s], ExpiresAt[s])
        /\ Committed(c, "log", "issued", s, CommonNameOf[s])
     \/ /\ certificates[s] # NoRow \/ "write" \in Faults
        /\ Fail(c)
        /\ UNCHANGED certificates
  /\ UNCHANGED <<blacklist, events, now, request>>
  /\ Observe

\* store.Revoke: the UPDATE, and the error when it affects no row.
Revoke(c, s) ==
  /\ command[c].pc = "idle"
  /\ \/ SetRevoked(s) /\ Committed(c, "name", "revoked", s, Blank)
     \/ /\ certificates[s] = NoRow \/ "write" \in Faults
        /\ Fail(c)
        /\ UNCHANGED certificates
  /\ UNCHANGED <<blacklist, events, now, request>>
  /\ Observe

\* commonNameForSerial, whose error Revoke ignores.
CommonNameForSerial(c) ==
  /\ command[c].pc = "name"
  /\ \E cn \in {certificates[command[c].serial].cn} \cup
                 (IF "read" \in Faults THEN {Blank} ELSE {}) :
       Committed(c, "log", command[c].op, command[c].serial, cn)
  /\ UNCHANGED <<tables, events, now, request>>
  /\ Observe

\* store.Blacklist (an upsert) and store.Unblacklist (a DELETE that succeeds
\* whether or not the name is listed).
SetBlacklisted(c, n, listed) ==
  /\ command[c].pc = "idle"
  /\ \/ /\ blacklist' = IF listed THEN blacklist \cup {n} ELSE blacklist \ {n}
        /\ Committed(c, "log", IF listed THEN "blacklisted"
                                         ELSE "unblacklisted", Blank, n)
     \/ "write" \in Faults /\ Fail(c) /\ UNCHANGED blacklist
  /\ UNCHANGED <<certificates, events, now, request>>
  /\ Observe

\* Mutant: the command ignores the error of its logEvent.
BugLogIgnored(c) ==
  /\ command[c].pc = "log"
  /\ \/ LogEvent(command[c].op, c, command[c].serial, command[c].cn)
     \/ "write" \in Faults /\ UNCHANGED events
  /\ command' = [command EXCEPT ![c].pc = "ok"]
  /\ UNCHANGED <<tables, now, request>>
  /\ Observe

\* logEvent, whose error these methods return.
LogCommand(c) ==
  /\ command[c].pc = "log"
  /\ \/ /\ LogEvent(command[c].op, c, command[c].serial, command[c].cn)
        /\ command' = [command EXCEPT ![c].pc = "ok"]
     \/ "write" \in Faults /\ Fail(c) /\ UNCHANGED events
  /\ UNCHANGED <<tables, now, request>>
  /\ Observe

\* The process is killed between its two statements.
Kill(c) ==
  /\ command[c].pc \in {"name", "log"}
  /\ command' = [command EXCEPT ![c].pc = "killed"]
  /\ UNCHANGED <<tables, events, now, request>>
  /\ Observe

Tick ==
  /\ now < Horizon
  /\ now' = now + 1
  /\ UNCHANGED <<tables, events, request, command>>
  /\ Observe

-----------------------------------------------------------------------------

\* A fresh database: store.Open has created the tables and nothing is in them.
Init ==
  /\ certificates = [s \in Serials |-> NoRow]
  /\ blacklist = {}
  /\ events = {}
  /\ now = 0
  /\ request = [r \in Requests |->
                  [pc |-> "idle", serial |-> Blank, expires |-> 0]]
  /\ command = [c \in Commands |->
                  [pc |-> "idle", op |-> Blank, serial |-> Blank, cn |-> Blank]]
  /\ seen = [r \in Requests |-> {}]

CheckAuth(r) == \/ ReadBlacklist(r)
                \/ ReadCertificate(r)
                \/ CheckExpiry(r)
                \/ LogDenied(r)
                \/ LogGranted(r)
                \/ Allow(r)

Next ==
  \/ \E r \in Requests, s \in Serials : Present(r, s)
  \/ \E r \in Requests : CheckAuth(r)
  \/ ServerCrash
  \/ \E c \in Commands, s \in Serials : RecordIssued(c, s) \/ Revoke(c, s)
  \/ \E c \in Commands, n \in Names, listed \in BOOLEAN :
       SetBlacklisted(c, n, listed)
  \/ \E c \in Commands : CommonNameForSerial(c) \/ LogCommand(c) \/ Kill(c)
  \/ Tick

Spec == Init /\ [][Next]_vars

\* The runtime keeps scheduling a handler's goroutine, and every statement
\* returns: with a result, or with an error when the busy timeout passes.
FairSpec == Spec /\ \A r \in Requests : WF_vars(CheckAuth(r))

-----------------------------------------------------------------------------
(* Properties.                                                             *)

Event == [type : Ops \cup {"auth_success", "auth_denied", "expiry_warning"},
          by : Requests \cup Commands,
          serial : Serials \cup {Blank},
          cn : Names \cup {Blank}]

StateOK ==
  /\ certificates \in [Serials -> Row \cup {NoRow}]
  /\ blacklist \subseteq Names
  /\ events \subseteq Event
  /\ now \in 0..Horizon
  /\ request \in [Requests -> Request]
  /\ \A r \in Requests : request[r].pc # "idle" => request[r].serial \in Serials
  /\ command \in [Commands -> Command]
  /\ \A c \in Commands :
       /\ command[c].pc \in {"name", "log", "ok"} => command[c].op \in Ops
       /\ command[c].pc = "name" =>
            /\ command[c].serial \in Serials
            /\ certificates[command[c].serial] # NoRow

\* Type correctness of the tables, the clock, the processes and the history.
TypeOK == StateOK /\ seen \in [Requests -> SUBSET Instants]

Permits(o) == ~o.barred /\ o.row = "issued" /\ ~o.expired

\* CheckAuth answers "is this serial/CN currently allowed?" (store.go:250):
\* whenever it says yes to a certificate that was on record throughout, there
\* was an instant of the call at which the whole database allowed it.  The two
\* SELECTs see different instants; they still agree on one, because a
\* revocation is never undone and an expired certificate stays expired.
KnownAllowedAtSomeInstant ==
  \A r \in Requests :
    /\ request[r].pc = "allowed"
    /\ \A o \in seen[r] : o.row # "none"
    => \E o \in seen[r] : Permits(o)

\* A rejection is never spurious: at some instant of the call the database did
\* refuse the certificate.
DeniedAtSomeInstant ==
  \A r \in Requests : request[r].pc = "denied" =>
    \E o \in seen[r] : ~Permits(o)

\* A certificate whose revocation was committed before the request began is
\* refused, even when statements fail ("takes effect on the device's next
\* connection", certctl main.go:238).
RevokedStaysOut ==
  \A r \in Requests : request[r].pc = "allowed" =>
    \E o \in seen[r] : o.row # "revoked"

\* A device that stays blacklisted for the whole request is refused ("it stays
\* blocked until explicitly removed", store.go:226).
BlacklistedStaysOut ==
  \A r \in Requests : request[r].pc = "allowed" =>
    \E o \in seen[r] : ~o.barred

LoggedBy(p, type) == \E e \in events : e.by = p /\ e.type = type

\* Every answered attempt is in the event log under the outcome the device was
\* given, and under no other (store.go:250-253).
AttemptIsLogged ==
  \A r \in Requests :
    /\ request[r].pc = "allowed" => LoggedBy(r, "auth_success")
    /\ request[r].pc = "denied" => LoggedBy(r, "auth_denied")
    /\ ~(LoggedBy(r, "auth_success") /\ LoggedBy(r, "auth_denied"))

\* An accepted certificate that was within the warning window during the whole
\* request leaves an expiry warning for the operator (store.go:280-284).
ClosingIsFlagged ==
  \A r \in Requests :
    /\ request[r].pc = "allowed"
    /\ \A o \in seen[r] : o.closing
    => LoggedBy(r, "expiry_warning")

\* A command that reported success has left its event, whatever failed and
\* whoever was killed around it; a revocation it reported is still in force.
AcknowledgedIsLogged ==
  \A c \in Commands : command[c].pc = "ok" =>
    /\ LoggedBy(c, command[c].op)
    /\ command[c].op = "revoked" => RowStatus(command[c].serial) = "revoked"

\* No statement of any process turns a revoked row back: neither a second
\* issuance under the serial nor anything else.
RevocationIsFinal ==
  [][\A s \in Serials : RowStatus(s) = "revoked" => RowStatus(s)' = "revoked"]_vars

\* Every request that reaches the handler is answered, unless the server dies.
Answered ==
  \A r \in Requests :
    request[r].pc \in Checking ~> request[r].pc \in Answers \cup {"dropped"}
-----------------------------------------------------------------------------
(* The promise.                                                            *)

\* The standing that an instant amounts to: a revoked or an expired certificate
\* is out whatever the tables say later.
StandingAt(o) ==
  [record |-> IF o.expired \/ o.row = "revoked" THEN "out"
              ELSE IF o.row = "none" THEN "none" ELSE "in force",
   barred |-> o.barred]

Policy == INSTANCE AccessPolicy WITH
  Nobody   <- Blank,
  Failing  <- "read" \in Faults,
  standing <- [s \in Serials |-> StandingAt(Instant(s))],
  phase    <- [r \in Requests |->
                 IF request[r].pc \in Checking THEN "open" ELSE request[r].pc],
  subject  <- [r \in Requests |-> request[r].serial],
  heard    <- [r \in Requests |-> {StandingAt(o) : o \in seen[r]}]

\* CheckAuth with its statements, its clock readings and its log implements the
\* promise: it answers once, by a verdict that the standings of the certificate
\* during the call justify, while no other process ever moves a certificate
\* back from revoked or expired.  It permits the one answer that no single
\* instant gives: yes, when the certificate was recorded and its device barred
\* between the two SELECTs.  Where reads fail, the promise keeps that a yes has
\* met an instant at which the certificate was in force.
ImplementsPolicy == Policy!Spec
=============================================================================
