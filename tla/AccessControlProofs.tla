------------------------ MODULE AccessControlProofs -------------------------
(* TLAPS proofs about AccessControl, for any numbers of requests, certctl  *)
(* processes, certificates and devices, and any clock.                     *)
EXTENDS AccessControl, TLAPS

USE DEF Checking, Answers, Ops

LEMMA InitType == Init => TypeOK
BY NoRowAssumption, AccessAssumption DEF Init, TypeOK, StateOK, Request, Command

LEMMA PresentType ==
  ASSUME StateOK, NEW r \in Requests, NEW s \in Serials, Present(r, s)
  PROVE  StateOK'
BY DEF StateOK, Present, Request, tables

LEMMA ReadBlacklistType ==
  ASSUME StateOK, NEW r \in Requests, ReadBlacklist(r)
  PROVE  StateOK'
BY DEF StateOK, ReadBlacklist, Goto, Request, tables

LEMMA ReadCertificateType ==
  ASSUME StateOK, NEW r \in Requests, ReadCertificate(r)
  PROVE  StateOK'
BY NoRowAssumption
DEF StateOK, ReadCertificate, RowStatus, Goto, Request, Row, tables

LEMMA CheckExpiryType ==
  ASSUME StateOK, NEW r \in Requests, CheckExpiry(r)
  PROVE  StateOK'
BY DEF StateOK, CheckExpiry, Goto, Request, tables

LEMMA TryLogType ==
  ASSUME StateOK, NEW r \in Requests, request[r].pc # "idle",
         NEW type \in {"auth_success", "auth_denied", "expiry_warning"},
         TryLog(type, r)
  PROVE  events' \subseteq Event
BY AccessAssumption DEF StateOK, TryLog, LogEvent, Request, Event

LEMMA LogDeniedType ==
  ASSUME StateOK, NEW r \in Requests, LogDenied(r)
  PROVE  StateOK'
BY TryLogType DEF StateOK, LogDenied, Goto, Request, tables

LEMMA LogGrantedType ==
  ASSUME StateOK, NEW r \in Requests, LogGranted(r)
  PROVE  StateOK'
BY TryLogType DEF StateOK, LogGranted, Goto, Request, tables

LEMMA AllowType ==
  ASSUME StateOK, NEW r \in Requests, Allow(r)
  PROVE  StateOK'
BY TryLogType DEF StateOK, Allow, Goto, Request, tables

LEMMA ServerCrashType ==
  ASSUME StateOK, ServerCrash
  PROVE  StateOK'
BY DEF StateOK, ServerCrash, Request, tables

\* The two ways in which a step leaves a process.
LEMMA CommandType ==
  ASSUME StateOK, NEW c \in Commands
  PROVE  /\ \A v \in Command :
              [command EXCEPT ![c] = v] \in [Commands -> Command]
         /\ \A pc \in {"log", "ok", "failed", "killed"} :
              [command EXCEPT ![c].pc = pc] \in [Commands -> Command]
BY DEF StateOK, Command

LEMMA RecordIssuedType ==
  ASSUME StateOK, NEW c \in Commands, NEW s \in Serials, RecordIssued(c, s)
  PROVE  StateOK'
<1>1. /\ certificates' \in [Serials -> Row \cup {NoRow}]
      /\ \A t \in Serials : certificates[t] # NoRow => certificates'[t] # NoRow
  BY NoRowAssumption, AccessAssumption
  DEF StateOK, RecordIssued, InsertCertificate, Row
<1>2. \/ command' = [command EXCEPT ![c] = [pc |-> "log", op |-> "issued",
                                       serial |-> s, cn |-> CommonNameOf[s]]]
      \/ command' = [command EXCEPT ![c].pc = "failed"]
  BY DEF RecordIssued, Committed, Fail
<1>3. [pc |-> "log", op |-> "issued", serial |-> s, cn |-> CommonNameOf[s]]
        \in Command
  BY AccessAssumption DEF Command
<1>4. command' \in [Commands -> Command]
  BY <1>2, <1>3, CommandType
<1> QED
  BY <1>1, <1>2, <1>4 DEF StateOK, RecordIssued, Command

LEMMA RevokeType ==
  ASSUME StateOK, NEW c \in Commands, NEW s \in Serials, Revoke(c, s)
  PROVE  StateOK'
<1>1. /\ certificates' \in [Serials -> Row \cup {NoRow}]
      /\ \A t \in Serials : certificates'[t] # NoRow <=> certificates[t] # NoRow
  BY NoRowAssumption DEF StateOK, Revoke, SetRevoked, Row
<1>2. /\ certificates[s] # NoRow
      /\ command' = [command EXCEPT ![c] = [pc |-> "name", op |-> "revoked",
                                            serial |-> s, cn |-> Blank]]
      \/ command' = [command EXCEPT ![c].pc = "failed"]
  BY DEF Revoke, SetRevoked, Committed, Fail
<1>3. [pc |-> "name", op |-> "revoked", serial |-> s, cn |-> Blank] \in Command
  BY DEF Command
<1>4. command' \in [Commands -> Command]
  BY <1>2, <1>3, CommandType
<1> QED
  BY <1>1, <1>2, <1>4 DEF StateOK, Revoke, Command

LEMMA CommonNameForSerialType ==
  ASSUME StateOK, NEW c \in Commands, CommonNameForSerial(c)
  PROVE  StateOK'
<1>1. certificates[command[c].serial].cn \in Names
  BY DEF StateOK, CommonNameForSerial, Row
<1>2. PICK cn \in Names \cup {Blank} :
        command' = [command EXCEPT ![c] =
          [pc |-> "log", op |-> command[c].op,
           serial |-> command[c].serial, cn |-> cn]]
  BY <1>1 DEF CommonNameForSerial, Committed
<1>3. command' \in [Commands -> Command]
  BY <1>2 DEF StateOK, Command
<1> QED
  BY <1>2, <1>3 DEF StateOK, CommonNameForSerial, Command, tables

LEMMA SetBlacklistedType ==
  ASSUME StateOK, NEW c \in Commands, NEW n \in Names, NEW listed \in BOOLEAN,
         SetBlacklisted(c, n, listed)
  PROVE  StateOK'
<1> DEFINE op == IF listed THEN "blacklisted" ELSE "unblacklisted"
<1>1. blacklist' \subseteq Names
  BY DEF StateOK, SetBlacklisted
<1>2. \/ command' = [command EXCEPT ![c] =
                       [pc |-> "log", op |-> op, serial |-> Blank, cn |-> n]]
      \/ command' = [command EXCEPT ![c].pc = "failed"]
  BY DEF SetBlacklisted, Committed, Fail
<1>3. op \in Ops /\ [pc |-> "log", op |-> op, serial |-> Blank, cn |-> n] \in Command
  BY DEF Command
<1> HIDE DEF op
<1>4. command' \in [Commands -> Command]
  BY <1>2, <1>3, CommandType
<1> QED
  BY <1>1, <1>2, <1>3, <1>4 DEF StateOK, SetBlacklisted, Command

LEMMA LogCommandType ==
  ASSUME StateOK, NEW c \in Commands, LogCommand(c)
  PROVE  StateOK'
<1>1. /\ command[c].op \in Ops
      /\ command[c].serial \in Serials \cup {Blank}
      /\ command[c].cn \in Names \cup {Blank}
  BY DEF StateOK, LogCommand, Command
<1>2. events' \subseteq Event
  BY <1>1 DEF StateOK, LogCommand, LogEvent, Event
<1>3. \/ command' = [command EXCEPT ![c].pc = "ok"]
      \/ command' = [command EXCEPT ![c].pc = "failed"]
  BY DEF LogCommand, Fail
<1>4. command' \in [Commands -> Command]
  BY <1>3, CommandType
<1>5. UNCHANGED <<certificates, blacklist, now, request>>
  BY DEF LogCommand, tables
<1> QED
  BY <1>1, <1>2, <1>3, <1>4, <1>5 DEF StateOK, Command

LEMMA KillType ==
  ASSUME StateOK, NEW c \in Commands, Kill(c)
  PROVE  StateOK'
BY DEF StateOK, Kill, Command, tables

LEMMA TickType ==
  ASSUME StateOK, Tick
  PROVE  StateOK'
BY AccessAssumption DEF StateOK, Tick, tables

\* What one step of any process preserves, short of the history.
LEMMA StepState == StateOK /\ [Next]_vars => StateOK'
<1> SUFFICES ASSUME StateOK, [Next]_vars PROVE StateOK'
  OBVIOUS
<1>1. ASSUME NEW r \in Requests, NEW s \in Serials, Present(r, s)
      PROVE  StateOK'
  BY <1>1, PresentType
<1>2. ASSUME NEW r \in Requests, CheckAuth(r)
      PROVE  StateOK'
  BY <1>2, ReadBlacklistType, ReadCertificateType, CheckExpiryType,
     LogDeniedType, LogGrantedType, AllowType DEF CheckAuth
<1>3. CASE ServerCrash
  BY <1>3, ServerCrashType
<1>4. ASSUME NEW c \in Commands, NEW s \in Serials,
             RecordIssued(c, s) \/ Revoke(c, s)
      PROVE  StateOK'
  BY <1>4, RecordIssuedType, RevokeType
<1>5. ASSUME NEW c \in Commands, NEW n \in Names, NEW listed \in BOOLEAN,
             SetBlacklisted(c, n, listed)
      PROVE  StateOK'
  BY <1>5, SetBlacklistedType
<1>6. ASSUME NEW c \in Commands,
             CommonNameForSerial(c) \/ LogCommand(c) \/ Kill(c)
      PROVE  StateOK'
  BY <1>6, CommonNameForSerialType, LogCommandType, KillType
<1>7. CASE Tick
  BY <1>7, TickType
<1>8. CASE UNCHANGED vars
  BY <1>8 DEF vars, StateOK
<1> QED
  BY <1>1, <1>2, <1>3, <1>4, <1>5, <1>6, <1>7, <1>8 DEF Next

\* Every step that is not a stutter extends the history.
LEMMA StepObserves == Next => Observe
BY DEF Next, CheckAuth, Present, ReadBlacklist, ReadCertificate, CheckExpiry,
       LogDenied, LogGranted, Allow, ServerCrash, RecordIssued, Revoke,
       SetBlacklisted, CommonNameForSerial, LogCommand, Kill, Tick

LEMMA InstantType == StateOK => \A r \in Requests : InstantsOf(r) \subseteq Instants
<1> SUFFICES ASSUME StateOK, NEW s \in Serials PROVE Instant(s) \in Instants
  BY DEF InstantsOf, StateOK
<1> QED
  BY NoRowAssumption DEF StateOK, Instant, Instants, RowStatus, Row

LEMMA InstantTypePrimed ==
  StateOK' => (\A r \in Requests : InstantsOf(r) \subseteq Instants)'
BY InstantType, PTL

LEMMA HistoryType ==
  ASSUME TypeOK, StateOK', Observe
  PROVE  seen' \in [Requests -> SUBSET Instants]
BY InstantTypePrimed DEF TypeOK, Observe

\* The tables, the clock, the event log, the processes and the history of
\* every reachable state have the declared types.
THEOREM TypeCorrect == Spec => []TypeOK
<1>1. TypeOK /\ [Next]_vars => TypeOK'
  <2> SUFFICES ASSUME TypeOK, [Next]_vars PROVE TypeOK'
    OBVIOUS
  <2>1. StateOK'
    BY StepState DEF TypeOK
  <2>2. CASE Next
    BY <2>1, <2>2, StepObserves, HistoryType DEF TypeOK
  <2>3. CASE UNCHANGED vars
    BY <2>1, <2>3 DEF TypeOK, vars
  <2> QED
    BY <2>2, <2>3
<1> QED
  BY InitType, <1>1, PTL DEF Spec
-----------------------------------------------------------------------------
(* Revocation.                                                             *)

\* No step undoes a revocation or turns the clock back.
LEMMA StepMonotone ==
  ASSUME StateOK, Next
  PROVE  /\ \A s \in Serials : RowStatus(s) = "revoked" => RowStatus(s)' = "revoked"
         /\ now \in Nat /\ now' \in Nat /\ now <= now'
<1>1. ASSUME NEW s \in Serials, RowStatus(s) = "revoked"
      PROVE  RowStatus(s)' = "revoked"
  <2>1. CASE UNCHANGED certificates
    BY <1>1, <2>1 DEF RowStatus
  <2>2. ASSUME NEW c \in Commands, NEW t \in Serials, RecordIssued(c, t)
        PROVE  RowStatus(s)' = "revoked"
    BY <1>1, <2>2 DEF RecordIssued, InsertCertificate, RowStatus, StateOK
  <2>3. ASSUME NEW c \in Commands, NEW t \in Serials, Revoke(c, t)
        PROVE  RowStatus(s)' = "revoked"
    BY <1>1, <2>3, NoRowAssumption
    DEF Revoke, SetRevoked, RowStatus, StateOK, Row
  <2> QED
    BY <2>1, <2>2, <2>3
    DEF Next, CheckAuth, Present, ReadBlacklist, ReadCertificate, CheckExpiry,
        LogDenied, LogGranted, Allow, ServerCrash, SetBlacklisted,
        CommonNameForSerial, LogCommand, Kill, Tick, tables
<1>2. now \in Nat
  BY AccessAssumption DEF StateOK
<1>3. now' = now \/ now' = now + 1
  BY DEF Next, CheckAuth, Present, ReadBlacklist, ReadCertificate, CheckExpiry,
         LogDenied, LogGranted, Allow, ServerCrash, RecordIssued, Revoke,
         SetBlacklisted, CommonNameForSerial, LogCommand, Kill, Tick
<1> QED
  BY <1>1, <1>2, <1>3

\* A certificate once revoked stays revoked, whatever is issued, revoked or
\* listed later and whichever statements fail.
THEOREM RevocationFinal == Spec => RevocationIsFinal
<1>1. TypeOK /\ [Next]_vars =>
        [\A s \in Serials : RowStatus(s) = "revoked" => RowStatus(s)' = "revoked"]_vars
  BY StepMonotone DEF TypeOK
<1> QED
  BY <1>1, TypeCorrect, PTL DEF Spec, RevocationIsFinal

-----------------------------------------------------------------------------
(* The history of a request in progress.                                   *)

\* It contains the present instant, and nothing it contains contradicts the
\* present in what cannot be undone.
HistoryInv ==
  \A r \in Requests :
    /\ request[r].pc = "idle" => seen[r] = {}
    /\ request[r].pc \in Checking =>
         /\ Instant(request[r].serial) \in seen[r]
         /\ \A o \in seen[r] :
              /\ o.row = "revoked" => RowStatus(request[r].serial) = "revoked"
              /\ o.expired => now > ExpiresAt[request[r].serial]

\* How a step may move a request.
LEMMA StepRequests ==
  ASSUME StateOK, Next, NEW r \in Requests
  PROVE  /\ request'[r].pc = "idle" => request[r].pc = "idle"
         /\ request'[r].pc \in Checking =>
              \/ request[r].pc = "idle"
              \/ /\ request[r].pc \in Checking
                 /\ request'[r].serial = request[r].serial
<1>1. CASE UNCHANGED request
  BY <1>1
<1>2. ASSUME NEW q \in Requests, NEW s \in Serials, Present(q, s)
      PROVE  /\ request'[r].pc = "idle" => request[r].pc = "idle"
             /\ request'[r].pc \in Checking =>
                  \/ request[r].pc = "idle"
                  \/ /\ request[r].pc \in Checking
                     /\ request'[r].serial = request[r].serial
  BY <1>2 DEF StateOK, Present, Request
<1>3. ASSUME NEW q \in Requests, CheckAuth(q)
      PROVE  /\ request'[r].pc = "idle" => request[r].pc = "idle"
             /\ request'[r].pc \in Checking =>
                  \/ request[r].pc = "idle"
                  \/ /\ request[r].pc \in Checking
                     /\ request'[r].serial = request[r].serial
  BY <1>3 DEF StateOK, CheckAuth, ReadBlacklist, ReadCertificate, CheckExpiry,
              LogDenied, LogGranted, Allow, Goto, Request
<1>4. CASE ServerCrash
  BY <1>4 DEF StateOK, ServerCrash, Request
<1> QED
  BY <1>1, <1>2, <1>3, <1>4
  DEF Next, RecordIssued, Revoke, SetBlacklisted, CommonNameForSerial,
      LogCommand, Kill, Tick

LEMMA StepHistory ==
  ASSUME StateOK, StateOK', HistoryInv, Next
  PROVE  HistoryInv'
<1> SUFFICES ASSUME NEW r \in Requests
             PROVE  /\ request'[r].pc = "idle" => seen'[r] = {}
                    /\ request'[r].pc \in Checking =>
                         /\ Instant(request[r].serial)' \in seen'[r]
                         /\ \A o \in seen'[r] :
                              /\ o.row = "revoked" =>
                                   RowStatus(request[r].serial)' = "revoked"
                              /\ o.expired => now' > ExpiresAt[request'[r].serial]
  BY DEF HistoryInv
<1>1. seen'[r] = seen[r] \cup InstantsOf(r)'
  BY StepObserves DEF Observe
<1>2. CASE request'[r].pc = "idle"
  BY <1>1, <1>2, StepRequests DEF InstantsOf, HistoryInv
<1>3. CASE request'[r].pc \in Checking
  <2> DEFINE s == request[r].serial
  <2>1. InstantsOf(r)' = {Instant(s)'}
    BY <1>3 DEF InstantsOf
  <2>2. s' \in Serials
    BY <1>3 DEF StateOK
  <2>3. Instant(s)'.row = RowStatus(s)' /\ Instant(s)'.expired = (now' > ExpiresAt[s'])
    BY DEF Instant
  <2>4. ASSUME NEW o \in seen[r]
        PROVE  /\ o.row = "revoked" => RowStatus(s)' = "revoked"
               /\ o.expired => now' > ExpiresAt[s']
    <3>1. request[r].pc \in Checking /\ s' = s
      BY <1>3, StepRequests DEF HistoryInv
    <3>2. /\ o.row = "revoked" => RowStatus(s) = "revoked"
          /\ o.expired => now > ExpiresAt[s]
      BY <3>1 DEF HistoryInv
    <3>3. ExpiresAt[s] \in Nat
      BY <2>2, <3>1, AccessAssumption
    <3>4. RowStatus(s) = "revoked" => RowStatus(s)' = "revoked"
      BY <2>2, <3>1, StepMonotone DEF RowStatus
    <3> QED
      BY <3>1, <3>2, <3>3, <3>4, StepMonotone
  <2> HIDE DEF s
  <2>5. /\ Instant(s)' \in seen'[r]
        /\ \A o \in seen'[r] : /\ o.row = "revoked" => RowStatus(s)' = "revoked"
                               /\ o.expired => now' > ExpiresAt[s']
    BY <1>1, <2>1, <2>3, <2>4
  <2> QED
    BY <1>3, <2>5 DEF s
<1> QED
  BY <1>2, <1>3

LEMMA HistoryHolds == Spec => []HistoryInv
<1>1. Init => HistoryInv
  BY DEF Init, HistoryInv
<1>2. TypeOK /\ TypeOK' /\ HistoryInv /\ [Next]_vars => HistoryInv'
  <2> SUFFICES ASSUME TypeOK, TypeOK', HistoryInv, [Next]_vars PROVE HistoryInv'
    OBVIOUS
  <2>1. CASE Next
    BY <2>1, StepHistory DEF TypeOK
  <2>2. CASE UNCHANGED vars
    BY <2>2 DEF vars, HistoryInv, Instant, RowStatus
  <2> QED
    BY <2>1, <2>2
<1> QED
  BY <1>1, <1>2, TypeCorrect, PTL DEF Spec

\* The tests a request has passed on its way to an answer.
LEMMA StepTests ==
  ASSUME StateOK, Next, NEW r \in Requests
  PROVE  /\ request'[r].pc = "certificate" =>
              request'[r] = request[r] \/ ReadBlacklist(r)
         /\ request'[r].pc = "expiry" =>
              request'[r] = request[r] \/ ReadCertificate(r)
         /\ request'[r].pc \in {"grant", "warn", "allowed"} =>
              request[r].pc \in {"grant", "warn", "allowed"} \/ CheckExpiry(r)
<1> DEFINE Goal ==
      /\ request'[r].pc = "certificate" =>
           request'[r] = request[r] \/ ReadBlacklist(r)
      /\ request'[r].pc = "expiry" =>
           request'[r] = request[r] \/ ReadCertificate(r)
      /\ request'[r].pc \in {"grant", "warn", "allowed"} =>
           request[r].pc \in {"grant", "warn", "allowed"} \/ CheckExpiry(r)
<1>1. CASE UNCHANGED request
  BY <1>1
<1>2. ASSUME NEW q \in Requests, NEW s \in Serials, Present(q, s)
      PROVE  Goal
  BY <1>2 DEF StateOK, Present, Request
<1>3. ASSUME CheckAuth(r)
      PROVE  Goal
  BY <1>3 DEF StateOK, CheckAuth, ReadBlacklist, ReadCertificate, CheckExpiry,
              LogDenied, LogGranted, Allow, Goto, Request
<1>4. ASSUME NEW q \in Requests \ {r}, CheckAuth(q)
      PROVE  request'[r] = request[r]
  BY <1>4 DEF StateOK, CheckAuth, ReadBlacklist, ReadCertificate, CheckExpiry,
              LogDenied, LogGranted, Allow, Goto, Request
<1>5. CASE ServerCrash
  BY <1>5 DEF StateOK, ServerCrash, Request
<1> QED
  BY <1>1, <1>2, <1>3, <1>4, <1>5
  DEF Next, RecordIssued, Revoke, SetBlacklisted, CommonNameForSerial,
      LogCommand, Kill, Tick

\* A statement of CheckAuth moves its own request, and ends it only by an answer.
LEMMA CheckAuthMoves ==
  ASSUME StateOK, NEW r \in Requests, CheckAuth(r)
  PROVE  /\ request[r].pc \in Checking /\ UNCHANGED <<tables, now>>
         /\ request'[r].serial = request[r].serial
         /\ \A q \in Requests \ {r} : request'[q] = request[q]
         /\ \/ request'[r].pc \in Checking
            \/ request[r].pc = "warn" /\ request'[r].pc = "allowed"
            \/ request[r].pc = "deny" /\ request'[r].pc = "denied"
<1>1. ASSUME NEW pc, Goto(r, pc)
      PROVE  /\ request'[r].pc = pc /\ request'[r].serial = request[r].serial
             /\ \A q \in Requests \ {r} : request'[q] = request[q]
  BY <1>1 DEF StateOK, Goto, Request
<1>2. CASE ReadBlacklist(r)
  BY <1>1, <1>2 DEF ReadBlacklist, tables
<1>3. CASE ReadCertificate(r)
  <2>1. ASSUME NEW e, request' = [request EXCEPT ![r].pc = "expiry", ![r].expires = e]
        PROVE  /\ request'[r].pc = "expiry" /\ request'[r].serial = request[r].serial
               /\ \A q \in Requests \ {r} : request'[q] = request[q]
    BY <2>1 DEF StateOK, Request
  <2> QED
    BY <1>1, <1>3, <2>1 DEF ReadCertificate, tables
<1>4. CASE CheckExpiry(r)
  BY <1>1, <1>4 DEF CheckExpiry, tables
<1>5. CASE LogDenied(r)
  BY <1>1, <1>5 DEF LogDenied, tables
<1>6. CASE LogGranted(r)
  BY <1>1, <1>6 DEF LogGranted, tables
<1>7. CASE Allow(r)
  BY <1>1, <1>7 DEF Allow, tables
<1> QED
  BY <1>2, <1>3, <1>4, <1>5, <1>6, <1>7 DEF CheckAuth

\* What a step is to one request.
LEMMA StepOf ==
  ASSUME StateOK, Next, NEW r \in Requests
  PROVE  \/ request'[r] = request[r]
         \/ request'[r].pc = "blacklist" /\ request[r].pc = "idle"
         \/ CheckAuth(r)
         \/ request[r].pc \in Checking /\ request'[r].pc = "dropped"
<1>1. CASE UNCHANGED request
  BY <1>1
<1>2. ASSUME NEW q \in Requests, NEW s \in Serials, Present(q, s)
      PROVE  \/ request'[r] = request[r]
             \/ request'[r].pc = "blacklist" /\ request[r].pc = "idle"
  BY <1>2 DEF StateOK, Present, Request
<1>3. ASSUME NEW q \in Requests \ {r}, CheckAuth(q)
      PROVE  request'[r] = request[r]
  BY <1>3, CheckAuthMoves
<1>4. CASE ServerCrash
  BY <1>4 DEF StateOK, ServerCrash, Request
<1> QED
  BY <1>1, <1>2, <1>3, <1>4
  DEF Next, RecordIssued, Revoke, SetBlacklisted, CommonNameForSerial,
      LogCommand, Kill, Tick

LEMMA GotoMoves ==
  ASSUME StateOK, NEW r \in Requests, NEW pc, Goto(r, pc)
  PROVE  /\ request'[r].pc = pc
         /\ request'[r].serial = request[r].serial
         /\ request'[r].expires = request[r].expires
BY DEF StateOK, Goto, Request

\* The statement that a request under way executes, by where it is.
LEMMA CheckAuthAt ==
  ASSUME StateOK, NEW r \in Requests, CheckAuth(r)
  PROVE  \/ /\ request[r].pc \in {"blacklist", "certificate", "expiry"}
            /\ request'[r].pc \in {"certificate", "expiry", "deny", "grant"}
            /\ ReadBlacklist(r) \/ ReadCertificate(r) \/ CheckExpiry(r)
         \/ LogDenied(r) /\ request[r].pc = "deny" /\ request'[r].pc = "denied"
         \/ LogGranted(r) /\ request[r].pc = "grant" /\ request'[r].pc = "warn"
         \/ Allow(r) /\ request[r].pc = "warn" /\ request'[r].pc = "allowed"
<1>1. CASE ReadBlacklist(r)
  BY <1>1, GotoMoves DEF ReadBlacklist
<1>2. CASE ReadCertificate(r)
  <2>1. ASSUME NEW e, request' = [request EXCEPT ![r].pc = "expiry", ![r].expires = e]
        PROVE  request'[r].pc = "expiry"
    BY <2>1 DEF StateOK, Request
  <2> QED
    BY <1>2, <2>1, GotoMoves DEF ReadCertificate
<1>3. CASE CheckExpiry(r)
  BY <1>3, GotoMoves DEF CheckExpiry
<1>4. CASE LogDenied(r)
  BY <1>4, GotoMoves DEF LogDenied
<1>5. CASE LogGranted(r)
  BY <1>5, GotoMoves DEF LogGranted
<1>6. CASE Allow(r)
  BY <1>6, GotoMoves DEF Allow
<1> QED
  BY <1>1, <1>2, <1>3, <1>4, <1>5, <1>6 DEF CheckAuth

-----------------------------------------------------------------------------
(* A request that is allowed.                                              *)

\* The record a request has found was in force at some instant of it.
FoundInv ==
  \A r \in Requests :
    request[r].pc \in {"expiry", "grant", "warn", "allowed"} =>
      \E o \in seen[r] : o.row = "issued"

LEMMA StepKeepsHistory ==
  ASSUME Next, NEW r \in Requests
  PROVE  seen[r] \subseteq seen'[r]
BY StepObserves DEF Observe

LEMMA StepFound ==
  ASSUME StateOK, HistoryInv, FoundInv, Next
  PROVE  FoundInv'
<1> SUFFICES ASSUME NEW r \in Requests,
                    request'[r].pc \in {"expiry", "grant", "warn", "allowed"}
             PROVE  \E o \in seen'[r] : o.row = "issued"
  BY DEF FoundInv
<1>1. CASE ReadCertificate(r)
  <2>1. RowStatus(request[r].serial) = "issued"
    BY <1>1 DEF ReadCertificate, Goto, StateOK, Request
  <2>2. Instant(request[r].serial) \in seen[r]
    BY <1>1 DEF HistoryInv, ReadCertificate
  <2> QED
    BY <2>1, <2>2, StepKeepsHistory DEF Instant
<1>2. CASE request[r].pc \in {"expiry", "grant", "warn", "allowed"}
  BY <1>2, StepKeepsHistory DEF FoundInv
<1> QED
  BY <1>1, <1>2, StepTests DEF CheckExpiry

\* A certificate revoked before the request began is refused, whichever
\* statements fail: every error of the second SELECT denies.
THEOREM RevokedRefused == Spec => []RevokedStaysOut
<1>1. Init => FoundInv
  BY DEF Init, FoundInv
<1>2. TypeOK /\ HistoryInv /\ FoundInv /\ [Next]_vars => FoundInv'
  BY StepFound DEF TypeOK, FoundInv, vars
<1>3. FoundInv => RevokedStaysOut
  BY DEF FoundInv, RevokedStaysOut
<1> QED
  BY <1>1, <1>2, <1>3, TypeCorrect, HistoryHolds, PTL DEF Spec

-----------------------------------------------------------------------------
(* The validity a request works with, whichever statements fail.           *)

\* The rows carry the validity of the certificates that were signed.
RowsInv ==
  \A s \in Serials :
    certificates[s] # NoRow => certificates[s].expires = ExpiresAt[s]

\* A request past its second lookup works with the validity of its certificate.
CarriesInv ==
  \A r \in Requests : request[r].pc \in {"expiry", "grant", "warn"} =>
    request[r].expires = ExpiresAt[request[r].serial]

LEMMA StepRows ==
  ASSUME StateOK, RowsInv, Next
  PROVE  RowsInv'
<1>1. CASE UNCHANGED certificates
  BY <1>1 DEF RowsInv
<1>2. ASSUME NEW c \in Commands, NEW s \in Serials,
             RecordIssued(c, s) \/ Revoke(c, s)
      PROVE  RowsInv'
  BY <1>2, NoRowAssumption
  DEF RecordIssued, Revoke, InsertCertificate, SetRevoked, RowsInv, StateOK, Row
<1> QED
  BY <1>1, <1>2
  DEF Next, CheckAuth, Present, ReadBlacklist, ReadCertificate, CheckExpiry,
      LogDenied, LogGranted, Allow, ServerCrash, SetBlacklisted,
      CommonNameForSerial, LogCommand, Kill, Tick, tables

LEMMA StepCarries ==
  ASSUME StateOK, RowsInv, CarriesInv, Next
  PROVE  CarriesInv'
<1> SUFFICES ASSUME NEW r \in Requests,
                    request'[r].pc \in {"expiry", "grant", "warn"}
             PROVE  request'[r].expires = ExpiresAt[request'[r].serial]
  BY DEF CarriesInv
<1>1. CASE request'[r] = request[r]
  BY <1>1 DEF CarriesInv
<1>2. CASE ReadCertificate(r)
  <2>1. request[r].pc = "certificate" /\ request[r].serial \in Serials
    BY <1>2 DEF ReadCertificate, StateOK
  <2>2. /\ RowStatus(request[r].serial) = "issued"
        /\ request'[r].expires = certificates[request[r].serial].expires
        /\ request'[r].serial = request[r].serial
    BY <1>2 DEF ReadCertificate, Goto, StateOK, Request
  <2> QED
    BY <2>1, <2>2 DEF RowsInv, RowStatus
<1>3. CASE CheckExpiry(r)
  BY <1>3, GotoMoves DEF CheckExpiry, CarriesInv
<1>4. CASE LogGranted(r)
  BY <1>4, GotoMoves DEF LogGranted, CarriesInv
<1>5. CASE ReadBlacklist(r)
  BY <1>5, GotoMoves DEF ReadBlacklist
<1> QED
  BY <1>1, <1>2, <1>3, <1>4, <1>5, StepOf, CheckAuthAt

LEMMA CarriesHolds == Spec => [](RowsInv /\ CarriesInv)
<1>1. Init => RowsInv /\ CarriesInv
  BY DEF Init, RowsInv, CarriesInv
<1>2. TypeOK /\ RowsInv /\ CarriesInv /\ [Next]_vars => RowsInv' /\ CarriesInv'
  <2> SUFFICES ASSUME TypeOK, RowsInv, CarriesInv, [Next]_vars
               PROVE  RowsInv' /\ CarriesInv'
    OBVIOUS
  <2>1. CASE Next
    BY <2>1, StepRows, StepCarries DEF TypeOK
  <2>2. CASE UNCHANGED vars
    BY <2>2 DEF vars, RowsInv, CarriesInv
  <2> QED
    BY <2>1, <2>2
<1> QED
  BY <1>1, <1>2, TypeCorrect, PTL DEF Spec

-----------------------------------------------------------------------------
(* The whole verdict, when reads do not fail.                              *)

\* If no read fails, what a request has passed held at one instant of it,
\* whichever statement it has just executed.
PassedInv ==
  "read" \notin Faults => \A r \in Requests :
    /\ request[r].pc = "certificate" => \E o \in seen[r] : ~o.barred
    /\ request[r].pc = "expiry" => \E o \in seen[r] : ~o.barred /\ o.row # "revoked"
    /\ request[r].pc \in {"grant", "warn", "allowed"} =>
         \E o \in seen[r] : ~o.barred /\ o.row # "revoked" /\ ~o.expired

LEMMA StepPassed ==
  ASSUME StateOK, HistoryInv, CarriesInv, PassedInv, Next
  PROVE  PassedInv'
<1> SUFFICES ASSUME "read" \notin Faults, NEW r \in Requests
             PROVE  /\ request'[r].pc = "certificate" =>
                         \E o \in seen'[r] : ~o.barred
                    /\ request'[r].pc = "expiry" =>
                         \E o \in seen'[r] : ~o.barred /\ o.row # "revoked"
                    /\ request'[r].pc \in {"grant", "warn", "allowed"} =>
                         \E o \in seen'[r] :
                           ~o.barred /\ o.row # "revoked" /\ ~o.expired
  BY DEF PassedInv
<1>1. ASSUME request'[r].pc = "certificate"
      PROVE  \E o \in seen'[r] : ~o.barred
  <2>1. CASE request'[r] = request[r]
    BY <1>1, <2>1, StepKeepsHistory DEF PassedInv
  <2>2. CASE ReadBlacklist(r)
    <3>1. Instant(request[r].serial) \in seen[r]
      BY <2>2 DEF HistoryInv, ReadBlacklist
    <3>2. CommonNameOf[request[r].serial] \notin blacklist
      BY <1>1, <2>2 DEF ReadBlacklist, Goto, StateOK, Request
    <3> QED
      BY <3>1, <3>2, StepKeepsHistory DEF Instant
  <2> QED
    BY <1>1, <2>1, <2>2, StepTests
<1>2. ASSUME request'[r].pc = "expiry"
      PROVE  \E o \in seen'[r] : ~o.barred /\ o.row # "revoked"
  <2>1. CASE request'[r] = request[r]
    BY <1>2, <2>1, StepKeepsHistory DEF PassedInv
  <2>2. CASE ReadCertificate(r)
    <3>1. request[r].pc = "certificate" /\ request[r].serial \in Serials
      BY <2>2 DEF ReadCertificate, StateOK
    <3>2. RowStatus(request[r].serial) = "issued"
      BY <1>2, <2>2 DEF ReadCertificate, Goto, StateOK, Request
    <3>3. PICK o \in seen[r] : ~o.barred
      BY <3>1 DEF PassedInv
    <3>4. o.row # "revoked"
      BY <3>1, <3>2 DEF HistoryInv
    <3> QED
      BY <3>3, <3>4, StepKeepsHistory
  <2> QED
    BY <1>2, <2>1, <2>2, StepTests
<1>3. ASSUME request'[r].pc \in {"grant", "warn", "allowed"}
      PROVE  \E o \in seen'[r] : ~o.barred /\ o.row # "revoked" /\ ~o.expired
  <2>1. CASE request[r].pc \in {"grant", "warn", "allowed"}
    BY <2>1, StepKeepsHistory DEF PassedInv
  <2>2. CASE CheckExpiry(r)
    <3>1. request[r].pc = "expiry" /\ request[r].serial \in Serials
      BY <2>2 DEF CheckExpiry, StateOK
    <3>2. ~(now > ExpiresAt[request[r].serial])
      BY <1>3, <2>2, <3>1 DEF CheckExpiry, Goto, StateOK, Request, CarriesInv
    <3>3. PICK o \in seen[r] : ~o.barred /\ o.row # "revoked"
      BY <3>1 DEF PassedInv
    <3>4. ~o.expired
      BY <3>1, <3>2 DEF HistoryInv
    <3> QED
      BY <3>3, <3>4, StepKeepsHistory
  <2> QED
    BY <1>3, <2>1, <2>2, StepTests
<1> QED
  BY <1>1, <1>2, <1>3

LEMMA PassedHolds == Spec => []PassedInv
<1>1. Init => PassedInv
  BY DEF Init, PassedInv
<1>2. TypeOK /\ HistoryInv /\ RowsInv /\ CarriesInv /\ PassedInv /\ [Next]_vars
        => PassedInv'
  <2> SUFFICES ASSUME TypeOK, HistoryInv, CarriesInv, PassedInv, [Next]_vars
               PROVE  PassedInv'
    OBVIOUS
  <2>1. CASE Next
    BY <2>1, StepPassed DEF TypeOK
  <2>2. CASE UNCHANGED vars
    BY <2>2 DEF vars, PassedInv
  <2> QED
    BY <2>1, <2>2
<1> QED
  BY <1>1, <1>2, TypeCorrect, HistoryHolds, CarriesHolds, PTL DEF Spec

\* If no read fails, a device that is blacklisted from before the request
\* until its answer is refused.
THEOREM BlacklistedRefused ==
  ASSUME "read" \notin Faults
  PROVE  Spec => []BlacklistedStaysOut
<1>1. PassedInv => BlacklistedStaysOut
  BY DEF PassedInv, BlacklistedStaysOut
<1> QED
  BY <1>1, PassedHolds, PTL

\* If no read fails, a request whose certificate was recorded throughout and
\* that is allowed was, at one instant, recorded as issued, not expired and not
\* blacklisted, though no statement of CheckAuth looks at all three.
THEOREM KnownAllowedCorrect ==
  ASSUME "read" \notin Faults
  PROVE  Spec => []KnownAllowedAtSomeInstant
<1>1. TypeOK /\ PassedInv => KnownAllowedAtSomeInstant
  <2> SUFFICES ASSUME TypeOK, PassedInv, NEW r \in Requests,
                      request[r].pc = "allowed",
                      \A o \in seen[r] : o.row # "none"
               PROVE  \E o \in seen[r] : Permits(o)
    BY DEF KnownAllowedAtSomeInstant
  <2>1. PICK o \in seen[r] : ~o.barred /\ o.row # "revoked" /\ ~o.expired
    BY DEF PassedInv
  <2>2. o.row = "issued"
    BY <2>1 DEF TypeOK, Instants
  <2> QED
    BY <2>1, <2>2 DEF Permits
<1> QED
  BY <1>1, PassedHolds, TypeCorrect, PTL

-----------------------------------------------------------------------------
(* Both verdicts.                                                          *)

\* A request that is granted has met an instant at which the certificate was in
\* force and, if no read fails, one that is refused an instant that refused it.
VerdictInv ==
  \A r \in Requests :
    /\ "read" \notin Faults /\ request[r].pc \in {"deny", "denied"} =>
         \E o \in seen[r] : ~Permits(o)
    /\ request[r].pc \in {"grant", "warn", "allowed"} =>
         \E o \in seen[r] : o.row = "issued" /\ ~o.expired

\* What sends a request to its refusal.
LEMMA StepRefuses ==
  ASSUME StateOK, Next, NEW r \in Requests, request'[r].pc \in {"deny", "denied"}
  PROVE  \/ request[r].pc \in {"deny", "denied"}
         \/ ReadBlacklist(r) \/ ReadCertificate(r) \/ CheckExpiry(r)
<1> DEFINE Goal ==
      \/ request[r].pc \in {"deny", "denied"}
      \/ ReadBlacklist(r) \/ ReadCertificate(r) \/ CheckExpiry(r)
<1>1. CASE UNCHANGED request
  BY <1>1
<1>2. ASSUME NEW q \in Requests, NEW s \in Serials, Present(q, s)
      PROVE  Goal
  BY <1>2 DEF StateOK, Present, Request
<1>3. ASSUME CheckAuth(r)
      PROVE  Goal
  BY <1>3 DEF StateOK, CheckAuth, LogDenied, LogGranted, Allow, Goto, Request
<1>4. ASSUME NEW q \in Requests \ {r}, CheckAuth(q)
      PROVE  request'[r] = request[r]
  BY <1>4 DEF StateOK, CheckAuth, ReadBlacklist, ReadCertificate, CheckExpiry,
              LogDenied, LogGranted, Allow, Goto, Request
<1>5. CASE ServerCrash
  BY <1>5 DEF StateOK, ServerCrash, Request
<1> QED
  BY <1>1, <1>2, <1>3, <1>4, <1>5
  DEF Next, RecordIssued, Revoke, SetBlacklisted, CommonNameForSerial,
      LogCommand, Kill, Tick

LEMMA StepVerdict ==
  ASSUME StateOK, HistoryInv, CarriesInv, FoundInv, VerdictInv, Next
  PROVE  VerdictInv'
<1>1. ASSUME "read" \notin Faults, NEW r \in Requests,
             request'[r].pc \in {"deny", "denied"}
      PROVE  \E o \in seen'[r] : ~Permits(o)
  <2> DEFINE s == request[r].serial
  <2>1. CASE request[r].pc \in {"deny", "denied"}
    BY <1>1, <2>1, StepKeepsHistory DEF VerdictInv
  <2>2. ASSUME request[r].pc \in Checking, ~Permits(Instant(s))
        PROVE  \E o \in seen'[r] : ~Permits(o)
    <3>1. Instant(s) \in seen[r]
      BY <2>2 DEF HistoryInv
    <3> QED
      BY <2>2, <3>1, StepKeepsHistory
  <2>3. CASE ReadBlacklist(r)
    <3>1. request[r].pc = "blacklist" /\ CommonNameOf[s] \in blacklist
      BY <1>1, <2>3 DEF ReadBlacklist, Goto, StateOK, Request
    <3>2. ~Permits(Instant(s))
      BY <3>1 DEF Instant, Permits
    <3> QED
      BY <2>2, <3>1, <3>2
  <2>4. CASE ReadCertificate(r)
    <3>1. request[r].pc = "certificate" /\ RowStatus(s) # "issued"
      BY <1>1, <2>4 DEF ReadCertificate, Goto, StateOK, Request
    <3>2. ~Permits(Instant(s))
      BY <3>1 DEF Instant, Permits
    <3> QED
      BY <2>2, <3>1, <3>2
  <2>5. CASE CheckExpiry(r)
    <3>1. request[r].pc = "expiry" /\ now > request[r].expires
      BY <1>1, <2>5 DEF CheckExpiry, Goto, StateOK, Request
    <3>2. now > ExpiresAt[s]
      BY <3>1 DEF CarriesInv
    <3>3. ~Permits(Instant(s))
      BY <3>2 DEF Instant, Permits
    <3> QED
      BY <2>2, <3>1, <3>3
  <2> QED
    BY <1>1, <2>1, <2>3, <2>4, <2>5, StepRefuses
<1>2. ASSUME NEW r \in Requests, request'[r].pc \in {"grant", "warn", "allowed"}
      PROVE  \E o \in seen'[r] : o.row = "issued" /\ ~o.expired
  <2>1. CASE request[r].pc \in {"grant", "warn", "allowed"}
    BY <2>1, StepKeepsHistory DEF VerdictInv
  <2>2. CASE CheckExpiry(r)
    <3>1. request[r].pc = "expiry" /\ request[r].serial \in Serials
      BY <2>2 DEF CheckExpiry, StateOK
    <3>2. ~(now > ExpiresAt[request[r].serial])
      BY <1>2, <2>2, <3>1 DEF CheckExpiry, Goto, StateOK, Request, CarriesInv
    <3>3. PICK o \in seen[r] : o.row = "issued"
      BY <3>1 DEF FoundInv
    <3>4. ~o.expired
      BY <3>1, <3>2 DEF HistoryInv
    <3> QED
      BY <3>3, <3>4, StepKeepsHistory
  <2> QED
    BY <1>2, <2>1, <2>2, StepTests
<1> QED
  BY <1>1, <1>2 DEF VerdictInv

LEMMA FoundHolds == Spec => []FoundInv
<1>1. Init => FoundInv
  BY DEF Init, FoundInv
<1>2. TypeOK /\ HistoryInv /\ FoundInv /\ [Next]_vars => FoundInv'
  BY StepFound DEF TypeOK, FoundInv, vars
<1> QED
  BY <1>1, <1>2, TypeCorrect, HistoryHolds, PTL DEF Spec

LEMMA VerdictHolds == Spec => []VerdictInv
<1>1. Init => VerdictInv
  BY DEF Init, VerdictInv
<1>2. TypeOK /\ HistoryInv /\ RowsInv /\ CarriesInv /\ FoundInv /\ VerdictInv
        /\ [Next]_vars => VerdictInv'
  <2> SUFFICES ASSUME TypeOK, HistoryInv, CarriesInv, FoundInv, VerdictInv,
                      [Next]_vars
               PROVE  VerdictInv'
    OBVIOUS
  <2>1. CASE Next
    BY <2>1, StepVerdict DEF TypeOK
  <2>2. CASE UNCHANGED vars
    BY <2>2 DEF vars, VerdictInv
  <2> QED
    BY <2>1, <2>2
<1> QED
  BY <1>1, <1>2, TypeCorrect, HistoryHolds, CarriesHolds, FoundHolds, PTL DEF Spec

\* If no read fails, no refusal is spurious: at some instant of the call the
\* database did refuse the certificate.
THEOREM DeniedCorrect ==
  ASSUME "read" \notin Faults
  PROVE  Spec => []DeniedAtSomeInstant
<1>1. VerdictInv => DeniedAtSomeInstant
  BY DEF VerdictInv, DeniedAtSomeInstant
<1> QED
  BY <1>1, VerdictHolds, PTL

-----------------------------------------------------------------------------
(* The promise of AccessPolicy.                                            *)

\* The refinement mapping, point by point.
StandingOf(s) == StandingAt(Instant(s))
PhaseOf(r) == IF request[r].pc \in Checking THEN "open" ELSE request[r].pc
HeardBy(r) == {StandingAt(o) : o \in seen[r]}

\* A step moves every certificate forward.
LEMMA StepForward ==
  ASSUME StateOK, StateOK', Next, NEW s \in Serials
  PROVE  StandingOf(s)' \in Policy!Standing
         /\ Policy!Forward(StandingOf(s), StandingOf(s)')
<1>1. RowStatus(s) \in {"none", "issued", "revoked"}
      /\ RowStatus(s)' \in {"none", "issued", "revoked"}
  BY NoRowAssumption DEF StateOK, RowStatus, Row
<1>2. RowStatus(s) # "none" => RowStatus(s)' # "none"
  <2>1. CASE UNCHANGED certificates
    BY <2>1 DEF RowStatus
  <2>2. ASSUME NEW c \in Commands, NEW t \in Serials,
               RecordIssued(c, t) \/ Revoke(c, t)
        PROVE  certificates[s] # NoRow => certificates'[s] # NoRow
    BY <2>2, NoRowAssumption
    DEF RecordIssued, Revoke, InsertCertificate, SetRevoked, StateOK, Row
  <2>3. certificates'[s] # NoRow => RowStatus(s)' # "none"
    BY NoRowAssumption DEF StateOK, RowStatus, Row
  <2> QED
    BY <2>1, <2>2, <2>3
    DEF Next, CheckAuth, Present, ReadBlacklist, ReadCertificate, CheckExpiry,
        LogDenied, LogGranted, Allow, ServerCrash, SetBlacklisted,
        CommonNameForSerial, LogCommand, Kill, Tick, tables, RowStatus
<1>3. RowStatus(s) = "revoked" => RowStatus(s)' = "revoked"
  BY StepMonotone
<1>4. now > ExpiresAt[s] => now' > ExpiresAt[s]
  BY StepMonotone, AccessAssumption
<1>5. /\ StandingOf(s).record = IF now > ExpiresAt[s] \/ RowStatus(s) = "revoked"
                                  THEN "out"
                                  ELSE IF RowStatus(s) = "none" THEN "none"
                                                                ELSE "in force"
      /\ StandingOf(s)'.record = IF now' > ExpiresAt[s] \/ RowStatus(s)' = "revoked"
                                   THEN "out"
                                   ELSE IF RowStatus(s)' = "none" THEN "none"
                                                                  ELSE "in force"
  BY DEF StandingOf, StandingAt, Instant
<1>6. StandingOf(s)' \in Policy!Standing
  BY DEF StandingOf, StandingAt, Instant, Policy!Standing
<1> QED
  BY <1>1, <1>2, <1>3, <1>4, <1>5, <1>6 DEF Policy!Forward

\* A request that is in progress after a step has heard the standing then.
LEMMA StepHears ==
  ASSUME Next, NEW r \in Requests
  PROVE  HeardBy(r)' = HeardBy(r) \cup
           (IF request'[r].pc \in Checking THEN {StandingOf(request[r].serial)'} ELSE {})
<1>1. seen'[r] = seen[r] \cup InstantsOf(r)'
  BY StepObserves DEF Observe
<1> QED
  BY <1>1 DEF HeardBy, InstantsOf, StandingOf

\* A step that leaves the tables and the clock alone says nothing new to a
\* request that was in progress before it.
LEMMA StepQuiet ==
  ASSUME StateOK, HistoryInv, Next, UNCHANGED <<tables, now>>
  PROVE  /\ \A s \in Serials : StandingOf(s)' = StandingOf(s)
         /\ \A r \in Requests : request[r].pc # "idle" => HeardBy(r)' = HeardBy(r)
<1>1. ASSUME NEW s
      PROVE  StandingOf(s)' = StandingOf(s)
  BY DEF StandingOf, StandingAt, Instant, RowStatus, tables
<1>2. ASSUME NEW r \in Requests, request[r].pc # "idle"
      PROVE  HeardBy(r)' = HeardBy(r)
  <2>1. CASE request'[r].pc \in Checking
    <3>1. request[r].pc \in Checking /\ request'[r].serial = request[r].serial
      BY <1>2, <2>1, StepRequests
    <3>2. StandingOf(request[r].serial) \in HeardBy(r)
      BY <3>1 DEF HistoryInv, HeardBy, StandingOf
    <3>3. StandingOf(request[r].serial)' = StandingOf(request[r].serial)
      BY <3>1 DEF StandingOf, StandingAt, Instant, RowStatus, tables
    <3> QED
      BY <2>1, <3>2, <3>3, StepHears
  <2>2. CASE request'[r].pc \notin Checking
    BY <2>2, StepHears
  <2> QED
    BY <2>1, <2>2
<1> QED
  BY <1>1, <1>2

\* The verdicts the promise allows are the ones CheckAuth reaches.
LEMMA AllowedHeard ==
  ASSUME TypeOK, PassedInv, VerdictInv, NEW r \in Requests, request[r].pc = "warn"
  PROVE  Policy!MayAllow(HeardBy(r))
<1>1. PICK q \in seen[r] : q.row = "issued" /\ ~q.expired
  BY DEF VerdictInv
<1>2. q \in Instants /\ StandingAt(q) \in HeardBy(r)
  BY DEF HeardBy, TypeOK
<1>3. StandingAt(q) \in {[record |-> "in force", barred |-> TRUE],
                        [record |-> "in force", barred |-> FALSE]}
  BY <1>1, <1>2 DEF StandingAt, Instants
<1>4. CASE "read" \in Faults
  BY <1>2, <1>3, <1>4 DEF Policy!MayAllow
<1>5. CASE "read" \notin Faults
  <2>1. PICK o \in seen[r] : ~o.barred /\ o.row # "revoked" /\ ~o.expired
    BY <1>5 DEF PassedInv
  <2>2. o \in Instants /\ StandingAt(o) \in HeardBy(r)
    BY DEF HeardBy, TypeOK
  <2>3. StandingAt(o) \in {[record |-> "none", barred |-> FALSE],
                          [record |-> "in force", barred |-> FALSE]}
    BY <2>1, <2>2 DEF StandingAt, Instants
  <2> QED
    BY <1>2, <1>3, <2>2, <2>3 DEF Policy!MayAllow
<1> QED
  BY <1>4, <1>5

LEMMA DeniedHeard ==
  ASSUME TypeOK, VerdictInv, NEW r \in Requests, request[r].pc = "deny"
  PROVE  Policy!MayDeny(HeardBy(r))
<1>1. CASE "read" \in Faults
  BY <1>1 DEF Policy!MayDeny
<1>2. CASE "read" \notin Faults
  <2>1. PICK o \in seen[r] : ~Permits(o)
    BY <1>2 DEF VerdictInv
  <2>2. o \in Instants
    BY DEF TypeOK
  <2>3. StandingAt(o).barred \/ StandingAt(o).record # "in force"
    BY <2>1, <2>2 DEF StandingAt, Instants, Permits
  <2> QED
    BY <2>3 DEF Policy!MayDeny, HeardBy
<1> QED
  BY <1>1, <1>2

\* The refinement mapping as functions.
standingNow == [s \in Serials |-> StandingAt(Instant(s))]
phaseNow ==
  [r \in Requests |-> IF request[r].pc \in Checking THEN "open" ELSE request[r].pc]
subjectNow == [r \in Requests |-> request[r].serial]
heardNow == [r \in Requests |-> {StandingAt(o) : o \in seen[r]}]

LEMMA Mapped ==
  /\ \A s \in Serials : standingNow[s] = StandingOf(s)
  /\ \A s \in Serials : standingNow'[s] = StandingOf(s)'
  /\ \A r \in Requests :
       /\ phaseNow[r] = PhaseOf(r) /\ phaseNow'[r] = PhaseOf(r)'
       /\ subjectNow[r] = request[r].serial
       /\ subjectNow'[r] = request'[r].serial
       /\ heardNow[r] = HeardBy(r) /\ heardNow'[r] = HeardBy(r)'
BY DEF standingNow, phaseNow, subjectNow, heardNow, StandingOf, PhaseOf, HeardBy

\* A function that is equal at every point is equal.
LEMMA SameMap ==
  /\ (\A s \in Serials : StandingOf(s)' = StandingOf(s)) => standingNow' = standingNow
  /\ (\A r \in Requests : PhaseOf(r)' = PhaseOf(r)) => phaseNow' = phaseNow
  /\ (\A r \in Requests : request'[r].serial = request[r].serial)
       => subjectNow' = subjectNow
  /\ (\A r \in Requests : HeardBy(r)' = HeardBy(r)) => heardNow' = heardNow
BY DEF standingNow, phaseNow, subjectNow, heardNow, StandingOf, PhaseOf, HeardBy

\* The actions of the promise, in terms of the mapping.
LEMMA ChangeMapped ==
  ASSUME standingNow' \in [Serials -> Policy!Standing],
         \A s \in Serials : Policy!Forward(standingNow[s], standingNow'[s]),
         heardNow' = [r \in Requests |-> IF phaseNow[r] = "open"
                        THEN heardNow[r] \cup {standingNow'[subjectNow[r]]}
                        ELSE heardNow[r]],
         UNCHANGED <<phaseNow, subjectNow>>
  PROVE  Policy!Change
BY DEF Policy!Change, standingNow, phaseNow, subjectNow, heardNow

LEMMA OpenMapped ==
  ASSUME NEW r \in Requests, NEW s \in Serials, phaseNow[r] = "idle",
         phaseNow' = [phaseNow EXCEPT ![r] = "open"],
         subjectNow' = [subjectNow EXCEPT ![r] = s],
         heardNow' = [heardNow EXCEPT ![r] = {standingNow[s]}],
         UNCHANGED standingNow
  PROVE  Policy!Open(r, s)
BY DEF Policy!Open, standingNow, phaseNow, subjectNow, heardNow

LEMMA AnswerMapped ==
  ASSUME NEW r \in Requests, NEW verdict, phaseNow[r] = "open",
         IF verdict = "allowed" THEN Policy!MayAllow(heardNow[r])
                                ELSE Policy!MayDeny(heardNow[r]),
         phaseNow' = [phaseNow EXCEPT ![r] = verdict],
         UNCHANGED <<standingNow, subjectNow, heardNow>>
  PROVE  Policy!Answer(r, verdict)
BY DEF Policy!Answer, standingNow, phaseNow, subjectNow, heardNow

LEMMA DropMapped ==
  ASSUME \E r \in Requests : phaseNow[r] = "open",
         phaseNow' = [r \in Requests |->
           IF phaseNow[r] = "open" THEN "dropped" ELSE phaseNow[r]],
         UNCHANGED <<standingNow, subjectNow, heardNow>>
  PROVE  Policy!Drop
BY DEF Policy!Drop, standingNow, phaseNow, subjectNow, heardNow

LEMMA StutterMapped ==
  ASSUME UNCHANGED <<standingNow, phaseNow, subjectNow, heardNow>>
  PROVE  UNCHANGED Policy!vars
BY DEF Policy!vars, standingNow, phaseNow, subjectNow, heardNow

\* A step that neither changes the fleet nor opens a request.
LEMMA QuietMapped ==
  ASSUME StateOK, HistoryInv, Next, UNCHANGED <<tables, now>>,
         \A r \in Requests : request[r].pc = "idle" => request'[r].pc = "idle"
  PROVE  UNCHANGED <<standingNow, heardNow>>
<1>1. ASSUME NEW r \in Requests PROVE HeardBy(r)' = HeardBy(r)
  <2>1. CASE request[r].pc = "idle"
    BY <2>1, StepHears DEF HistoryInv
  <2>2. CASE request[r].pc # "idle"
    BY <2>2, StepQuiet
  <2> QED
    BY <2>1, <2>2
<1> QED
  BY <1>1, StepQuiet, SameMap

LEMMA PresentMapped ==
  ASSUME StateOK, HistoryInv, Next, NEW r \in Requests, NEW s \in Serials, Present(r, s)
  PROVE  Policy!Open(r, s)
<1>1. /\ request[r].pc = "idle" /\ UNCHANGED <<tables, now>>
      /\ request'[r].pc = "blacklist" /\ request'[r].serial = s
      /\ \A q \in Requests \ {r} : request'[q] = request[q]
  BY DEF Present, StateOK, Request
<1>2. phaseNow[r] = "idle"
  BY <1>1, Mapped DEF PhaseOf
<1>3. phaseNow' = [phaseNow EXCEPT ![r] = "open"]
  BY <1>1 DEF phaseNow
<1>4. subjectNow' = [subjectNow EXCEPT ![r] = s]
  BY <1>1 DEF subjectNow
<1>5. \A t \in Serials : StandingOf(t)' = StandingOf(t)
  BY <1>1, StepQuiet
<1>6. heardNow' = [heardNow EXCEPT ![r] = {standingNow[s]}]
  <2>1. HeardBy(r)' = {standingNow[s]}
    <3>1. HeardBy(r) = {}
      BY <1>1 DEF HistoryInv, HeardBy
    <3>2. StandingOf(request[r].serial)' = StandingOf(s)'
      BY <1>1 DEF StandingOf, StandingAt, Instant
    <3> QED
      BY <1>1, <1>5, <3>1, <3>2, StepHears, Mapped
  <2>2. ASSUME NEW q \in Requests \ {r} PROVE HeardBy(q)' = HeardBy(q)
    <3>1. CASE request[q].pc = "idle"
      BY <1>1, <3>1, StepHears
    <3>2. CASE request[q].pc # "idle"
      BY <1>1, <3>2, StepQuiet
    <3> QED
      BY <3>1, <3>2
  <2> QED
    BY <2>1, <2>2 DEF heardNow, HeardBy
<1>7. UNCHANGED standingNow
  BY <1>5, SameMap
<1> QED
  BY <1>2, <1>3, <1>4, <1>6, <1>7, OpenMapped

LEMMA CheckAuthMapped ==
  ASSUME TypeOK, HistoryInv, PassedInv, VerdictInv, Next, NEW r \in Requests,
         CheckAuth(r)
  PROVE  \/ Policy!Answer(r, "allowed") \/ Policy!Answer(r, "denied")
         \/ UNCHANGED Policy!vars
<1> USE DEF TypeOK
<1>1. /\ request[r].pc \in Checking /\ UNCHANGED <<tables, now>>
      /\ request'[r].serial = request[r].serial
      /\ \A q \in Requests \ {r} : request'[q] = request[q]
      /\ \/ request'[r].pc \in Checking
         \/ request[r].pc = "warn" /\ request'[r].pc = "allowed"
         \/ request[r].pc = "deny" /\ request'[r].pc = "denied"
  BY CheckAuthMoves
<1>2. UNCHANGED <<standingNow, heardNow>>
  BY <1>1, QuietMapped
<1>3. UNCHANGED subjectNow
  BY <1>1, SameMap
<1>4. phaseNow[r] = "open" /\ heardNow[r] = HeardBy(r)
  BY <1>1, Mapped DEF PhaseOf
<1>5. CASE request'[r].pc \in Checking
  <2>1. UNCHANGED phaseNow
    BY <1>1, <1>5, SameMap DEF PhaseOf
  <2> QED
    BY <1>2, <1>3, <2>1, StutterMapped
<1>6. CASE request[r].pc = "warn" /\ request'[r].pc = "allowed"
  <2>1. phaseNow' = [phaseNow EXCEPT ![r] = "allowed"]
    BY <1>1, <1>6 DEF phaseNow
  <2>2. Policy!MayAllow(heardNow[r])
    BY <1>4, <1>6, AllowedHeard
  <2> QED
    BY <1>2, <1>3, <1>4, <2>1, <2>2, AnswerMapped
<1>7. CASE request[r].pc = "deny" /\ request'[r].pc = "denied"
  <2>1. phaseNow' = [phaseNow EXCEPT ![r] = "denied"]
    BY <1>1, <1>7 DEF phaseNow
  <2>2. Policy!MayDeny(heardNow[r])
    BY <1>4, <1>7, DeniedHeard
  <2> QED
    BY <1>2, <1>3, <1>4, <2>1, <2>2, AnswerMapped
<1> QED
  BY <1>1, <1>5, <1>6, <1>7

LEMMA ServerCrashMapped ==
  ASSUME StateOK, HistoryInv, Next, ServerCrash
  PROVE  Policy!Drop
<1>1. \A r \in Requests : request'[r] =
        IF request[r].pc \in Checking THEN [request[r] EXCEPT !.pc = "dropped"]
                                      ELSE request[r]
  BY DEF ServerCrash
<1>2. \A r \in Requests :
        /\ request'[r].pc = IF request[r].pc \in Checking THEN "dropped"
                                                          ELSE request[r].pc
        /\ request'[r].serial = request[r].serial
  BY <1>1 DEF StateOK, Request
<1>3. UNCHANGED <<standingNow, heardNow>>
  BY <1>2, QuietMapped DEF ServerCrash
<1>4. UNCHANGED subjectNow
  BY <1>2, SameMap
<1>5. phaseNow' = [r \in Requests |->
        IF phaseNow[r] = "open" THEN "dropped" ELSE phaseNow[r]]
  <2>1. \A r \in Requests : PhaseOf(r)' =
          IF PhaseOf(r) = "open" THEN "dropped" ELSE PhaseOf(r)
    BY <1>2 DEF PhaseOf, StateOK, Request
  <2> QED
    BY <2>1 DEF phaseNow, PhaseOf
<1>6. \E r \in Requests : phaseNow[r] = "open"
  BY Mapped DEF ServerCrash, PhaseOf
<1> QED
  BY <1>3, <1>4, <1>5, <1>6, DropMapped

\* The other processes and the clock, whether or not they change a standing.
LEMMA FleetMapped ==
  ASSUME StateOK, StateOK', HistoryInv, Next, UNCHANGED request
  PROVE  Policy!Change
<1>1. UNCHANGED <<phaseNow, subjectNow>>
  BY DEF phaseNow, subjectNow
<1>2. /\ standingNow' \in [Serials -> Policy!Standing]
      /\ \A s \in Serials : Policy!Forward(standingNow[s], standingNow'[s])
  <2>1. \A s \in Serials : StandingOf(s)' \in Policy!Standing
          /\ Policy!Forward(StandingOf(s), StandingOf(s)')
    BY StepForward
  <2> QED
    BY <2>1, Mapped DEF standingNow, StandingOf
<1>3. \A r \in Requests : HeardBy(r)' =
        IF phaseNow[r] = "open" THEN HeardBy(r) \cup {standingNow'[subjectNow[r]]}
                                ELSE HeardBy(r)
  <2> SUFFICES ASSUME NEW r \in Requests
               PROVE  HeardBy(r)' = IF phaseNow[r] = "open"
                        THEN HeardBy(r) \cup {standingNow'[subjectNow[r]]}
                        ELSE HeardBy(r)
    OBVIOUS
  <2>1. CASE request[r].pc \in Checking
    <3>1. request[r].serial \in Serials /\ phaseNow[r] = "open"
      BY <2>1, Mapped DEF StateOK, PhaseOf
    <3>2. standingNow'[subjectNow[r]] = StandingOf(request[r].serial)'
      BY <3>1, Mapped DEF StandingOf, StandingAt, Instant
    <3> QED
      BY <2>1, <3>1, <3>2, StepHears
  <2>2. CASE request[r].pc \notin Checking
    <3>1. phaseNow[r] # "open"
      BY <2>2, Mapped DEF PhaseOf, StateOK, Request
    <3> QED
      BY <2>2, <3>1, StepHears
  <2> QED
    BY <2>1, <2>2
<1>4. heardNow' = [r \in Requests |-> IF phaseNow[r] = "open"
        THEN heardNow[r] \cup {standingNow'[subjectNow[r]]} ELSE heardNow[r]]
  BY <1>3, Mapped DEF heardNow, HeardBy
<1> QED
  BY <1>1, <1>2, <1>4, ChangeMapped

LEMMA InitMapped == Init => Policy!Init
<1> SUFFICES ASSUME Init PROVE Policy!Init
  OBVIOUS
<1>1. standingNow \in [Serials -> Policy!Standing]
  BY DEF standingNow, StandingAt, Instant, Policy!Standing
<1>2. /\ phaseNow = [r \in Requests |-> "idle"]
      /\ subjectNow = [r \in Requests |-> Blank]
      /\ heardNow = [r \in Requests |-> {}]
  BY DEF Init, phaseNow, subjectNow, heardNow
<1> QED
  BY <1>1, <1>2 DEF Policy!Init, standingNow, phaseNow, subjectNow, heardNow

LEMMA NextMapped ==
  ASSUME TypeOK, TypeOK', HistoryInv, PassedInv, VerdictInv, [Next]_vars
  PROVE  [Policy!Next]_(Policy!vars)
<1>1. CASE UNCHANGED vars
  <2>1. UNCHANGED <<standingNow, phaseNow, subjectNow, heardNow>>
    BY <1>1 DEF vars, standingNow, phaseNow, subjectNow, heardNow, StandingAt,
                Instant, RowStatus
  <2> QED
    BY <2>1, StutterMapped
<1>2. CASE Next
  <2>1. ASSUME NEW r \in Requests, NEW s \in Serials, Present(r, s)
        PROVE  Policy!Next
    BY <1>2, <2>1, PresentMapped DEF TypeOK, Policy!Next
  <2>2. ASSUME NEW r \in Requests, CheckAuth(r)
        PROVE  [Policy!Next]_(Policy!vars)
    BY <1>2, <2>2, CheckAuthMapped DEF Policy!Next
  <2>3. CASE ServerCrash
    BY <1>2, <2>3, ServerCrashMapped DEF TypeOK, Policy!Next
  <2>4. CASE UNCHANGED request
    BY <1>2, <2>4, FleetMapped DEF TypeOK, Policy!Next
  <2> QED
    BY <1>2, <2>1, <2>2, <2>3, <2>4
    DEF Next, RecordIssued, Revoke, SetBlacklisted, CommonNameForSerial,
        LogCommand, Kill, Tick
<1> QED
  BY <1>1, <1>2

\* CheckAuth among all the other processes implements AccessPolicy, whichever
\* statements fail: one answer per request, justified by the standings of its
\* certificate during the call, and no certificate ever moved back.  Where reads
\* fail a yes has still met an instant at which the certificate was in force.
THEOREM PolicyImplemented == Spec => ImplementsPolicy
<1>1. TypeOK /\ TypeOK' /\ HistoryInv /\ PassedInv /\ VerdictInv /\ [Next]_vars
        => [Policy!Next]_(Policy!vars)
  BY NextMapped
<1> QED
  BY <1>1, InitMapped, TypeCorrect, HistoryHolds, PassedHolds, VerdictHolds, PTL
  DEF Spec, ImplementsPolicy, Policy!Spec

-----------------------------------------------------------------------------
(* The event log.                                                          *)

\* The event that a request writes about its certificate.
Writes(type, r) == LogEvent(type, r, request[r].serial, CommonNameOf[request[r].serial])

\* No step removes an event, and each adds at most one: of the request or of
\* the process that takes it.
LEMMA StepEvents ==
  ASSUME StateOK, Next
  PROVE  \/ UNCHANGED events
         \/ \E r \in Requests :
              \/ LogDenied(r) /\ Writes("auth_denied", r)
              \/ LogGranted(r) /\ Writes("auth_success", r)
              \/ Allow(r) /\ Writes("expiry_warning", r)
         \/ \E c \in Commands : /\ LogCommand(c)
              /\ LogEvent(command[c].op, c, command[c].serial, command[c].cn)
<1>1. ASSUME NEW r \in Requests, CheckAuth(r)
      PROVE  \/ UNCHANGED events
             \/ LogDenied(r) /\ Writes("auth_denied", r)
             \/ LogGranted(r) /\ Writes("auth_success", r)
             \/ Allow(r) /\ Writes("expiry_warning", r)
  BY <1>1 DEF CheckAuth, ReadBlacklist, ReadCertificate, CheckExpiry, LogDenied,
              LogGranted, Allow, TryLog, Writes
<1>2. ASSUME NEW c \in Commands, LogCommand(c)
      PROVE  \/ UNCHANGED events
             \/ LogEvent(command[c].op, c, command[c].serial, command[c].cn)
  BY <1>2 DEF LogCommand
<1>3. ASSUME NEW r \in Requests, NEW s \in Serials, Present(r, s)
      PROVE  UNCHANGED events
  BY <1>3 DEF Present
<1>4. ASSUME NEW c \in Commands, NEW s \in Serials, RecordIssued(c, s) \/ Revoke(c, s)
      PROVE  UNCHANGED events
  BY <1>4 DEF RecordIssued, Revoke
<1>5. ASSUME NEW c \in Commands, NEW n \in Names, NEW listed \in BOOLEAN,
             SetBlacklisted(c, n, listed)
      PROVE  UNCHANGED events
  BY <1>5 DEF SetBlacklisted
<1>6. ASSUME NEW c \in Commands, CommonNameForSerial(c) \/ Kill(c)
      PROVE  UNCHANGED events
  BY <1>6 DEF CommonNameForSerial, Kill
<1>7. ASSUME ServerCrash \/ Tick
      PROVE  UNCHANGED events
  BY <1>7 DEF ServerCrash, Tick
<1> QED
  BY <1>1, <1>2, <1>3, <1>4, <1>5, <1>6, <1>7 DEF Next

\* What a new event says about whom.
LEMMA NewEvent ==
  ASSUME NEW type, NEW by, NEW s, NEW n, LogEvent(type, by, s, n)
  PROVE  /\ events \subseteq events'
         /\ \A p, t : (\E e \in events' : e.by = p /\ e.type = t)
                      <=> (\E e \in events : e.by = p /\ e.type = t)
                          \/ (p = by /\ t = type)
<1> DEFINE new == [type |-> type, by |-> by, serial |-> s, cn |-> n]
<1>1. new.by = by /\ new.type = type
  OBVIOUS
<1>2. events' = events \cup {new}
  BY DEF LogEvent
<1> HIDE DEF new
<1> QED
  BY <1>1, <1>2

LEMMA StepKeepsEvents ==
  ASSUME StateOK, Next
  PROVE  events \subseteq events'
BY StepEvents DEF Writes, LogEvent

\* What a process claims it has done, and the event it has left once it has
\* reported success.
AcknowledgedInv ==
  \A c \in Commands :
    /\ command[c].pc = "ok" => LoggedBy(c, command[c].op)
    /\ command[c].pc \in {"name", "log", "ok"} /\ command[c].op = "revoked" =>
         command[c].serial \in Serials /\ RowStatus(command[c].serial) = "revoked"

LEMMA StepCommands ==
  ASSUME StateOK, Next, NEW c \in Commands
  PROVE  \/ command'[c] = command[c]
         \/ command'[c].pc \in {"failed", "killed"}
         \/ command'[c].pc = "log" /\ command'[c].op # "revoked"
         \/ \E s \in Serials : Revoke(c, s) /\ SetRevoked(s) /\ command'[c].serial = s
              /\ command'[c].pc = "name"
         \/ /\ command'[c].op = command[c].op /\ command'[c].serial = command[c].serial
            /\ \/ command[c].pc = "name" /\ command'[c].pc = "log"
               \/ command[c].pc = "log" /\ command'[c].pc = "ok"
                  /\ LogEvent(command[c].op, c, command[c].serial, command[c].cn)
<1> DEFINE Goal ==
         \/ command'[c] = command[c]
         \/ command'[c].pc \in {"failed", "killed"}
         \/ command'[c].pc = "log" /\ command'[c].op # "revoked"
         \/ \E s \in Serials : Revoke(c, s) /\ SetRevoked(s) /\ command'[c].serial = s
              /\ command'[c].pc = "name"
         \/ /\ command'[c].op = command[c].op /\ command'[c].serial = command[c].serial
            /\ \/ command[c].pc = "name" /\ command'[c].pc = "log"
               \/ command[c].pc = "log" /\ command'[c].pc = "ok"
                  /\ LogEvent(command[c].op, c, command[c].serial, command[c].cn)
<1>1. CASE UNCHANGED command
  BY <1>1
<1>2. ASSUME NEW d \in Commands, NEW pc, command' = [command EXCEPT ![d].pc = pc]
      PROVE  /\ d # c => command'[c] = command[c]
             /\ command'[d].pc = pc /\ command'[d].op = command[d].op
             /\ command'[d].serial = command[d].serial
  BY <1>2 DEF StateOK, Command
<1>3. ASSUME NEW d \in Commands, NEW pc, NEW op, NEW s, NEW n, Committed(d, pc, op, s, n)
      PROVE  /\ d # c => command'[c] = command[c]
             /\ command'[d].pc = pc
             /\ command'[d].op = op /\ command'[d].serial = s
  BY <1>3 DEF Committed, StateOK
<1>4. ASSUME NEW d \in Commands, NEW s \in Serials, RecordIssued(d, s)
      PROVE  Goal
  BY <1>2, <1>3, <1>4 DEF RecordIssued, Fail
<1>5. ASSUME NEW d \in Commands, NEW s \in Serials, Revoke(d, s)
      PROVE  Goal
  BY <1>2, <1>3, <1>5 DEF Revoke, Fail
<1>6. ASSUME NEW d \in Commands, NEW n \in Names, NEW listed \in BOOLEAN,
             SetBlacklisted(d, n, listed)
      PROVE  Goal
  BY <1>2, <1>3, <1>6 DEF SetBlacklisted, Fail
<1>7. ASSUME NEW d \in Commands, CommonNameForSerial(d)
      PROVE  Goal
  BY <1>3, <1>7 DEF CommonNameForSerial
<1>8. ASSUME NEW d \in Commands, LogCommand(d)
      PROVE  Goal
  BY <1>2, <1>8 DEF LogCommand, Fail
<1>9. ASSUME NEW d \in Commands, Kill(d)
      PROVE  Goal
  BY <1>2, <1>9 DEF Kill
<1>10. ASSUME NEW r \in Requests, NEW s \in Serials, Present(r, s)
       PROVE  Goal
  BY <1>1, <1>10 DEF Present
<1>11. ASSUME NEW r \in Requests, CheckAuth(r)
       PROVE  Goal
  BY <1>1, <1>11 DEF CheckAuth, ReadBlacklist, ReadCertificate, CheckExpiry, LogDenied,
               LogGranted, Allow
<1>12. ASSUME ServerCrash \/ Tick
       PROVE  Goal
  BY <1>1, <1>12 DEF ServerCrash, Tick
<1> HIDE DEF Goal
<1>13. Goal
  BY <1>1, <1>4, <1>5, <1>6, <1>7, <1>8, <1>9, <1>10, <1>11, <1>12 DEF Next
<1> QED
  BY <1>13 DEF Goal

LEMMA StepAcknowledged ==
  ASSUME StateOK, AcknowledgedInv, Next
  PROVE  AcknowledgedInv'
<1> SUFFICES ASSUME NEW c \in Commands
             PROVE  /\ command'[c].pc = "ok" => LoggedBy(c, command[c].op)'
                    /\ command'[c].pc \in {"name", "log", "ok"}
                       /\ command'[c].op = "revoked" =>
                         /\ command'[c].serial \in Serials
                         /\ RowStatus(command[c].serial)' = "revoked"
  BY DEF AcknowledgedInv
<1>1. ASSUME command'[c].pc = "ok"
      PROVE  LoggedBy(c, command[c].op)'
  <2>1. CASE command'[c] = command[c]
    BY <1>1, <2>1, StepKeepsEvents DEF AcknowledgedInv, LoggedBy
  <2>2. CASE /\ command'[c].op = command[c].op
             /\ LogEvent(command[c].op, c, command[c].serial, command[c].cn)
    BY <2>2, NewEvent DEF LoggedBy
  <2> QED
    BY <1>1, <2>1, <2>2, StepCommands
<1>2. ASSUME command'[c].pc \in {"name", "log", "ok"}, command'[c].op = "revoked"
      PROVE  command'[c].serial \in Serials /\ RowStatus(command[c].serial)' = "revoked"
  <2>1. CASE /\ command[c].pc \in {"name", "log", "ok"} /\ command[c].op = "revoked"
             /\ command'[c].serial = command[c].serial
    <3>1. command[c].serial \in Serials /\ RowStatus(command[c].serial) = "revoked"
      BY <2>1 DEF AcknowledgedInv
    <3>2. \A s \in Serials : RowStatus(s) = "revoked" => RowStatus(s)' = "revoked"
      BY StepMonotone
    <3> QED
      BY <2>1, <3>1, <3>2 DEF RowStatus
  <2>2. ASSUME NEW s \in Serials, SetRevoked(s), command'[c].serial = s
        PROVE  RowStatus(command[c].serial)' = "revoked"
    BY <2>2, NoRowAssumption DEF SetRevoked, RowStatus, StateOK, Row
  <2> QED
    BY <1>2, <2>1, <2>2, StepCommands
<1> QED
  BY <1>1, <1>2

\* A command that reported success has left its event, and a revocation it
\* reported is still in force, whatever fails and whoever is killed.
THEOREM AcknowledgedLogged == Spec => []AcknowledgedIsLogged
<1>1. Init => AcknowledgedInv
  BY DEF Init, AcknowledgedInv
<1>2. TypeOK /\ AcknowledgedInv /\ [Next]_vars => AcknowledgedInv'
  <2> SUFFICES ASSUME TypeOK, AcknowledgedInv, [Next]_vars PROVE AcknowledgedInv'
    OBVIOUS
  <2>1. CASE Next
    BY <2>1, StepAcknowledged DEF TypeOK
  <2>2. CASE UNCHANGED vars
    BY <2>2 DEF vars, AcknowledgedInv, LoggedBy, RowStatus
  <2> QED
    BY <2>1, <2>2
<1>3. AcknowledgedInv => AcknowledgedIsLogged
  BY DEF AcknowledgedInv, AcknowledgedIsLogged
<1> QED
  BY <1>1, <1>2, <1>3, TypeCorrect, PTL DEF Spec

\* Which outcome is in the log, seen from the request and from the log.
AttemptInv ==
  \A r \in Requests :
    /\ request[r].pc \in {"warn", "allowed"} => LoggedBy(r, "auth_success")
    /\ request[r].pc = "denied" => LoggedBy(r, "auth_denied")
    /\ LoggedBy(r, "auth_success") => request[r].pc \in {"warn", "allowed", "dropped"}
    /\ LoggedBy(r, "auth_denied") => request[r].pc = "denied"

\* An outcome comes into the log by the step of its request only.
LEMMA StepLogs ==
  ASSUME StateOK, Next, NEW r \in Requests,
         NEW type \in {"auth_success", "auth_denied", "expiry_warning"},
         LoggedBy(r, type)'
  PROVE  \/ LoggedBy(r, type)
         \/ type = "auth_denied" /\ LogDenied(r)
         \/ type = "auth_success" /\ LogGranted(r)
         \/ type = "expiry_warning" /\ Allow(r)
<1>1. CASE UNCHANGED events
  BY <1>1 DEF LoggedBy
<1>2. ASSUME NEW q \in Requests, NEW t, Writes(t, q)
      PROVE  LoggedBy(r, type) \/ (q = r /\ t = type)
  BY <1>2, NewEvent DEF LoggedBy, Writes
<1>3. ASSUME NEW c \in Commands,
             LogEvent(command[c].op, c, command[c].serial, command[c].cn)
      PROVE  LoggedBy(r, type)
  <2>1. c # r
    BY AccessAssumption
  <2> QED
    BY <1>3, <2>1, NewEvent DEF LoggedBy
<1> QED
  BY <1>1, <1>2, <1>3, StepEvents

LEMMA StepAttempt ==
  ASSUME "write" \notin Faults, StateOK, AttemptInv, Next
  PROVE  AttemptInv'
<1> SUFFICES ASSUME NEW r \in Requests
             PROVE  /\ request'[r].pc \in {"warn", "allowed"} =>
                         LoggedBy(r, "auth_success")'
                    /\ request'[r].pc = "denied" => LoggedBy(r, "auth_denied")'
                    /\ LoggedBy(r, "auth_success")' =>
                         request'[r].pc \in {"warn", "allowed", "dropped"}
                    /\ LoggedBy(r, "auth_denied")' => request'[r].pc = "denied"
  BY DEF AttemptInv
<1>1. \A t : LoggedBy(r, t) => LoggedBy(r, t)'
  BY StepKeepsEvents DEF LoggedBy
<1>2. LogGranted(r) => LoggedBy(r, "auth_success")'
  BY NewEvent DEF LogGranted, TryLog, LoggedBy
<1>3. LogDenied(r) => LoggedBy(r, "auth_denied")'
  BY NewEvent DEF LogDenied, TryLog, LoggedBy
<1>4. LogGranted(r) \/ LogDenied(r) \/ Allow(r) => CheckAuth(r)
  BY DEF CheckAuth
<1>5. LogGranted(r) => request[r].pc = "grant"
  BY DEF LogGranted
<1>6. LogDenied(r) => request[r].pc = "deny"
  BY DEF LogDenied
<1>7. ASSUME request'[r].pc \in {"warn", "allowed"} PROVE LoggedBy(r, "auth_success")'
  BY <1>1, <1>2, <1>7, StepOf, CheckAuthAt DEF AttemptInv
<1>8. ASSUME request'[r].pc = "denied" PROVE LoggedBy(r, "auth_denied")'
  BY <1>1, <1>3, <1>8, StepOf, CheckAuthAt DEF AttemptInv
<1>9. ASSUME LoggedBy(r, "auth_success")'
      PROVE  request'[r].pc \in {"warn", "allowed", "dropped"}
  <2>1. CASE LogGranted(r)
    BY <1>4, <1>5, <2>1, CheckAuthAt
  <2>2. CASE LoggedBy(r, "auth_success")
    BY <2>2, StepOf, CheckAuthAt DEF AttemptInv
  <2> QED
    BY <1>9, <2>1, <2>2, StepLogs
<1>10. ASSUME LoggedBy(r, "auth_denied")' PROVE request'[r].pc = "denied"
  <2>1. CASE LogDenied(r)
    BY <1>4, <1>6, <2>1, CheckAuthAt
  <2>2. CASE LoggedBy(r, "auth_denied")
    BY <2>2, StepOf, CheckAuthAt DEF AttemptInv
  <2> QED
    BY <1>10, <2>1, <2>2, StepLogs
<1> QED
  BY <1>7, <1>8, <1>9, <1>10

\* If writes do not fail, every answered attempt is in the log under the outcome
\* the device was given, and under no other.
THEOREM AttemptLogged ==
  ASSUME "write" \notin Faults
  PROVE  Spec => []AttemptIsLogged
<1>1. Init => AttemptInv
  BY DEF Init, AttemptInv, LoggedBy
<1>2. TypeOK /\ AttemptInv /\ [Next]_vars => AttemptInv'
  <2> SUFFICES ASSUME TypeOK, AttemptInv, [Next]_vars PROVE AttemptInv'
    OBVIOUS
  <2>1. CASE Next
    BY <2>1, StepAttempt DEF TypeOK
  <2>2. CASE UNCHANGED vars
    BY <2>2 DEF vars, AttemptInv, LoggedBy
  <2> QED
    BY <2>1, <2>2
<1>3. AttemptInv => AttemptIsLogged
  BY DEF AttemptInv, AttemptIsLogged
<1> QED
  BY <1>1, <1>2, <1>3, TypeCorrect, PTL DEF Spec

\* An allowed request has flagged its certificate unless some instant of it was
\* outside the window.
ClosingInv ==
  \A r \in Requests :
    request[r].pc = "allowed" /\ (\A o \in seen[r] : o.closing) =>
      LoggedBy(r, "expiry_warning")

LEMMA StepClosing ==
  ASSUME "write" \notin Faults, StateOK, HistoryInv, CarriesInv, ClosingInv, Next
  PROVE  ClosingInv'
<1> SUFFICES ASSUME NEW r \in Requests, request'[r].pc = "allowed",
                    \A o \in seen'[r] : o.closing
             PROVE  LoggedBy(r, "expiry_warning")'
  BY DEF ClosingInv
<1>1. CASE request'[r] = request[r]
  <2>1. LoggedBy(r, "expiry_warning")
    BY <1>1, StepKeepsHistory DEF ClosingInv
  <2> QED
    BY <2>1, StepKeepsEvents DEF LoggedBy
<1>2. CASE Allow(r)
  <2>1. request[r].pc = "warn" /\ Instant(request[r].serial) \in seen[r]
    BY <1>2 DEF Allow, HistoryInv
  <2>2. now + WarnWindow > request[r].expires
    BY <2>1, StepKeepsHistory DEF CarriesInv, Instant
  <2> QED
    BY <1>2, <2>2, NewEvent DEF Allow, TryLog, LoggedBy
<1> QED
  BY <1>1, <1>2, StepOf, CheckAuthAt

\* If writes do not fail, an accepted certificate that was within the warning
\* window during the whole request leaves an expiry warning.
THEOREM ClosingFlagged ==
  ASSUME "write" \notin Faults
  PROVE  Spec => []ClosingIsFlagged
<1>1. Init => ClosingInv
  BY DEF Init, ClosingInv
<1>2. TypeOK /\ HistoryInv /\ RowsInv /\ CarriesInv /\ ClosingInv /\ [Next]_vars
        => ClosingInv'
  <2> SUFFICES ASSUME TypeOK, HistoryInv, CarriesInv, ClosingInv, [Next]_vars
               PROVE  ClosingInv'
    OBVIOUS
  <2>1. CASE Next
    BY <2>1, StepClosing DEF TypeOK
  <2>2. CASE UNCHANGED vars
    BY <2>2 DEF vars, ClosingInv, LoggedBy
  <2> QED
    BY <2>1, <2>2
<1>3. ClosingInv => ClosingIsFlagged
  BY DEF ClosingInv, ClosingIsFlagged
<1> QED
  BY <1>1, <1>2, <1>3, TypeCorrect, HistoryHolds, CarriesHolds, PTL DEF Spec

-----------------------------------------------------------------------------
(* Every request is answered.                                              *)

At(r, pc) == request[r].pc = pc
Ended(r) == request[r].pc \in Answers \cup {"dropped"}

\* Where a statement of CheckAuth takes its request.
LEMMA CheckAuthLeads ==
  ASSUME StateOK, NEW r \in Requests, CheckAuth(r)
  PROVE  /\ At(r, "blacklist") => At(r, "certificate")' \/ At(r, "deny")'
         /\ At(r, "certificate") => At(r, "expiry")' \/ At(r, "deny")'
         /\ At(r, "expiry") => At(r, "grant")' \/ At(r, "deny")'
         /\ At(r, "grant") => At(r, "warn")'
         /\ At(r, "deny") \/ At(r, "warn") => Ended(r)'
<1>1. CASE ReadBlacklist(r)
  BY <1>1, GotoMoves DEF ReadBlacklist, At
<1>2. CASE ReadCertificate(r)
  <2>1. ASSUME NEW e, request' = [request EXCEPT ![r].pc = "expiry", ![r].expires = e]
        PROVE  request'[r].pc = "expiry"
    BY <2>1 DEF StateOK, Request
  <2> QED
    BY <1>2, <2>1, GotoMoves DEF ReadCertificate, At
<1>3. CASE CheckExpiry(r)
  BY <1>3, GotoMoves DEF CheckExpiry, At
<1>4. CASE LogDenied(r)
  BY <1>4, GotoMoves DEF LogDenied, At, Ended
<1>5. CASE LogGranted(r)
  BY <1>5, GotoMoves DEF LogGranted, At, Ended
<1>6. CASE Allow(r)
  BY <1>6, GotoMoves DEF Allow, At, Ended
<1> QED
  BY <1>1, <1>2, <1>3, <1>4, <1>5, <1>6 DEF CheckAuth

\* A request in progress stays where it is until its own next statement, unless
\* the server dies.
LEMMA StepWaits ==
  ASSUME StateOK, [Next]_vars, NEW r \in Requests, request[r].pc \in Checking
  PROVE  request'[r].pc = request[r].pc \/ CheckAuth(r) \/ Ended(r)'
BY StepOf DEF Ended, vars

\* A request in progress can take its next step: what ENABLED contributes, and a
\* hypothesis of the theorem, ENABLED being out of the prover's reach.
NeverStuck ==
  \A r \in Requests :
    request[r].pc \in Checking => ENABLED <<CheckAuth(r)>>_vars

\* WF1 at each of the six places where a request can be.
LEMMA RequestAnswered ==
  ASSUME NEW r \in Requests
  PROVE  Spec /\ []NeverStuck /\ WF_vars(CheckAuth(r)) =>
           (request[r].pc \in Checking ~> Ended(r))
<1> DEFINE Runs == <<CheckAuth(r)>>_vars
           Step(p) == At(r, p) /\ TypeOK /\ [Next]_vars
<1>1. NeverStuck /\ request[r].pc \in Checking => ENABLED Runs
  BY Zenon DEF NeverStuck
<1>2. /\ At(r, "blacklist") => request[r].pc \in Checking
      /\ At(r, "certificate") => request[r].pc \in Checking
      /\ At(r, "expiry") => request[r].pc \in Checking
      /\ At(r, "grant") => request[r].pc \in Checking
      /\ At(r, "warn") => request[r].pc \in Checking
      /\ At(r, "deny") => request[r].pc \in Checking
      /\ request[r].pc \in Checking => \/ At(r, "blacklist") \/ At(r, "certificate")
                                       \/ At(r, "expiry") \/ At(r, "grant")
                                       \/ At(r, "warn") \/ At(r, "deny")
  BY DEF At
<1>3. /\ Step("blacklist") => \/ At(r, "blacklist")' \/ At(r, "certificate")'
                              \/ At(r, "deny")' \/ Ended(r)'
      /\ Step("certificate") => \/ At(r, "certificate")' \/ At(r, "expiry")'
                                \/ At(r, "deny")' \/ Ended(r)'
      /\ Step("expiry") => \/ At(r, "expiry")' \/ At(r, "grant")'
                           \/ At(r, "deny")' \/ Ended(r)'
      /\ Step("grant") => At(r, "grant")' \/ At(r, "warn")' \/ Ended(r)'
      /\ Step("warn") => At(r, "warn")' \/ Ended(r)'
      /\ Step("deny") => At(r, "deny")' \/ Ended(r)'
  BY StepWaits, CheckAuthLeads DEF At, TypeOK
<1>4. /\ Step("blacklist") /\ Runs => At(r, "certificate")' \/ At(r, "deny")'
      /\ Step("certificate") /\ Runs => At(r, "expiry")' \/ At(r, "deny")'
      /\ Step("expiry") /\ Runs => At(r, "grant")' \/ At(r, "deny")'
      /\ Step("grant") /\ Runs => At(r, "warn")'
      /\ Step("warn") /\ Runs => Ended(r)'
      /\ Step("deny") /\ Runs => Ended(r)'
  BY CheckAuthLeads DEF TypeOK
<1>5. Spec /\ []NeverStuck /\ WF_vars(CheckAuth(r)) => (At(r, "deny") ~> Ended(r))
  BY <1>1, <1>2, <1>3, <1>4, TypeCorrect, PTL DEF Spec
<1>6. Spec /\ []NeverStuck /\ WF_vars(CheckAuth(r)) => (At(r, "warn") ~> Ended(r))
  BY <1>1, <1>2, <1>3, <1>4, TypeCorrect, PTL DEF Spec
<1>7. Spec /\ []NeverStuck /\ WF_vars(CheckAuth(r)) =>
        (At(r, "grant") ~> At(r, "warn") \/ Ended(r))
  BY <1>1, <1>2, <1>3, <1>4, TypeCorrect, PTL DEF Spec
<1>8. Spec /\ []NeverStuck /\ WF_vars(CheckAuth(r)) =>
        (At(r, "expiry") ~> At(r, "grant") \/ At(r, "deny") \/ Ended(r))
  BY <1>1, <1>2, <1>3, <1>4, TypeCorrect, PTL DEF Spec
<1>9. Spec /\ []NeverStuck /\ WF_vars(CheckAuth(r)) =>
        (At(r, "certificate") ~> At(r, "expiry") \/ At(r, "deny") \/ Ended(r))
  BY <1>1, <1>2, <1>3, <1>4, TypeCorrect, PTL DEF Spec
<1>10. Spec /\ []NeverStuck /\ WF_vars(CheckAuth(r)) =>
         (At(r, "blacklist") ~> At(r, "certificate") \/ At(r, "deny") \/ Ended(r))
  BY <1>1, <1>2, <1>3, <1>4, TypeCorrect, PTL DEF Spec
<1> QED
  BY <1>2, <1>5, <1>6, <1>7, <1>8, <1>9, <1>10, PTL

\* Under the fairness of FairSpec every request that reaches the handler is
\* answered, unless the server dies, whichever statements fail.  The hypothesis is
\* what ENABLED contributes.
THEOREM EveryRequestAnswered == FairSpec /\ []NeverStuck => Answered
<1> DEFINE Fair(r) == WF_vars(CheckAuth(r))
           Leads(r) == request[r].pc \in Checking ~> Ended(r)
<1>1. FairSpec => Spec /\ \A r \in Requests : Fair(r)
  BY PTL DEF FairSpec
<1>2. ASSUME NEW r \in Requests
      PROVE  Spec /\ []NeverStuck /\ Fair(r) => Leads(r)
  BY RequestAnswered, PTL
<1>3. (\A r \in Requests : Leads(r)) => Answered
  BY PTL DEF Answered, Ended
<1> HIDE DEF Fair, Leads
<1>4. Spec /\ []NeverStuck /\ (\A r \in Requests : Fair(r)) =>
        \A r \in Requests : Leads(r)
  BY <1>2, Zenon
<1> QED
  BY <1>1, <1>3, <1>4, PTL
=============================================================================
