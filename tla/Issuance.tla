------------------------------ MODULE Issuance ------------------------------
(***************************************************************************)
(* certctl issue past the trust gate, and certctl revoke <name>: openssl   *)
(* commands that hand a key, a request and a certificate to each other     *)
(* through files under certs/issued/<name>/, the serial file of the CA,    *)
(* and the row that is recorded at the end from what the file then holds.  *)
(*                                                                         *)
(* Nothing locks the directory or the database across these steps, and a   *)
(* process can die after any of them.  Each step reads or writes one file  *)
(* or executes one SQL statement.                                          *)
(*                                                                         *)
(* The CA has signed before: a setup ends with the certificate of the      *)
(* backend, for which openssl has made ca.srl with a random serial.        *)
(* Serials are counted from that one, 0.  The first signature of a CA,     *)
(* before which there is no ca.srl, draws a random serial and is not       *)
(* modelled.  The operators named Bug... are plausible slips in the        *)
(* definition after them, no part of Next.                                 *)
(***************************************************************************)
EXTENDS CertificateStore, FiniteSets

CONSTANTS
  Commands,  \* certctl processes, one subcommand each
  None,      \* a file that does not exist, a local not set yet
  Running,   \* how many of them the operators have going at a time
  Faults     \* what may go wrong: a write to the database, the process itself

ASSUME IssuanceAssumption ==
  /\ IsFiniteSet(Commands)
  /\ Serials = 1..Cardinality(Commands)   \* the CA signs once per process
  /\ Running \in Nat \ {0}
  /\ Faults \subseteq {"write", "kill"}

VARIABLES
  keys,     \* <name>.key: the process that generated it
  csrs,     \* <name>.csr: the key it asks a certificate for
  crts,     \* <name>.crt: a certificate
  srl,      \* certs/ca/ca.srl: the last serial the CA has used, counted from
            \* that of the backend's certificate
  pems,     \* the cert_pem column of certificates
  signed,   \* history: every certificate the CA has signed
  command,  \* [Commands -> where the process is and what it has read]
  alone     \* history: no two processes have ever been under way together

files == <<keys, csrs, crts, srl>>
tables == <<certificates, pems>>
history == <<signed, alone>>
vars == <<certificates, blacklist, events, keys, csrs, crts, srl, pems, signed,
          command, alone>>

Certificate == [serial : Serials, cn : Names, key : Commands]

ASSUME NoneAssumption == None \notin Certificate

Idle == [pc |-> "idle", op |-> Blank, name |-> Blank, key |-> None,
         serial |-> None, pem |-> None]

Ended == {"ok", "failed", "killed"}

\* The processes that have begun and not ended.
Active == {c \in Commands : command[c].pc \notin Ended \cup {"idle"}}

At(c, pc) == command[c].pc = pc
Step(c, pc) == command' = [command EXCEPT ![c].pc = pc]

\* run and must: print the error and exit with status 1.
Exit(c) == Step(c, "failed")

Begin(c, locals) ==
  /\ At(c, "idle")
  /\ Cardinality(Active) < Running
  /\ command' = [command EXCEPT ![c] = locals]
  /\ alone' = (alone /\ Active = {})

-----------------------------------------------------------------------------
(* cmdIssue.                                                               *)

\* openssl genrsa overwrites the key of an earlier certificate of the name.
GenerateKey(c, n) ==
  /\ Begin(c, [Idle EXCEPT !.pc = "req", !.op = "issued", !.name = n])
  /\ keys' = [keys EXCEPT ![n] = c]
  /\ UNCHANGED <<csrs, crts, srl, tables, blacklist, events, signed>>

\* openssl req -new, from the key file as it is now.
RequestCertificate(c) ==
  LET n == command[c].name IN
  /\ At(c, "req")
  /\ csrs' = [csrs EXCEPT ![n] = keys[n]]
  /\ Step(c, "x509")
  /\ UNCHANGED <<keys, crts, srl, tables, blacklist, events, history>>

\* openssl x509 -req reads the request and the serial file, which is there ...
ReadRequest(c) ==
  LET n == command[c].name IN
  /\ At(c, "x509")
  /\ IF csrs[n] = None
       THEN Exit(c)
       ELSE command' = [command EXCEPT ![c] =
              [@ EXCEPT !.pc = "sign", !.key = csrs[n], !.serial = srl + 1]]
  /\ UNCHANGED <<files, tables, blacklist, events, history>>

\* Mutant: the serial file is not written back.
BugSign(c) ==
  LET crt == [serial |-> command[c].serial, cn |-> command[c].name,
              key |-> command[c].key] IN
  /\ At(c, "sign")
  /\ crts' = [crts EXCEPT ![command[c].name] = crt]
  /\ signed' = signed \cup {crt}
  /\ Step(c, "rm")
  /\ UNCHANGED <<keys, csrs, srl, tables, blacklist, events, alone>>

\* ... and writes the serial file and the certificate.
Sign(c) ==
  LET crt == [serial |-> command[c].serial, cn |-> command[c].name,
              key |-> command[c].key] IN
  /\ At(c, "sign")
  /\ srl' = crt.serial
  /\ crts' = [crts EXCEPT ![command[c].name] = crt]
  /\ signed' = signed \cup {crt}
  /\ Step(c, "rm")
  /\ UNCHANGED <<keys, csrs, tables, blacklist, events, alone>>

\* os.Remove(csrPath), its error ignored.
RemoveRequest(c) ==
  /\ At(c, "rm")
  /\ csrs' = [csrs EXCEPT ![command[c].name] = None]
  /\ Step(c, "meta")
  /\ UNCHANGED <<keys, crts, srl, tables, blacklist, events, history>>

\* readCertMeta(crtPath) ...
ReadMeta(c) ==
  /\ At(c, "meta")
  /\ command' = [command EXCEPT ![c] =
       [@ EXCEPT !.pc = "pem", !.serial = crts[command[c].name].serial]]
  /\ UNCHANGED <<files, tables, blacklist, events, history>>

\* ... and os.ReadFile(crtPath): the same file, a second time.
ReadPem(c) ==
  /\ At(c, "pem")
  /\ command' = [command EXCEPT ![c] =
       [@ EXCEPT !.pc = "record", !.pem = crts[command[c].name]]]
  /\ UNCHANGED <<files, tables, blacklist, events, history>>

\* Mutant: the serial is taken from the serial file, not from the certificate.
BugRecord(c) ==
  /\ At(c, "record")
  /\ IF certificates[srl] = NoRow
       THEN /\ InsertCertificate(srl, command[c].name, 0)
            /\ pems' = [pems EXCEPT ![srl] = command[c].pem]
            /\ Step(c, "log")
       ELSE Exit(c) /\ UNCHANGED tables
  /\ UNCHANGED <<files, blacklist, events, history>>

\* Mutant: the error of the INSERT is dropped.
BugInsert(c) ==
  LET s == command[c].serial IN
  /\ At(c, "record")
  /\ \/ /\ InsertCertificate(s, command[c].name, 0)
        /\ pems' = [pems EXCEPT ![s] = command[c].pem]
     \/ (certificates[s] # NoRow \/ "write" \in Faults) /\ UNCHANGED tables
  /\ Step(c, "log")
  /\ UNCHANGED <<files, blacklist, events, history>>

\* The INSERT of store.RecordIssued.  Its expiry is not looked at here.
RecordIssued(c) ==
  LET s == command[c].serial IN
  /\ At(c, "record")
  /\ \/ /\ InsertCertificate(s, command[c].name, 0)
        /\ pems' = [pems EXCEPT ![s] = command[c].pem]
        /\ Step(c, "log")
     \/ /\ certificates[s] # NoRow \/ "write" \in Faults
        /\ Exit(c)
        /\ UNCHANGED tables
  /\ UNCHANGED <<files, blacklist, events, history>>

-----------------------------------------------------------------------------
(* cmdRevoke.                                                              *)

\* main's locals once the certificate of the name has been found, or not.
Revoking(n, found, s) ==
  [Idle EXCEPT !.pc = IF found THEN "update" ELSE "failed", !.op = "revoked",
               !.name = n, !.serial = s]

\* Mutant: a name without a certificate file is revoked all the same.
BugNoFile(c, n) ==
  /\ Begin(c, Revoking(n, TRUE, IF crts[n] = None THEN None ELSE crts[n].serial))
  /\ UNCHANGED <<files, tables, blacklist, events, signed>>

\* Mutant: the certificate the CA signed last is taken for the one named.
BugNewest(c, n) ==
  /\ Begin(c, Revoking(n, srl # 0, srl))
  /\ UNCHANGED <<files, tables, blacklist, events, signed>>

\* The name stands for the certificate that is in its directory.
LookUp(c, n) ==
  /\ IF crts[n] = None THEN Begin(c, Revoking(n, FALSE, None))
                        ELSE Begin(c, Revoking(n, TRUE, crts[n].serial))
  /\ UNCHANGED <<files, tables, blacklist, events, signed>>

\* The UPDATE of store.Revoke, an error if it affects no row.
Revoke(c) ==
  LET s == command[c].serial IN
  /\ At(c, "update")
  /\ \/ SetRevoked(s) /\ Step(c, "log")
     \/ /\ certificates[s] = NoRow \/ "write" \in Faults
        /\ Exit(c)
        /\ UNCHANGED certificates
  /\ UNCHANGED <<files, pems, blacklist, events, history>>

\* The logEvent that ends RecordIssued and Revoke.
LogCommand(c) ==
  /\ At(c, "log")
  /\ \/ /\ LogEvent(command[c].op, c, command[c].serial, command[c].name)
        /\ Step(c, "ok")
     \/ "write" \in Faults /\ Exit(c) /\ UNCHANGED events
  /\ UNCHANGED <<files, tables, blacklist, history>>

Kill(c) ==
  /\ "kill" \in Faults
  /\ c \in Active
  /\ Step(c, "killed")
  /\ UNCHANGED <<files, tables, blacklist, events, history>>

-----------------------------------------------------------------------------

\* The CA has signed the certificate of the backend, whose row no process here
\* looks up, and none of a device.
Init ==
  /\ keys = [n \in Names |-> None]
  /\ csrs = [n \in Names |-> None]
  /\ crts = [n \in Names |-> None]
  /\ srl = 0
  /\ certificates = [s \in Serials |-> NoRow]
  /\ pems = [s \in Serials |-> None]
  /\ blacklist = {}
  /\ events = {}
  /\ signed = {}
  /\ alone = TRUE
  /\ command = [c \in Commands |-> Idle]

Next ==
  \/ \E c \in Commands, n \in Names : GenerateKey(c, n) \/ LookUp(c, n)
  \/ \E c \in Commands :
       \/ RequestCertificate(c) \/ ReadRequest(c) \/ Sign(c) \/ RemoveRequest(c)
       \/ ReadMeta(c) \/ ReadPem(c) \/ RecordIssued(c)
       \/ Revoke(c) \/ LogCommand(c) \/ Kill(c)

Spec == Init /\ [][Next]_vars

-----------------------------------------------------------------------------
(* Properties.                                                             *)

Command ==
  [pc : {"idle", "req", "x509", "sign", "rm", "meta", "pem", "record", "update",
         "log"} \cup Ended,
   op : {"issued", "revoked", Blank}, name : Names \cup {Blank},
   key : Commands \cup {None}, serial : Serials \cup {None},
   pem : Certificate \cup {None}]

\* Types of the files, the tables and the processes.
TypeOK ==
  /\ keys \in [Names -> Commands \cup {None}]
  /\ csrs \in [Names -> Commands \cup {None}]
  /\ crts \in [Names -> Certificate \cup {None}]
  /\ srl \in Serials \cup {0}
  /\ certificates \in [Serials -> Row \cup {NoRow}]
  /\ pems \in [Serials -> Certificate \cup {None}]
  /\ signed \subseteq Certificate
  /\ alone \in BOOLEAN
  /\ command \in [Commands -> Command]
  /\ \A c \in Commands :
       /\ command[c].pc # "idle" => command[c].name \in Names
       /\ command[c].pc \in {"sign", "pem", "record", "update", "log"} =>
            command[c].serial \in Serials

\* As long as the processes run one after another, whichever of them is killed,
\* a row is the row of one certificate: the one in its cert_pem, with its
\* serial and its name, and no other certificate was signed with that serial.
\* CheckAuth looks at the serial alone, so this is what makes its answer an
\* answer about the certificate presented (main.go:204-209).
RowIsTheCertificate ==
  \A s \in Serials : alone /\ certificates[s] # NoRow =>
    {x \in signed : x.serial = s} = {pems[s]} /\ pems[s].cn = certificates[s].cn

\* And an issue that reports success, and that no other has followed, leaves a
\* key and a certificate that belong together, and the certificate is recorded:
\* the device can use what it is handed, whichever issue was killed before.
HandedOverPairWorks ==
  \A c \in Commands :
    /\ alone
    /\ At(c, "ok")
    /\ command[c].op = "issued"
    /\ keys[command[c].name] = c
    => LET crt == crts[command[c].name] IN
       crt.key = c /\ RowStatus(crt.serial) # "none" /\ pems[crt.serial] = crt

\* And a revocation that reports success has revoked a certificate of that name:
\* one issued to another device is never hit.
RevokedUnderItsName ==
  \A c \in Commands :
    alone /\ At(c, "ok") /\ command[c].op = "revoked" =>
      /\ RowStatus(command[c].serial) = "revoked"
      /\ certificates[command[c].serial].cn = command[c].name

\* Whatever overlaps and whatever is killed, a row names the device that the CA
\* signed a certificate of that serial for.
RowWasSigned ==
  \A s \in Serials : certificates[s] # NoRow =>
    \E x \in signed : x.serial = s /\ x.cn = certificates[s].cn

\* "A reissued certificate for the same device gets a new serial"
\* (store.go:207-208): no two certificates share one.
SerialsAreFresh ==
  \A x, y \in signed : x.serial = y.serial => x = y
=============================================================================
