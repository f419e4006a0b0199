---------------------------- MODULE IssuanceProofs ----------------------------
(* TLAPS proofs about Issuance, for any names, processes, degree of overlap *)
(* and faults.                                                              *)
EXTENDS Issuance, FiniteSetTheorems, TLAPS

\* The CA has signed a certificate of this serial for this name.
SignedFor(s, n, S) == \E x \in S : x.serial = s /\ x.cn = n

\* What holds of a process whatever overlaps: it has a certificate file once it
\* has signed, and its serial is one that was signed for its name.
ProcessOK(p, xs, S) ==
  /\ p.pc # "idle" => p.name \in Names
  /\ p.pc \in {"sign", "pem", "record", "update", "log"} => p.serial \in Serials
  /\ p.pc = "sign" => p.key \in Commands
  /\ p.pc \in {"rm", "meta", "pem"} => xs[p.name] # None
  /\ p.pc \in {"pem", "record", "update", "log", "ok"} => SignedFor(p.serial, p.name, S)

\* The certificate file of a name is a certificate that was signed for it.
FileOK(n, crt, S) == crt # None => crt \in S /\ crt.cn = n

\* The processes that have signed, or never will.
Beyond == {c \in Commands : command[c].pc \notin {"idle", "req", "x509", "sign"}}

\* No more serials are used than processes have signed.
CountOK ==
  /\ srl <= Cardinality(Beyond)
  /\ \A c \in Commands : command[c].pc = "sign" =>
       command[c].serial <= Cardinality(Beyond) + 1

TypesOK ==
  /\ keys \in [Names -> Commands \cup {None}]
  /\ csrs \in [Names -> Commands \cup {None}]
  /\ crts \in [Names -> Certificate \cup {None}]
  /\ srl \in Serials \cup {0}
  /\ certificates \in [Serials -> Row \cup {NoRow}]
  /\ pems \in [Serials -> Certificate \cup {None}]
  /\ signed \subseteq Certificate
  /\ alone \in BOOLEAN
  /\ command \in [Commands -> Command]

\* The inductive invariant, whatever overlaps.
IInv ==
  /\ TypesOK
  /\ CountOK
  /\ \A c \in Commands : ProcessOK(command[c], crts, signed)
  /\ \A n \in Names : FileOK(n, crts[n], signed)
  /\ \A s \in Serials : certificates[s] # NoRow =>
       SignedFor(s, certificates[s].cn, signed)

-----------------------------------------------------------------------------

LEMMA SerialsType == \A s \in Serials : s \in Nat /\ s >= 1
BY FS_CardinalityType, IssuanceAssumption

\* A process that has yet to sign leaves a serial for itself.
LEMMA BeyondCount ==
  /\ IsFiniteSet(Beyond) /\ Cardinality(Beyond) \in Nat
  /\ \A c \in Commands \ Beyond : Cardinality(Beyond) + 1 \in Serials
<1>1. IsFiniteSet(Commands) /\ Beyond \subseteq Commands
  BY IssuanceAssumption DEF Beyond
<1>2. IsFiniteSet(Beyond) /\ Cardinality(Beyond) \in Nat
  BY <1>1, FS_Subset, FS_CardinalityType
<1>3. ASSUME NEW c \in Commands \ Beyond
      PROVE  Cardinality(Beyond) + 1 \in Serials
  <2>1. /\ IsFiniteSet(Beyond \cup {c})
        /\ Cardinality(Beyond \cup {c}) = Cardinality(Beyond) + 1
    BY <1>2, FS_AddElement
  <2>2. Beyond \cup {c} \subseteq Commands
    BY <1>1
  <2>3. Cardinality(Beyond \cup {c}) <= Cardinality(Commands)
        /\ Cardinality(Commands) \in Nat
    BY <1>1, <2>2, FS_Subset, FS_CardinalityType
  <2> QED
    BY <1>2, <2>1, <2>3, IssuanceAssumption
<1> QED
  BY <1>2, <1>3

\* A step after which as many processes have signed, and no other is about to
\* sign than was or with the next serial, keeps the count.
LEMMA CountStep ==
  ASSUME IInv, NEW c \in Commands, NEW p \in Command,
         command' = [command EXCEPT ![c] = p], srl' = srl,
         p.pc \in {"idle", "req", "x509", "sign"} => c \notin Beyond,
         p.pc = "sign" => p.serial = srl + 1
  PROVE  CountOK'
<1>1. \A b \in Commands : command'[b] = IF b = c THEN p ELSE command[b]
  BY DEF IInv, TypesOK
<1>2. Beyond \subseteq Beyond'
  BY <1>1 DEF Beyond
<1>3. IsFiniteSet(Beyond') /\ Cardinality(Beyond') \in Nat
  <2>1. IsFiniteSet(Commands) /\ Beyond' \subseteq Commands
    BY IssuanceAssumption DEF Beyond
  <2> QED
    BY <2>1, FS_Subset, FS_CardinalityType
<1>4. Cardinality(Beyond) <= Cardinality(Beyond')
  BY <1>2, <1>3, FS_Subset
<1>5. srl \in Nat
  BY SerialsType DEF IInv, TypesOK
<1>6. ASSUME NEW b \in Commands, command'[b].pc = "sign"
      PROVE  command'[b].serial <= Cardinality(Beyond') + 1
  <2>1. CASE b = c
    BY <1>1, <1>3, <1>4, <1>5, <1>6, <2>1, BeyondCount DEF IInv, CountOK
  <2>2. CASE b # c
    <3>1. command[b].serial <= Cardinality(Beyond) + 1 /\ command[b].serial \in Nat
      BY <1>1, <1>6, <2>2, SerialsType DEF IInv, CountOK, ProcessOK
    <3> QED
      BY <1>1, <1>3, <1>4, <2>2, <3>1, BeyondCount
  <2> QED
    BY <2>1, <2>2
<1>7. srl' <= Cardinality(Beyond')
  BY <1>3, <1>4, <1>5, BeyondCount DEF IInv, CountOK
<1> QED
  BY <1>6, <1>7 DEF CountOK

\* A step that replaces the record of one process, while no file of a
\* certificate and no signature is lost, keeps every process as it should be.
LEMMA ProcessStep ==
  ASSUME IInv, NEW c \in Commands, NEW p \in Command,
         command' = [command EXCEPT ![c] = p], ProcessOK(p, crts', signed'),
         \A n \in Names : crts[n] # None => crts'[n] # None,
         signed \subseteq signed'
  PROVE  /\ command' \in [Commands -> Command]
         /\ \A b \in Commands : ProcessOK(command'[b], crts', signed')
<1>1. command' \in [Commands -> Command]
  BY DEF IInv, TypesOK
<1>2. \A b \in Commands : command'[b] = IF b = c THEN p ELSE command[b]
  BY DEF IInv, TypesOK
<1>3. ASSUME NEW b \in Commands, b # c PROVE ProcessOK(command[b], crts', signed')
  BY DEF IInv, ProcessOK, SignedFor
<1> QED
  BY <1>1, <1>2, <1>3

LEMMA InitOK == Init => IInv
<1> SUFFICES ASSUME Init PROVE IInv
  OBVIOUS
<1>1. Idle \in Command /\ Idle.pc = "idle"
  BY DEF Idle, Command, Ended
<1>2. TypesOK
  BY <1>1 DEF Init, TypesOK
<1>3. CountOK
  BY <1>1, BeyondCount DEF Init, CountOK
<1>4. \A c \in Commands : ProcessOK(command[c], crts, signed)
  BY <1>1 DEF Init, ProcessOK
<1> QED
  BY <1>2, <1>3, <1>4 DEF Init, IInv, FileOK

-----------------------------------------------------------------------------
(* One lemma per action.                                                   *)

\* A step that signs nothing and leaves the certificates alone, in their files
\* and in the tables, has only its own process to answer for.
LEMMA LocalStep ==
  ASSUME IInv, NEW c \in Commands, NEW p \in Command,
         command' = [command EXCEPT ![c] = p], ProcessOK(p, crts, signed),
         p.pc \in {"idle", "req", "x509", "sign"} => c \notin Beyond,
         p.pc = "sign" => p.serial = srl + 1,
         crts' = crts, srl' = srl, signed' = signed,
         certificates' = certificates, pems' = pems,
         keys' \in [Names -> Commands \cup {None}],
         csrs' \in [Names -> Commands \cup {None}],
         alone' \in BOOLEAN
  PROVE  IInv'
<1>1. CountOK'
  BY CountStep
<1>2. /\ command' \in [Commands -> Command]
      /\ \A b \in Commands : ProcessOK(command'[b], crts', signed')
  BY ProcessStep
<1>3. TypesOK'
  BY <1>2 DEF IInv, TypesOK
<1> QED
  BY <1>1, <1>2, <1>3 DEF IInv

\* A process that moves on to another step with the locals it has.
LEMMA Moved ==
  ASSUME IInv, NEW c \in Commands, NEW pc
  PROVE  /\ [command EXCEPT ![c].pc = pc]
              = [command EXCEPT ![c] = [command[c] EXCEPT !.pc = pc]]
         /\ [command[c] EXCEPT !.pc = pc].pc = pc
         /\ [command[c] EXCEPT !.pc = pc].name = command[c].name
         /\ [command[c] EXCEPT !.pc = pc].serial = command[c].serial
         /\ pc \in {"x509", "rm", "meta", "log"} \cup Ended =>
              [command[c] EXCEPT !.pc = pc] \in Command
BY DEF IInv, TypesOK, Command, Ended

\* A process that fails or is killed.
LEMMA EndStep ==
  ASSUME IInv, NEW c \in Commands, NEW pc \in {"failed", "killed"}, Step(c, pc),
         command[c].pc # "idle",
         UNCHANGED <<files, certificates, pems, history>>
  PROVE  IInv'
<1> DEFINE p == [command[c] EXCEPT !.pc = pc]
<1>1. p \in Command /\ p.pc = pc /\ p.name = command[c].name
  BY Moved DEF Ended
<1>2. ProcessOK(p, crts, signed)
  BY <1>1 DEF IInv, ProcessOK
<1>3. command' = [command EXCEPT ![c] = p]
  BY Moved DEF Step
<1> HIDE DEF p
<1> QED
  BY <1>1, <1>2, <1>3, LocalStep DEF IInv, TypesOK, files, history

LEMMA GenerateKeyOK ==
  ASSUME IInv, NEW c \in Commands, NEW n \in Names, GenerateKey(c, n)
  PROVE  IInv'
<1> DEFINE p == [Idle EXCEPT !.pc = "req", !.op = "issued", !.name = n]
<1>1. p \in Command /\ p.pc = "req" /\ p.name = n
  BY DEF Idle, Command
<1>2. ProcessOK(p, crts, signed)
  BY <1>1 DEF ProcessOK
<1>3. c \notin Beyond /\ command' = [command EXCEPT ![c] = p]
  BY DEF GenerateKey, Begin, At, Beyond
<1>4. alone' \in BOOLEAN
  BY Zenon DEF GenerateKey, Begin
<1>5. /\ keys' \in [Names -> Commands \cup {None}]
      /\ UNCHANGED <<csrs, crts, srl, signed, certificates, pems>>
  BY DEF IInv, TypesOK, GenerateKey, tables
<1> HIDE DEF p
<1> QED
  BY <1>1, <1>2, <1>3, <1>4, <1>5, LocalStep DEF IInv, TypesOK

LEMMA LookUpOK ==
  ASSUME IInv, NEW c \in Commands, NEW n \in Names, LookUp(c, n)
  PROVE  IInv'
<1>1. PICK p \in Command :
        /\ command' = [command EXCEPT ![c] = p]
        /\ ProcessOK(p, crts, signed)
        /\ p.pc \in {"failed", "update"}
  <2>1. CASE crts[n] = None
    <3> DEFINE p == Revoking(n, FALSE, None)
    <3>1. p \in Command /\ p.pc = "failed" /\ p.name = n
      BY DEF Revoking, Idle, Command, Ended
    <3>2. command' = [command EXCEPT ![c] = p]
      BY <2>1 DEF LookUp, Begin
    <3> HIDE DEF p
    <3> QED
      BY <3>1, <3>2 DEF ProcessOK
  <2>2. CASE crts[n] # None
    <3> DEFINE p == Revoking(n, TRUE, crts[n].serial)
    <3>1. crts[n] \in Certificate /\ crts[n] \in signed /\ crts[n].cn = n
      BY <2>2 DEF IInv, TypesOK, FileOK
    <3>2. crts[n].serial \in Serials /\ SignedFor(crts[n].serial, n, signed)
      BY <3>1 DEF Certificate, SignedFor
    <3>3. p \in Command /\ p.pc = "update" /\ p.name = n /\ p.serial = crts[n].serial
      BY <3>2 DEF Revoking, Idle, Command
    <3>4. command' = [command EXCEPT ![c] = p]
      BY <2>2 DEF LookUp, Begin
    <3> HIDE DEF p
    <3> QED
      BY <3>2, <3>3, <3>4 DEF ProcessOK
  <2> QED
    BY <2>1, <2>2
<1>2. alone' \in BOOLEAN
  BY Zenon DEF LookUp, Begin
<1>3. UNCHANGED <<keys, csrs, crts, srl, signed, certificates, pems>>
  BY DEF LookUp, files, tables
<1> QED
  BY <1>1, <1>2, <1>3, LocalStep DEF IInv, TypesOK

LEMMA RequestCertificateOK ==
  ASSUME IInv, NEW c \in Commands, RequestCertificate(c)
  PROVE  IInv'
<1> DEFINE p == [command[c] EXCEPT !.pc = "x509"]
<1>1. p \in Command /\ p.pc = "x509" /\ p.name = command[c].name
  BY Moved
<1>2. command[c].pc = "req" /\ command[c].name \in Names
  BY DEF RequestCertificate, At, IInv, ProcessOK
<1>3. ProcessOK(p, crts, signed) /\ c \notin Beyond
  BY <1>1, <1>2 DEF ProcessOK, Beyond
<1>4. command' = [command EXCEPT ![c] = p]
  BY Moved DEF RequestCertificate, Step
<1>5. /\ csrs' \in [Names -> Commands \cup {None}]
      /\ UNCHANGED <<keys, crts, srl, signed, certificates, pems, alone>>
  BY <1>2 DEF IInv, TypesOK, RequestCertificate, tables, history
<1> HIDE DEF p
<1> QED
  BY <1>1, <1>3, <1>4, <1>5, LocalStep DEF IInv, TypesOK

LEMMA ReadRequestOK ==
  ASSUME IInv, NEW c \in Commands, ReadRequest(c)
  PROVE  IInv'
<1>1. command[c].pc = "x509" /\ command[c].name \in Names
      /\ UNCHANGED <<files, certificates, pems, history>>
  BY DEF ReadRequest, At, IInv, ProcessOK, tables
<1>2. CASE csrs[command[c].name] = None
  BY <1>1, <1>2, EndStep DEF ReadRequest, Exit
<1>3. CASE csrs[command[c].name] # None
  <2> DEFINE p == [command[c] EXCEPT !.pc = "sign",
                     !.key = csrs[command[c].name], !.serial = srl + 1]
  <2>1. c \notin Beyond
    BY <1>1 DEF Beyond
  <2>2. srl + 1 \in Serials
    <3>1. srl \in Nat /\ srl <= Cardinality(Beyond) /\ Cardinality(Beyond) \in Nat
      BY SerialsType, BeyondCount DEF IInv, TypesOK, CountOK
    <3>2. Cardinality(Beyond) + 1 <= Cardinality(Commands)
          /\ Cardinality(Commands) \in Nat
      BY <2>1, BeyondCount, IssuanceAssumption, FS_CardinalityType
    <3> QED
      BY <3>1, <3>2, IssuanceAssumption
  <2>3. csrs[command[c].name] \in Commands
    BY <1>1, <1>3 DEF IInv, TypesOK
  <2>4. p \in Command /\ p.pc = "sign" /\ p.serial = srl + 1
        /\ p.name = command[c].name
    BY <2>2, <2>3 DEF IInv, TypesOK, Command
  <2>5. p.key = csrs[command[c].name]
    BY DEF IInv, TypesOK, Command
  <2>6. ProcessOK(p, crts, signed)
    BY <1>1, <2>2, <2>3, <2>4, <2>5 DEF ProcessOK
  <2>7. command' = [command EXCEPT ![c] = p]
    BY <1>3 DEF ReadRequest
  <2> HIDE DEF p
  <2> QED
    BY <1>1, <2>1, <2>4, <2>6, <2>7, LocalStep DEF IInv, TypesOK, files, history
<1> QED
  BY <1>2, <1>3

LEMMA SignOK ==
  ASSUME IInv, NEW c \in Commands, Sign(c)
  PROVE  IInv'
<1> DEFINE n == command[c].name
           crt == [serial |-> command[c].serial, cn |-> n, key |-> command[c].key]
           p == [command[c] EXCEPT !.pc = "rm"]
<1>1. command[c].pc = "sign" /\ n \in Names /\ command[c].serial \in Serials
      /\ command[c].key \in Commands
  BY DEF Sign, At, IInv, ProcessOK
<1>2. crt \in Certificate /\ crt.serial = command[c].serial /\ crt.cn = n
  BY <1>1 DEF Certificate
<1>3. /\ crts' = [crts EXCEPT ![n] = crt]
      /\ signed' = signed \cup {crt}
      /\ srl' = crt.serial
      /\ UNCHANGED <<keys, csrs, certificates, pems, alone>>
  BY DEF Sign, tables
<1>4. command' = [command EXCEPT ![c] = p]
  BY Moved DEF Sign, Step
<1>5. p \in Command /\ p.pc = "rm" /\ p.name = n
  BY Moved
<1> HIDE DEF p, crt
<1>6. crt # None
  BY <1>2, NoneAssumption
<1>7. \A m \in Names : crts'[m] = IF m = n THEN crt ELSE crts[m]
  BY <1>3 DEF IInv, TypesOK
<1>8. ProcessOK(p, crts', signed')
  BY <1>1, <1>5, <1>6, <1>7 DEF ProcessOK
<1>9. /\ command' \in [Commands -> Command]
      /\ \A b \in Commands : ProcessOK(command'[b], crts', signed')
  BY <1>3, <1>4, <1>5, <1>6, <1>7, <1>8, ProcessStep
<1>10. TypesOK'
  BY <1>1, <1>2, <1>3, <1>9 DEF IInv, TypesOK
<1>11. CountOK'
  <2>1. \A b \in Commands : command'[b] = IF b = c THEN p ELSE command[b]
    BY <1>4 DEF IInv, TypesOK
  <2>2. c \notin Beyond /\ Beyond' = Beyond \cup {c}
    BY <1>1, <1>5, <2>1 DEF Beyond
  <2>3. Cardinality(Beyond') = Cardinality(Beyond) + 1
    BY <2>2, BeyondCount, FS_AddElement
  <2>4. \A b \in Commands : command[b].pc = "sign" =>
          command[b].serial \in Nat /\ command[b].serial <= Cardinality(Beyond) + 1
    BY SerialsType DEF IInv, ProcessOK, CountOK
  <2>5. srl' <= Cardinality(Beyond')
    BY <1>1, <1>2, <1>3, <2>3, <2>4
  <2>6. ASSUME NEW b \in Commands, command'[b].pc = "sign"
        PROVE  command'[b].serial <= Cardinality(Beyond') + 1
    <3>1. command'[b] = command[b]
      BY <1>5, <2>1, <2>6
    <3> QED
      BY <2>3, <2>4, <2>6, <3>1, BeyondCount
  <2> QED
    BY <2>5, <2>6 DEF CountOK
<1>12. \A m \in Names : FileOK(m, crts'[m], signed')
  BY <1>2, <1>3, <1>7 DEF IInv, FileOK
<1>13. \A s \in Serials : certificates'[s] # NoRow =>
         SignedFor(s, certificates'[s].cn, signed')
  BY <1>3 DEF IInv, SignedFor
<1> QED
  BY <1>9, <1>10, <1>11, <1>12, <1>13 DEF IInv

LEMMA RemoveRequestOK ==
  ASSUME IInv, NEW c \in Commands, RemoveRequest(c)
  PROVE  IInv'
<1> DEFINE p == [command[c] EXCEPT !.pc = "meta"]
<1>1. p \in Command /\ p.pc = "meta" /\ p.name = command[c].name
  BY Moved
<1>2. command[c].pc = "rm" /\ command[c].name \in Names
      /\ crts[command[c].name] # None
  BY DEF RemoveRequest, At, IInv, ProcessOK
<1>3. ProcessOK(p, crts, signed)
  BY <1>1, <1>2 DEF ProcessOK
<1>4. command' = [command EXCEPT ![c] = p]
  BY Moved DEF RemoveRequest, Step
<1>5. /\ csrs' \in [Names -> Commands \cup {None}]
      /\ UNCHANGED <<keys, crts, srl, signed, certificates, pems, alone>>
  BY <1>2 DEF IInv, TypesOK, RemoveRequest, tables, history
<1> HIDE DEF p
<1> QED
  BY <1>1, <1>3, <1>4, <1>5, LocalStep DEF IInv, TypesOK

LEMMA ReadMetaOK ==
  ASSUME IInv, NEW c \in Commands, ReadMeta(c)
  PROVE  IInv'
<1> DEFINE n == command[c].name
           p == [command[c] EXCEPT !.pc = "pem", !.serial = crts[n].serial]
<1>1. command[c].pc = "meta" /\ n \in Names /\ crts[n] # None
  BY DEF ReadMeta, At, IInv, ProcessOK
<1>2. crts[n] \in Certificate /\ crts[n] \in signed /\ crts[n].cn = n
  BY <1>1 DEF IInv, TypesOK, FileOK
<1>3. crts[n].serial \in Serials /\ SignedFor(crts[n].serial, n, signed)
  BY <1>2 DEF Certificate, SignedFor
<1>4. p \in Command /\ p.pc = "pem" /\ p.name = n /\ p.serial = crts[n].serial
  BY <1>3 DEF IInv, TypesOK, Command
<1>5. command' = [command EXCEPT ![c] = p]
  BY DEF ReadMeta
<1>6. UNCHANGED <<files, certificates, pems, history>>
  BY DEF ReadMeta, tables
<1> HIDE DEF p
<1>7. ProcessOK(p, crts, signed)
  BY <1>1, <1>3, <1>4 DEF ProcessOK
<1> QED
  BY <1>4, <1>5, <1>6, <1>7, LocalStep DEF IInv, TypesOK, files, history

LEMMA ReadPemOK ==
  ASSUME IInv, NEW c \in Commands, ReadPem(c)
  PROVE  IInv'
<1> DEFINE n == command[c].name
           p == [command[c] EXCEPT !.pc = "record", !.pem = crts[n]]
<1>1. /\ command[c].pc = "pem" /\ n \in Names
      /\ command[c].serial \in Serials /\ SignedFor(command[c].serial, n, signed)
  BY DEF ReadPem, At, IInv, ProcessOK
<1>2. crts[n] \in Certificate \cup {None}
  BY <1>1 DEF IInv, TypesOK
<1>3. p \in Command /\ p.pc = "record" /\ p.name = n
      /\ p.serial = command[c].serial
  BY <1>2 DEF IInv, TypesOK, Command
<1>4. command' = [command EXCEPT ![c] = p]
  BY DEF ReadPem
<1>5. UNCHANGED <<files, certificates, pems, history>>
  BY DEF ReadPem, tables
<1> HIDE DEF p
<1>6. ProcessOK(p, crts, signed)
  BY <1>1, <1>3 DEF ProcessOK
<1> QED
  BY <1>3, <1>4, <1>5, <1>6, LocalStep DEF IInv, TypesOK, files, history

\* A statement on a table: the process that ran it is about to log it, its row
\* is one whose serial was signed for its name, the other rows are as before.
LEMMA TableStep ==
  ASSUME IInv, NEW c \in Commands, NEW s \in Serials, Step(c, "log"),
         command[c].pc \in {"record", "update"},
         certificates' \in [Serials -> Row \cup {NoRow}],
         \A t \in Serials : t # s => certificates'[t] = certificates[t],
         SignedFor(s, certificates'[s].cn, signed),
         pems' \in [Serials -> Certificate \cup {None}],
         UNCHANGED <<files, history>>
  PROVE  IInv'
<1> DEFINE p == [command[c] EXCEPT !.pc = "log"]
<1>1. p \in Command /\ p.pc = "log" /\ p.name = command[c].name
      /\ p.serial = command[c].serial
  BY Moved
<1>2. ProcessOK(p, crts, signed)
  BY <1>1 DEF IInv, ProcessOK
<1>3. command' = [command EXCEPT ![c] = p]
  BY Moved DEF Step
<1>4. UNCHANGED <<keys, csrs, crts, srl, signed, alone>>
  BY DEF files, history
<1> HIDE DEF p
<1>5. CountOK'
  BY <1>1, <1>3, <1>4, CountStep
<1>6. /\ command' \in [Commands -> Command]
      /\ \A b \in Commands : ProcessOK(command'[b], crts', signed')
  BY <1>1, <1>2, <1>3, <1>4, ProcessStep
<1>7. TypesOK'
  BY <1>4, <1>6 DEF IInv, TypesOK
<1>8. \A t \in Serials : certificates'[t] # NoRow =>
        SignedFor(t, certificates'[t].cn, signed')
  BY <1>4 DEF IInv
<1> QED
  BY <1>4, <1>5, <1>6, <1>7, <1>8 DEF IInv

LEMMA RecordIssuedOK ==
  ASSUME IInv, NEW c \in Commands, RecordIssued(c)
  PROVE  IInv'
<1> DEFINE s == command[c].serial
           n == command[c].name
           row == [cn |-> n, expires |-> 0, status |-> "issued"]
<1>1. /\ command[c].pc = "record" /\ n \in Names
      /\ s \in Serials /\ SignedFor(s, n, signed)
      /\ UNCHANGED <<files, history>>
  BY DEF RecordIssued, At, IInv, ProcessOK
<1>2. CASE /\ InsertCertificate(s, n, 0)
           /\ pems' = [pems EXCEPT ![s] = command[c].pem]
           /\ Step(c, "log")
  <2>1. row \in Row /\ row.cn = n
    BY <1>1 DEF Row
  <2>2. certificates' = [certificates EXCEPT ![s] = row]
    BY <1>2 DEF InsertCertificate
  <2>3. command[c].pem \in Certificate \cup {None}
    BY DEF IInv, TypesOK, Command
  <2>4. pems' \in [Serials -> Certificate \cup {None}]
    BY <1>1, <1>2, <2>3 DEF IInv, TypesOK
  <2> HIDE DEF row
  <2>5. /\ certificates' \in [Serials -> Row \cup {NoRow}]
        /\ certificates'[s] = row
        /\ \A t \in Serials : t # s => certificates'[t] = certificates[t]
    BY <1>1, <2>1, <2>2 DEF IInv, TypesOK
  <2> QED
    BY <1>1, <1>2, <2>1, <2>4, <2>5, TableStep
<1>3. CASE Exit(c) /\ UNCHANGED tables
  BY <1>1, <1>3, EndStep DEF Exit, tables
<1> QED
  BY <1>2, <1>3 DEF RecordIssued

LEMMA RevokeOK ==
  ASSUME IInv, NEW c \in Commands, Revoke(c)
  PROVE  IInv'
<1> DEFINE s == command[c].serial
           row == [certificates[s] EXCEPT !.status = "revoked"]
<1>1. /\ command[c].pc = "update" /\ s \in Serials
      /\ UNCHANGED <<files, pems, history>>
  BY DEF Revoke, At, IInv, ProcessOK
<1>2. CASE SetRevoked(s) /\ Step(c, "log")
  <2>1. certificates[s] # NoRow /\ certificates[s] \in Row
    BY <1>1, <1>2 DEF SetRevoked, IInv, TypesOK
  <2>2. row \in Row /\ row.cn = certificates[s].cn
    BY <2>1 DEF Row
  <2>3. certificates' = [certificates EXCEPT ![s] = row]
    BY <1>2 DEF SetRevoked
  <2> HIDE DEF row
  <2>4. /\ certificates' \in [Serials -> Row \cup {NoRow}]
        /\ certificates'[s] = row
        /\ \A t \in Serials : t # s => certificates'[t] = certificates[t]
    BY <1>1, <2>2, <2>3 DEF IInv, TypesOK
  <2>5. SignedFor(s, certificates'[s].cn, signed)
    BY <1>1, <2>1, <2>2, <2>4 DEF IInv
  <2>6. pems' \in [Serials -> Certificate \cup {None}]
    BY <1>1 DEF IInv, TypesOK
  <2> QED
    BY <1>1, <1>2, <2>4, <2>5, <2>6, TableStep
<1>3. CASE Exit(c) /\ UNCHANGED certificates
  BY <1>1, <1>3, EndStep DEF Exit
<1> QED
  BY <1>2, <1>3 DEF Revoke

LEMMA LogCommandOK ==
  ASSUME IInv, NEW c \in Commands, LogCommand(c)
  PROVE  IInv'
<1>1. command[c].pc = "log" /\ UNCHANGED <<files, certificates, pems, history>>
  BY DEF LogCommand, At, tables
<1>2. CASE Step(c, "ok")
  <2> DEFINE p == [command[c] EXCEPT !.pc = "ok"]
  <2>1. p \in Command /\ p.pc = "ok" /\ p.name = command[c].name
        /\ p.serial = command[c].serial
    BY Moved DEF Ended
  <2>2. command' = [command EXCEPT ![c] = p]
    BY <1>2, Moved DEF Step
  <2> HIDE DEF p
  <2>3. ProcessOK(p, crts, signed)
    BY <1>1, <2>1 DEF IInv, ProcessOK
  <2> QED
    BY <1>1, <2>1, <2>2, <2>3, LocalStep DEF IInv, TypesOK, files, history
<1>3. CASE Exit(c)
  BY <1>1, <1>3, EndStep DEF Exit
<1> QED
  BY <1>2, <1>3 DEF LogCommand

LEMMA KillOK ==
  ASSUME IInv, NEW c \in Commands, Kill(c)
  PROVE  IInv'
BY EndStep DEF Kill, Active, tables

-----------------------------------------------------------------------------

LEMMA StutterOK ==
  ASSUME IInv, UNCHANGED vars
  PROVE  IInv'
<1>1. Beyond' = Beyond
  BY DEF vars, Beyond
<1>2. CountOK'
  BY <1>1 DEF vars, IInv, CountOK
<1> QED
  BY <1>2 DEF vars, IInv, TypesOK

LEMMA NextOK ==
  ASSUME IInv, [Next]_vars
  PROVE  IInv'
<1>1. CASE UNCHANGED vars
  BY <1>1, StutterOK
<1>2. ASSUME NEW c \in Commands, NEW n \in Names, GenerateKey(c, n) \/ LookUp(c, n)
      PROVE  IInv'
  BY <1>2, GenerateKeyOK, LookUpOK
<1>3. ASSUME NEW c \in Commands,
             \/ RequestCertificate(c) \/ ReadRequest(c) \/ Sign(c)
             \/ RemoveRequest(c) \/ ReadMeta(c) \/ ReadPem(c)
             \/ RecordIssued(c) \/ Revoke(c) \/ LogCommand(c) \/ Kill(c)
      PROVE  IInv'
  BY <1>3, RequestCertificateOK, ReadRequestOK, SignOK, RemoveRequestOK,
     ReadMetaOK, ReadPemOK, RecordIssuedOK, RevokeOK, LogCommandOK, KillOK
<1> QED
  BY <1>1, <1>2, <1>3 DEF Next

LEMMA Invariance == Spec => []IInv
BY InitOK, NextOK, PTL DEF Spec

\* The files, the tables and the processes keep their types: serials run from 1
\* to the number of processes, so the CA never signs with another one.
THEOREM TypeCorrect == Spec => []TypeOK
<1>1. IInv => TypeOK
  BY DEF IInv, TypesOK, ProcessOK, TypeOK
<1> QED
  BY <1>1, Invariance, PTL

\* Whatever overlaps and whatever is killed, the name that CheckAuth finds for a
\* serial is one the CA signed a certificate of that serial for.
THEOREM RowSigned == Spec => []RowWasSigned
<1>1. IInv => RowWasSigned
  BY DEF IInv, SignedFor, RowWasSigned
<1> QED
  BY <1>1, Invariance, PTL
-----------------------------------------------------------------------------
(* What locks would make true.  No process locks anything, so the three     *)
(* conditions below are not theorems: they say what of the overlap does the *)
(* damage, and each result that follows rests on no more than it names.     *)

\* The steps of an issue, from the key it has generated to the row.
Issuing == {"req", "x509", "sign", "rm", "meta", "pem", "record"}

\* No process signs with a serial that the serial file has moved on from.
SignaturesInOrder ==
  \A c \in Commands : At(c, "sign") => command[c].serial = srl + 1

\* A lock on the serial file: no two are between the steps of openssl x509 -req.
OneSigner == \A c, d \in Commands : At(c, "sign") /\ At(d, "sign") => c = d

\* A lock on the directory of a name: no two processes issue for it together.
\* Nothing is said of revocations, and none of issues for other names.
OnePerName ==
  \A c, d \in Commands :
    /\ command[c].pc \in Issuing
    /\ command[d].pc \in Issuing
    /\ command[c].name = command[d].name
    => c = d

\* The three claims of RowIsTheCertificate, HandedOverPairWorks and
\* RevokedUnderItsName, of runs in which processes overlap.
RowsIdentify ==
  \A s \in Serials : certificates[s] # NoRow =>
    {x \in signed : x.serial = s} = {pems[s]} /\ pems[s].cn = certificates[s].cn

PairsWork ==
  \A c \in Commands :
    At(c, "ok") /\ command[c].op = "issued" /\ keys[command[c].name] = c =>
      LET crt == crts[command[c].name] IN
      crt.key = c /\ RowStatus(crt.serial) # "none" /\ pems[crt.serial] = crt

RevokesItsOwn ==
  \A c \in Commands : At(c, "ok") /\ command[c].op = "revoked" =>
    /\ RowStatus(command[c].serial) = "revoked"
    /\ certificates[command[c].serial].cn = command[c].name

-----------------------------------------------------------------------------
(* The serials.                                                            *)

\* The serial file is ahead of every certificate, and each has its own serial.
SerialsOK ==
  /\ \A x \in signed : x.serial <= srl
  /\ \A x, y \in signed : x.serial = y.serial => x = y

LEMMA OnlySignSigns ==
  [Next]_vars => (\E c \in Commands : Sign(c)) \/ UNCHANGED <<srl, signed>>
BY DEF Next, vars, files, history, GenerateKey, LookUp, RequestCertificate,
       ReadRequest, RemoveRequest, ReadMeta, ReadPem, RecordIssued, Revoke,
       LogCommand, Kill

LEMMA StepSerials ==
  ASSUME IInv, SerialsOK, SignaturesInOrder, [Next]_vars
  PROVE  SerialsOK'
<1>1. ASSUME NEW c \in Commands, Sign(c) PROVE SerialsOK'
  <2> DEFINE crt == [serial |-> command[c].serial, cn |-> command[c].name,
                     key |-> command[c].key]
  <2>1. crt.serial = srl + 1
    BY <1>1 DEF Sign, SignaturesInOrder, At
  <2>2. signed' = signed \cup {crt} /\ srl' = crt.serial
    BY <1>1 DEF Sign
  <2>3. srl \in Nat /\ \A x \in signed : x.serial \in Nat
    BY SerialsType DEF IInv, TypesOK, Certificate
  <2> HIDE DEF crt
  <2>4. \A x \in signed' : x.serial <= srl'
    BY <2>1, <2>2, <2>3 DEF SerialsOK
  <2>5. \A x \in signed : x.serial # crt.serial
    BY <2>1, <2>3 DEF SerialsOK
  <2> QED
    BY <2>2, <2>4, <2>5 DEF SerialsOK
<1>2. CASE UNCHANGED <<srl, signed>>
  BY <1>2 DEF SerialsOK
<1> QED
  BY <1>1, <1>2, OnlySignSigns

LEMMA SerialsInvariance == Spec /\ []SignaturesInOrder => []SerialsOK
<1>1. Init => SerialsOK
  BY DEF Init, SerialsOK
<1>2. IInv /\ SerialsOK /\ SignaturesInOrder /\ [Next]_vars => SerialsOK'
  BY StepSerials
<1> QED
  BY <1>1, <1>2, Invariance, PTL DEF Spec

\* "A reissued certificate for the same device gets a new serial": true as long
\* as no two signatures overlap, whatever else does and whatever is killed.  The
\* two steps of one signature are all that a lock would have to cover.
THEOREM SerialsFresh == Spec /\ []SignaturesInOrder => []SerialsAreFresh
<1>1. SerialsOK => SerialsAreFresh
  BY DEF SerialsOK, SerialsAreFresh
<1> QED
  BY <1>1, SerialsInvariance, PTL

\* A process about to sign was so before, or it has just read the serial file.
LEMMA AboutToSign ==
  ASSUME IInv, [Next]_vars, NEW d \in Commands, command'[d].pc = "sign"
  PROVE  \/ command'[d] = command[d]
         \/ command'[d].serial = srl + 1 /\ srl' = srl
<1>1. command \in [Commands -> Command]
  BY DEF IInv, TypesOK
<1>2. CASE UNCHANGED vars
  BY <1>2 DEF vars
<1>3. ASSUME NEW c \in Commands, NEW n \in Names, GenerateKey(c, n) \/ LookUp(c, n)
      PROVE  command'[d] = command[d]
  BY <1>1, <1>3 DEF GenerateKey, LookUp, Begin, Revoking, Idle
<1>4. ASSUME NEW c \in Commands, ReadRequest(c)
      PROVE  \/ command'[d] = command[d]
             \/ command'[d].serial = srl + 1 /\ srl' = srl
  <2>1. CASE csrs[command[c].name] = None
    BY <1>1, <1>4, <2>1 DEF ReadRequest, Exit, Step, Command
  <2>2. CASE csrs[command[c].name] # None
    <3>1. CASE d = c
      BY <1>1, <1>4, <2>2, <3>1 DEF ReadRequest, files, Command
    <3>2. CASE d # c
      BY <1>1, <1>4, <2>2, <3>2 DEF ReadRequest
    <3> QED
      BY <3>1, <3>2
  <2> QED
    BY <2>1, <2>2
<1>5. ASSUME NEW c \in Commands,
             \/ RequestCertificate(c) \/ Sign(c) \/ RemoveRequest(c)
             \/ RecordIssued(c) \/ Revoke(c) \/ LogCommand(c) \/ Kill(c)
      PROVE  command'[d] = command[d]
  <2>1. PICK pc \in {"x509", "rm", "meta", "log", "ok", "failed", "killed"} :
          Step(c, pc)
    BY <1>5 DEF RequestCertificate, Sign, RemoveRequest, RecordIssued, Revoke,
                LogCommand, Kill, Exit
  <2> QED
    BY <1>1, <2>1 DEF Step, Command
<1>6. ASSUME NEW c \in Commands, ReadMeta(c) \/ ReadPem(c)
      PROVE  command'[d] = command[d]
  BY <1>1, <1>6 DEF ReadMeta, ReadPem, Command
<1> QED
  BY <1>2, <1>3, <1>4, <1>5, <1>6 DEF Next

LEMMA StepInOrder ==
  ASSUME IInv, OneSigner, SignaturesInOrder, [Next]_vars
  PROVE  SignaturesInOrder'
<1> SUFFICES ASSUME NEW d \in Commands, command'[d].pc = "sign"
             PROVE  command'[d].serial = srl' + 1
  BY DEF SignaturesInOrder, At
<1>1. \/ command'[d] = command[d]
      \/ command'[d].serial = srl + 1 /\ srl' = srl
  BY AboutToSign
<1>2. CASE UNCHANGED <<srl, signed>>
  BY <1>1, <1>2 DEF SignaturesInOrder, At
<1>3. ASSUME NEW c \in Commands, Sign(c), srl' # srl
      PROVE  FALSE
  <2>1. command'[d] = command[d] /\ At(c, "sign") /\ At(d, "sign")
    BY <1>1, <1>3 DEF Sign, At
  <2>2. d = c
    BY <2>1 DEF OneSigner
  <2>3. command'[c].pc = "rm"
    BY <1>3 DEF Sign, Step, IInv, TypesOK, Command
  <2> QED
    BY <2>2, <2>3
<1>4. CASE srl' = srl
  BY <1>1, <1>4 DEF SignaturesInOrder, At
<1> QED
  BY <1>2, <1>3, <1>4, OnlySignSigns

\* A lock over the two steps of a signature keeps the signatures in order.
THEOREM LockOrders == Spec /\ []OneSigner => []SignaturesInOrder
<1>1. Init => SignaturesInOrder
  BY DEF Init, SignaturesInOrder, At, Idle
<1>2. IInv /\ SignaturesInOrder /\ OneSigner /\ [Next]_vars => SignaturesInOrder'
  BY StepInOrder
<1> QED
  BY <1>1, <1>2, Invariance, PTL DEF Spec

-----------------------------------------------------------------------------
(* Revocation by name.                                                     *)

\* A row that a process has changed is one of its name, and stays revoked.
RevokedOK(p, T) ==
  /\ p.pc \in Issuing => p.op = "issued"
  /\ p.pc = "update" => p.op = "revoked"
  /\ p.op = "revoked" /\ p.pc \in {"log", "ok"} =>
       T[p.serial] # NoRow /\ T[p.serial].status = "revoked"
       /\ T[p.serial].cn = p.name

AllRevoked == \A c \in Commands : RevokedOK(command[c], certificates)

\* A row keeps its name and its cert_pem, and once revoked it stays revoked.
RowsKept ==
  \A s \in Serials : certificates[s] # NoRow =>
    /\ certificates'[s] # NoRow
    /\ certificates'[s].cn = certificates[s].cn
    /\ certificates[s].status = "revoked" => certificates'[s].status = "revoked"
    /\ pems'[s] = pems[s]

LEMMA StepRows ==
  ASSUME IInv, [Next]_vars
  PROVE  RowsKept
<1>1. ASSUME NEW c \in Commands, RecordIssued(c) PROVE RowsKept
  <2>1. CASE UNCHANGED <<certificates, pems>>
    BY <2>1 DEF RowsKept
  <2>2. CASE /\ InsertCertificate(command[c].serial, command[c].name, 0)
             /\ pems' = [pems EXCEPT ![command[c].serial] = command[c].pem]
    BY <2>2 DEF InsertCertificate, IInv, TypesOK, RowsKept
  <2> QED
    BY <1>1, <2>1, <2>2 DEF RecordIssued, tables
<1>2. ASSUME NEW c \in Commands, Revoke(c) PROVE RowsKept
  <2> DEFINE s == command[c].serial
             row == [certificates[s] EXCEPT !.status = "revoked"]
  <2>1. CASE UNCHANGED <<certificates, pems>>
    BY <2>1 DEF RowsKept
  <2>2. CASE SetRevoked(s) /\ UNCHANGED pems
    <3>1. s \in Serials /\ certificates[s] \in Row
      BY <1>2, <2>2 DEF Revoke, At, SetRevoked, IInv, TypesOK, ProcessOK
    <3>2. row \in Row /\ row.cn = certificates[s].cn /\ row.status = "revoked"
      BY <3>1 DEF Row
    <3>3. certificates' = [certificates EXCEPT ![s] = row]
      BY <2>2 DEF SetRevoked
    <3> HIDE DEF row
    <3>4. \A t \in Serials : certificates'[t] = IF t = s THEN row ELSE certificates[t]
      BY <3>1, <3>3 DEF IInv, TypesOK
    <3> QED
      BY <2>2, <3>2, <3>4, NoRowAssumption DEF RowsKept
  <2> QED
    BY <1>2, <2>1, <2>2 DEF Revoke
<1>3. CASE UNCHANGED <<certificates, pems>>
  BY <1>3 DEF RowsKept
<1>4. \/ \E c \in Commands : RecordIssued(c) \/ Revoke(c)
      \/ UNCHANGED <<certificates, pems>>
  BY DEF Next, vars, tables, GenerateKey, LookUp, RequestCertificate, ReadRequest,
         Sign, RemoveRequest, ReadMeta, ReadPem, LogCommand, Kill
<1> QED
  BY <1>1, <1>2, <1>3, <1>4

\* A step that replaces the record of one process by one that is as it should be.
LEMMA RevokedStep ==
  ASSUME IInv, AllRevoked, RowsKept, NEW c \in Commands, NEW p,
         command' = [command EXCEPT ![c] = p], RevokedOK(p, certificates')
  PROVE  AllRevoked'
<1>1. \A b \in Commands : command'[b] = IF b = c THEN p ELSE command[b]
  BY DEF IInv, TypesOK
<1>2. ASSUME NEW d \in Commands, d # c PROVE RevokedOK(command[d], certificates')
  <2>1. command[d].pc \in {"log", "ok"} => command[d].serial \in Serials
    BY DEF IInv, TypesOK, ProcessOK, SignedFor, Certificate
  <2> QED
    BY <2>1 DEF AllRevoked, RevokedOK, RowsKept
<1> QED
  BY <1>1, <1>2 DEF AllRevoked

\* The locals of a process that is replaced, field by field.
LEMMA StepFields ==
  ASSUME IInv, NEW c \in Commands, NEW pc, Step(c, pc)
  PROVE  \E p : /\ command' = [command EXCEPT ![c] = p]
                /\ p.pc = pc /\ p.op = command[c].op
                /\ p.name = command[c].name /\ p.serial = command[c].serial
<1> DEFINE p == [command[c] EXCEPT !.pc = pc]
<1>1. p.pc = pc /\ p.op = command[c].op /\ p.name = command[c].name
      /\ p.serial = command[c].serial
  BY DEF IInv, TypesOK, Command
<1>2. command' = [command EXCEPT ![c] = p]
  BY Moved DEF Step
<1> HIDE DEF p
<1> QED
  BY <1>1, <1>2

\* A step of an issue before its row.
LEMMA IssuingStep ==
  ASSUME IInv, AllRevoked, RowsKept, NEW c \in Commands, NEW p,
         command' = [command EXCEPT ![c] = p],
         \/ p.pc \in Issuing /\ p.op = "issued"
         \/ p.pc = "update" /\ p.op = "revoked"
         \/ p.pc \in {"failed", "killed"}
  PROVE  AllRevoked'
<1>1. RevokedOK(p, certificates')
  BY DEF RevokedOK, Issuing
<1> QED
  BY <1>1, RevokedStep

LEMMA RevokeRevoked ==
  ASSUME IInv, SerialsOK, AllRevoked, RowsKept, NEW c \in Commands, Revoke(c)
  PROVE  AllRevoked'
<1> DEFINE s == command[c].serial
           n == command[c].name
           row == [certificates[s] EXCEPT !.status = "revoked"]
<1>1. /\ command[c].pc = "update" /\ s \in Serials /\ SignedFor(s, n, signed)
      /\ command[c].op = "revoked"
  BY DEF Revoke, At, IInv, ProcessOK, AllRevoked, RevokedOK
<1>2. CASE SetRevoked(s) /\ Step(c, "log")
  <2>1. certificates[s] # NoRow /\ certificates[s] \in Row
    BY <1>1, <1>2 DEF SetRevoked, IInv, TypesOK
  <2>2. row.cn = certificates[s].cn /\ row.status = "revoked" /\ row \in Row
    BY <2>1 DEF Row
  <2>3. certificates' = [certificates EXCEPT ![s] = row]
    BY <1>2 DEF SetRevoked
  <2> HIDE DEF row
  <2>4. certificates'[s] = row /\ row # NoRow
    BY <1>1, <2>2, <2>3, NoRowAssumption DEF IInv, TypesOK
  <2>5. certificates[s].cn = n
    BY <1>1, <2>1 DEF SerialsOK, IInv, SignedFor
  <2>6. PICK p : /\ command' = [command EXCEPT ![c] = p]
                 /\ p.pc = "log" /\ p.op = command[c].op
                 /\ p.name = n /\ p.serial = s
    BY <1>2, StepFields
  <2>7. RevokedOK(p, certificates')
    BY <1>1, <2>2, <2>4, <2>5, <2>6 DEF RevokedOK, Issuing
  <2> QED
    BY <2>6, <2>7, RevokedStep
<1>3. CASE Exit(c)
  BY <1>3, StepFields, IssuingStep DEF Exit
<1> QED
  BY <1>2, <1>3 DEF Revoke

LEMMA LogRevoked ==
  ASSUME IInv, AllRevoked, RowsKept, NEW c \in Commands, LogCommand(c)
  PROVE  AllRevoked'
<1>1. command[c].pc = "log" /\ certificates' = certificates
  BY DEF LogCommand, At, tables
<1>2. CASE Step(c, "ok")
  <2>1. PICK p : /\ command' = [command EXCEPT ![c] = p]
                 /\ p.pc = "ok" /\ p.op = command[c].op
                 /\ p.name = command[c].name /\ p.serial = command[c].serial
    BY <1>2, StepFields
  <2>2. RevokedOK(command[c], certificates)
    BY DEF AllRevoked
  <2>3. RevokedOK(p, certificates')
    BY <1>1, <2>1, <2>2 DEF RevokedOK, Issuing
  <2> QED
    BY <2>1, <2>3, RevokedStep
<1>3. CASE Exit(c)
  BY <1>3, StepFields, IssuingStep DEF Exit
<1> QED
  BY <1>2, <1>3 DEF LogCommand

LEMMA RecordRevoked ==
  ASSUME IInv, AllRevoked, RowsKept, NEW c \in Commands, RecordIssued(c)
  PROVE  AllRevoked'
<1>1. command[c].op = "issued"
  BY DEF RecordIssued, At, AllRevoked, RevokedOK, Issuing
<1>2. CASE Step(c, "log")
  <2>1. PICK p : command' = [command EXCEPT ![c] = p] /\ p.pc = "log"
                 /\ p.op = command[c].op
    BY <1>2, StepFields
  <2>2. RevokedOK(p, certificates')
    BY <1>1, <2>1 DEF RevokedOK, Issuing
  <2> QED
    BY <2>1, <2>2, RevokedStep
<1>3. CASE Exit(c)
  BY <1>3, StepFields, IssuingStep DEF Exit
<1> QED
  BY <1>2, <1>3 DEF RecordIssued

LEMMA StepRevoked ==
  ASSUME IInv, SerialsOK, AllRevoked, [Next]_vars
  PROVE  AllRevoked'
<1>1. RowsKept /\ command \in [Commands -> Command]
  BY StepRows DEF IInv, TypesOK
<1>2. CASE UNCHANGED vars
  BY <1>2 DEF vars, AllRevoked
<1>3. ASSUME NEW c \in Commands, NEW n \in Names, GenerateKey(c, n)
      PROVE  AllRevoked'
  <2> DEFINE p == [Idle EXCEPT !.pc = "req", !.op = "issued", !.name = n]
  <2>1. p.pc = "req" /\ p.op = "issued"
    BY DEF Idle
  <2>2. command' = [command EXCEPT ![c] = p]
    BY <1>3 DEF GenerateKey, Begin
  <2> HIDE DEF p
  <2> QED
    BY <1>1, <2>1, <2>2, IssuingStep DEF Issuing
<1>4. ASSUME NEW c \in Commands, NEW n \in Names, LookUp(c, n)
      PROVE  AllRevoked'
  <2>1. \A f \in BOOLEAN : \A s :
          /\ Revoking(n, f, s).pc = IF f THEN "update" ELSE "failed"
          /\ Revoking(n, f, s).op = "revoked"
    BY DEF Revoking, Idle
  <2>2. PICK f \in BOOLEAN :
          \E s : command' = [command EXCEPT ![c] = Revoking(n, f, s)]
    BY <1>4 DEF LookUp, Begin
  <2>3. PICK s : command' = [command EXCEPT ![c] = Revoking(n, f, s)]
    BY <2>2
  <2> QED
    BY <1>1, <2>1, <2>3, IssuingStep
<1>5. ASSUME NEW c \in Commands,
             RequestCertificate(c) \/ Sign(c) \/ RemoveRequest(c) \/ Kill(c)
      PROVE  AllRevoked'
  <2>1. PICK pc \in {"x509", "rm", "meta", "killed"} :
          Step(c, pc) /\ (pc # "killed" => command[c].pc \in Issuing)
    BY <1>5 DEF RequestCertificate, Sign, RemoveRequest, Kill, At, Issuing
  <2>2. PICK p : command' = [command EXCEPT ![c] = p] /\ p.pc = pc
                 /\ p.op = command[c].op
    BY <2>1, StepFields
  <2>3. pc # "killed" => pc \in Issuing /\ command[c].op = "issued"
    BY <2>1 DEF Issuing, AllRevoked, RevokedOK
  <2> QED
    BY <1>1, <2>1, <2>2, <2>3, IssuingStep
<1>6. ASSUME NEW c \in Commands, ReadRequest(c) PROVE AllRevoked'
  <2>1. CASE Exit(c)
    BY <1>1, <2>1, StepFields, IssuingStep DEF Exit
  <2>2. CASE command' = [command EXCEPT ![c] =
               [@ EXCEPT !.pc = "sign", !.key = csrs[command[c].name], !.serial = srl + 1]]
    <3> DEFINE p == [command[c] EXCEPT !.pc = "sign",
                       !.key = csrs[command[c].name], !.serial = srl + 1]
    <3>1. p.pc = "sign" /\ p.op = command[c].op
      BY <1>1 DEF Command
    <3>2. command' = [command EXCEPT ![c] = p] /\ command[c].op = "issued"
      BY <1>6, <2>2 DEF ReadRequest, At, AllRevoked, RevokedOK, Issuing
    <3> HIDE DEF p
    <3> QED
      BY <1>1, <3>1, <3>2, IssuingStep DEF Issuing
  <2> QED
    BY <1>6, <2>1, <2>2 DEF ReadRequest
<1>7. ASSUME NEW c \in Commands, ReadMeta(c) PROVE AllRevoked'
  <2> DEFINE p == [command[c] EXCEPT !.pc = "pem",
                     !.serial = crts[command[c].name].serial]
  <2>1. p.pc = "pem" /\ p.op = command[c].op
    BY <1>1 DEF Command
  <2>2. command' = [command EXCEPT ![c] = p] /\ command[c].op = "issued"
    BY <1>7 DEF ReadMeta, At, AllRevoked, RevokedOK, Issuing
  <2> HIDE DEF p
  <2> QED
    BY <1>1, <2>1, <2>2, IssuingStep DEF Issuing
<1>8. ASSUME NEW c \in Commands, ReadPem(c) PROVE AllRevoked'
  <2> DEFINE p == [command[c] EXCEPT !.pc = "record", !.pem = crts[command[c].name]]
  <2>1. p.pc = "record" /\ p.op = command[c].op
    BY <1>1 DEF Command
  <2>2. command' = [command EXCEPT ![c] = p] /\ command[c].op = "issued"
    BY <1>8 DEF ReadPem, At, AllRevoked, RevokedOK, Issuing
  <2> HIDE DEF p
  <2> QED
    BY <1>1, <2>1, <2>2, IssuingStep DEF Issuing
<1>9. ASSUME NEW c \in Commands, RecordIssued(c) \/ Revoke(c) \/ LogCommand(c)
      PROVE  AllRevoked'
  BY <1>1, <1>9, RecordRevoked, RevokeRevoked, LogRevoked
<1> QED
  BY <1>2, <1>3, <1>4, <1>5, <1>6, <1>7, <1>8, <1>9 DEF Next

LEMMA InitRevoked == Init => AllRevoked
BY DEF Init, Idle, AllRevoked, RevokedOK, Issuing

LEMMA RevokesOwn == AllRevoked => RevokesItsOwn
BY DEF AllRevoked, RevokedOK, RevokesItsOwn, RowStatus, At

\* A revocation by name that reported success has revoked a certificate of that
\* name, never another device's, whatever overlaps but two signatures: it is the
\* fresh serials alone that it needs, no lock on the directory it looks into.
THEOREM RevokedOwnInOrder == Spec /\ []SignaturesInOrder => []RevokesItsOwn
<1>1. IInv /\ SerialsOK /\ AllRevoked /\ [Next]_vars => AllRevoked'
  BY StepRevoked
<1> QED
  BY <1>1, InitRevoked, RevokesOwn, SerialsInvariance, Invariance, PTL DEF Spec

\* The row of a certificate that stands in no file of a name and that no process
\* is about to revoke: one that a certificate of the same name has replaced.
Superseded(s) ==
  /\ certificates[s] # NoRow
  /\ certificates[s].status = "issued"
  /\ \A n \in Names : crts[n] # None => crts[n].serial # s
  /\ \A c \in Commands : At(c, "update") => command[c].serial # s

\* A process about to revoke was so before, or has just looked up a name.
LEMMA AboutToRevoke ==
  ASSUME IInv, [Next]_vars, NEW d \in Commands, command'[d].pc = "update"
  PROVE  \/ command'[d] = command[d]
         \/ \E n \in Names : crts[n] # None /\ command'[d].serial = crts[n].serial
<1>1. command \in [Commands -> Command]
  BY DEF IInv, TypesOK
<1>2. CASE UNCHANGED vars
  BY <1>2 DEF vars
<1>3. ASSUME NEW c \in Commands, NEW n \in Names, GenerateKey(c, n)
      PROVE  command'[d] = command[d]
  BY <1>1, <1>3 DEF GenerateKey, Begin, Idle
<1>4. ASSUME NEW c \in Commands, NEW n \in Names, LookUp(c, n)
      PROVE  \/ command'[d] = command[d]
             \/ crts[n] # None /\ command'[d].serial = crts[n].serial
  BY <1>1, <1>4 DEF LookUp, Begin, Revoking, Idle
<1>5. ASSUME NEW c \in Commands,
             \/ RequestCertificate(c) \/ Sign(c) \/ RemoveRequest(c)
             \/ RecordIssued(c) \/ Revoke(c) \/ LogCommand(c) \/ Kill(c)
      PROVE  command'[d] = command[d]
  <2>1. PICK pc \in {"x509", "rm", "meta", "log", "ok", "failed", "killed"} :
          Step(c, pc)
    BY <1>5 DEF RequestCertificate, Sign, RemoveRequest, RecordIssued, Revoke,
                LogCommand, Kill, Exit
  <2> QED
    BY <1>1, <2>1 DEF Step, Command
<1>6. ASSUME NEW c \in Commands, ReadRequest(c)
      PROVE  command'[d] = command[d]
  BY <1>1, <1>6 DEF ReadRequest, Exit, Step, Command
<1>7. ASSUME NEW c \in Commands, ReadMeta(c) \/ ReadPem(c)
      PROVE  command'[d] = command[d]
  BY <1>1, <1>7 DEF ReadMeta, ReadPem, Command
<1> QED
  BY <1>2, <1>3, <1>4, <1>5, <1>6, <1>7 DEF Next

LEMMA SupersededStep ==
  ASSUME IInv, SerialsOK, SignaturesInOrder, [Next]_vars,
         NEW s \in Serials, Superseded(s)
  PROVE  Superseded(s)'
<1>1. certificates'[s] = certificates[s]
  <2>1. ASSUME NEW c \in Commands, RecordIssued(c)
        PROVE  certificates'[s] = certificates[s]
    BY <2>1 DEF RecordIssued, InsertCertificate, tables, Superseded, IInv, TypesOK
  <2>2. ASSUME NEW c \in Commands, Revoke(c)
        PROVE  certificates'[s] = certificates[s]
    <3>1. command[c].serial # s
      BY <2>2 DEF Revoke, Superseded
    <3> QED
      BY <2>2, <3>1 DEF Revoke, SetRevoked, IInv, TypesOK
  <2>3. CASE UNCHANGED certificates
    BY <2>3
  <2>4. \/ \E c \in Commands : RecordIssued(c) \/ Revoke(c)
        \/ UNCHANGED certificates
    BY DEF Next, vars, tables, GenerateKey, LookUp, RequestCertificate,
           ReadRequest, Sign, RemoveRequest, ReadMeta, ReadPem, LogCommand, Kill
  <2> QED
    BY <2>1, <2>2, <2>3, <2>4
<1>2. ASSUME NEW n \in Names, crts'[n] # None
      PROVE  crts'[n].serial # s
  <2>1. ASSUME NEW c \in Commands, Sign(c)
        PROVE  crts'[n].serial # s
    <3> DEFINE crt == [serial |-> command[c].serial, cn |-> command[c].name,
                       key |-> command[c].key]
    <3>1. crt.serial = srl + 1
      BY <2>1 DEF Sign, SignaturesInOrder, At
    <3>2. s <= srl
      BY DEF Superseded, IInv, SignedFor, SerialsOK
    <3>3. srl \in Nat /\ s \in Nat
      BY SerialsType DEF IInv, TypesOK
    <3>4. crts' = [crts EXCEPT ![command[c].name] = crt]
      BY <2>1 DEF Sign
    <3> HIDE DEF crt
    <3>5. crt.serial # s
      BY <3>1, <3>2, <3>3
    <3>6. crts'[n] = crt \/ crts'[n] = crts[n]
      BY <3>4 DEF IInv, TypesOK
    <3> QED
      BY <1>2, <3>5, <3>6 DEF Superseded
  <2>2. CASE UNCHANGED crts
    BY <1>2, <2>2 DEF Superseded
  <2>3. (\E c \in Commands : Sign(c)) \/ UNCHANGED crts
    BY DEF Next, vars, files, GenerateKey, LookUp, RequestCertificate, ReadRequest,
           RemoveRequest, ReadMeta, ReadPem, RecordIssued, Revoke, LogCommand, Kill
  <2> QED
    BY <2>1, <2>2, <2>3
<1>3. ASSUME NEW c \in Commands, command'[c].pc = "update"
      PROVE  command'[c].serial # s
  BY <1>3, AboutToRevoke DEF Superseded, At
<1> QED
  BY <1>1, <1>2, <1>3 DEF Superseded, At

\* What a reissue has replaced stays issued for ever: no certctl revoke reaches
\* it any more, because it is found by the file of the name alone.  CheckAuth
\* goes on accepting it until it expires, or the name is blacklisted.
THEOREM SupersededStays ==
  Spec /\ []SignaturesInOrder =>
    [][\A s \in Serials : Superseded(s) => Superseded(s)']_vars
<1>1. IInv /\ SerialsOK /\ SignaturesInOrder /\ [Next]_vars =>
        [\A s \in Serials : Superseded(s) => Superseded(s)']_vars
  BY SupersededStep
<1> QED
  BY <1>1, SerialsInvariance, Invariance, PTL DEF Spec

-----------------------------------------------------------------------------
(* The row and the pair of files of an issue.                              *)

\* A row is the row of the certificate in its cert_pem.
RowsOK ==
  \A s \in Serials : certificates[s] # NoRow =>
    /\ pems[s] \in signed
    /\ pems[s].serial = s
    /\ pems[s].cn = certificates[s].cn

\* An issue under way owns the files of its name: the key K, the request R and
\* the certificate X are its own.
IssueOK(c, p, K, R, X) ==
  /\ p.pc \in Issuing => p.op = "issued" /\ K[p.name] = c
  /\ p.pc = "x509" => R[p.name] = c
  /\ p.pc = "sign" => p.key = c
  /\ p.pc \in {"rm", "meta", "pem", "record"} =>
       X[p.name] # None /\ X[p.name].key = c
  /\ p.pc \in {"pem", "record"} => p.serial = X[p.name].serial
  /\ p.pc = "record" => p.pem = X[p.name]
  /\ p.pc = "update" => p.op = "revoked"

\* An issue whose row is in the table T and its certificate in the column P has
\* the pair of files it made, unless a later issue has replaced the key.
IssuedOK(c, p, K, X, T, P) ==
  p.op = "issued" /\ p.pc \in {"log", "ok"} /\ K[p.name] = c =>
    /\ X[p.name] # None /\ X[p.name].key = c
    /\ T[X[p.name].serial] # NoRow
    /\ P[X[p.name].serial] = X[p.name]

DoingOK(c, p, K, R, X, T, P) == IssueOK(c, p, K, R, X) /\ IssuedOK(c, p, K, X, T, P)

AllDoing ==
  \A c \in Commands : DoingOK(c, command[c], keys, csrs, crts, certificates, pems)

\* What holds, on top of IInv, as long as no two issues for a name overlap and
\* the signatures are in order.
WorkOK == SerialsOK /\ RowsOK /\ AllDoing

LEMMA InitWork == Init => WorkOK
<1> SUFFICES ASSUME Init PROVE WorkOK
  OBVIOUS
<1>1. \A c \in Commands : command[c].pc = "idle" /\ command[c].op = Blank
  BY DEF Init, Idle
<1>2. SerialsOK /\ RowsOK
  BY DEF Init, SerialsOK, RowsOK
<1>3. AllDoing
  BY <1>1 DEF AllDoing, DoingOK, IssueOK, IssuedOK, Issuing
<1> QED
  BY <1>2, <1>3 DEF WorkOK

\* The process c steps: the keys it changes become its own, the files another is
\* at work on stay as they are, and so does every row.
LEMMA WorkStep ==
  ASSUME IInv, WorkOK, RowsKept, NEW c \in Commands, NEW p,
         command' = [command EXCEPT ![c] = p],
         \A n \in Names : keys'[n] # c => keys'[n] = keys[n] /\ crts'[n] = crts[n],
         \A d \in Commands \ {c} : command[d].pc \in Issuing =>
           /\ keys'[command[d].name] = keys[command[d].name]
           /\ csrs'[command[d].name] = csrs[command[d].name]
           /\ crts'[command[d].name] = crts[command[d].name],
         SerialsOK', RowsOK',
         DoingOK(c, p, keys', csrs', crts', certificates', pems')
  PROVE  WorkOK'
<1>1. \A b \in Commands : command'[b] = IF b = c THEN p ELSE command[b]
  BY DEF IInv, TypesOK
<1>2. ASSUME NEW d \in Commands, d # c
      PROVE  DoingOK(d, command[d], keys', csrs', crts', certificates', pems')
  <2> DEFINE n == command[d].name
  <2>1. DoingOK(d, command[d], keys, csrs, crts, certificates, pems)
    BY DEF WorkOK, AllDoing
  <2>2. IssueOK(d, command[d], keys', csrs', crts')
    <3>1. CASE command[d].pc \in Issuing
      BY <1>2, <2>1, <3>1 DEF DoingOK, IssueOK, Issuing
    <3>2. CASE command[d].pc \notin Issuing
      BY <2>1, <3>2 DEF DoingOK, IssueOK, Issuing
    <3> QED
      BY <3>1, <3>2
  <2>3. ASSUME command[d].op = "issued", command[d].pc \in {"log", "ok"},
               keys'[n] = d
        PROVE  /\ crts'[n] # None /\ crts'[n].key = d
               /\ certificates'[crts'[n].serial] # NoRow
               /\ pems'[crts'[n].serial] = crts'[n]
    <3>1. n \in Names /\ keys[n] = d /\ crts'[n] = crts[n]
      BY <1>2, <2>3 DEF IInv, ProcessOK
    <3>2. /\ crts[n] # None /\ crts[n].key = d
          /\ certificates[crts[n].serial] # NoRow
          /\ pems[crts[n].serial] = crts[n]
      BY <2>1, <2>3, <3>1 DEF DoingOK, IssuedOK
    <3>3. crts[n].serial \in Serials
      BY <3>1, <3>2 DEF IInv, TypesOK, Certificate
    <3> QED
      BY <3>1, <3>2, <3>3 DEF RowsKept
  <2>4. IssuedOK(d, command[d], keys', crts', certificates', pems')
    BY <2>3 DEF IssuedOK
  <2> QED
    BY <2>2, <2>4 DEF DoingOK
<1>3. AllDoing'
  BY <1>1, <1>2 DEF AllDoing
<1> QED
  BY <1>3 DEF WorkOK

\* The same of a step that leaves the certificates alone.
LEMMA WorkLocal ==
  ASSUME IInv, WorkOK, NEW c \in Commands, NEW p,
         command' = [command EXCEPT ![c] = p],
         \A n \in Names : keys'[n] # c => keys'[n] = keys[n],
         \A d \in Commands \ {c} : command[d].pc \in Issuing =>
           /\ keys'[command[d].name] = keys[command[d].name]
           /\ csrs'[command[d].name] = csrs[command[d].name],
         UNCHANGED <<crts, srl, signed, certificates, pems>>,
         DoingOK(c, p, keys', csrs', crts, certificates, pems)
  PROVE  WorkOK'
<1>1. SerialsOK' /\ RowsOK' /\ RowsKept
  BY DEF WorkOK, SerialsOK, RowsOK, RowsKept
<1>2. DoingOK(c, p, keys', csrs', crts', certificates', pems')
  OBVIOUS
<1> QED
  BY <1>1, <1>2, WorkStep

\* The other processes at work are so on other names.
LEMMA OtherNames ==
  ASSUME IInv, OnePerName', NEW c \in Commands, NEW p,
         command' = [command EXCEPT ![c] = p], p.pc \in Issuing
  PROVE  \A d \in Commands \ {c} : command[d].pc \in Issuing =>
           command[d].name \in Names /\ command[d].name # p.name
<1>1. \A b \in Commands : command'[b] = IF b = c THEN p ELSE command[b]
  BY DEF IInv, TypesOK
<1>2. \A d \in Commands : command[d].pc \in Issuing => command[d].name \in Names
  BY DEF IInv, ProcessOK, Issuing
<1> QED
  BY <1>1, <1>2 DEF OnePerName

\* A process that ends with the locals it has, and is not successful.
LEMMA EndWork ==
  ASSUME IInv, WorkOK, NEW c \in Commands, NEW pc \in {"failed", "killed"},
         Step(c, pc), UNCHANGED <<files, certificates, pems, signed>>
  PROVE  WorkOK'
<1>1. PICK p : command' = [command EXCEPT ![c] = p] /\ p.pc = pc
  BY StepFields
<1>2. DoingOK(c, p, keys', csrs', crts, certificates, pems)
  BY <1>1 DEF DoingOK, IssueOK, IssuedOK, Issuing
<1> QED
  BY <1>1, <1>2, WorkLocal DEF files

LEMMA GenerateKeyWork ==
  ASSUME IInv, WorkOK, OnePerName', NEW c \in Commands, NEW n \in Names,
         GenerateKey(c, n)
  PROVE  WorkOK'
<1> DEFINE p == [Idle EXCEPT !.pc = "req", !.op = "issued", !.name = n]
<1>1. p.pc = "req" /\ p.name = n /\ p.op = "issued"
  BY DEF Idle
<1>2. /\ command' = [command EXCEPT ![c] = p]
      /\ keys' = [keys EXCEPT ![n] = c]
      /\ UNCHANGED <<csrs, crts, srl, signed, certificates, pems>>
  BY DEF GenerateKey, Begin, tables
<1> HIDE DEF p
<1>3. \A m \in Names : keys'[m] = IF m = n THEN c ELSE keys[m]
  BY <1>2 DEF IInv, TypesOK
<1>4. DoingOK(c, p, keys', csrs', crts, certificates, pems)
  BY <1>1, <1>3 DEF DoingOK, IssueOK, IssuedOK, Issuing
<1>5. \A d \in Commands \ {c} : command[d].pc \in Issuing =>
        command[d].name \in Names /\ command[d].name # n
  BY <1>1, <1>2, OtherNames DEF Issuing
<1> QED
  BY <1>2, <1>3, <1>4, <1>5, WorkLocal

LEMMA LookUpWork ==
  ASSUME IInv, WorkOK, NEW c \in Commands, NEW n \in Names, LookUp(c, n)
  PROVE  WorkOK'
<1>1. \A f \in BOOLEAN : \A s :
        /\ Revoking(n, f, s).pc = IF f THEN "update" ELSE "failed"
        /\ Revoking(n, f, s).op = "revoked"
  BY DEF Revoking, Idle
<1>2. PICK f \in BOOLEAN :
        \E s : command' = [command EXCEPT ![c] = Revoking(n, f, s)]
  BY DEF LookUp, Begin
<1>3. PICK s : command' = [command EXCEPT ![c] = Revoking(n, f, s)]
  BY <1>2
<1>4. UNCHANGED <<keys, csrs, crts, srl, signed, certificates, pems>>
  BY DEF LookUp, files, tables
<1>5. DoingOK(c, Revoking(n, f, s), keys', csrs', crts, certificates, pems)
  BY <1>1 DEF DoingOK, IssueOK, IssuedOK, Issuing
<1> QED
  BY <1>3, <1>4, <1>5, WorkLocal

\* What AllDoing says of a process that is issuing.
LEMMA OwnFiles ==
  ASSUME IInv, WorkOK, NEW c \in Commands, command[c].pc \in Issuing
  PROVE  /\ command[c].name \in Names
         /\ IssueOK(c, command[c], keys, csrs, crts)
         /\ command[c].op = "issued" /\ keys[command[c].name] = c
<1>1. command[c].name \in Names
  BY DEF IInv, ProcessOK, Issuing
<1>2. IssueOK(c, command[c], keys, csrs, crts)
  BY DEF WorkOK, AllDoing, DoingOK
<1> QED
  BY <1>1, <1>2 DEF IssueOK

LEMMA RequestCertificateWork ==
  ASSUME IInv, WorkOK, OnePerName', NEW c \in Commands, RequestCertificate(c)
  PROVE  WorkOK'
<1> DEFINE n == command[c].name
<1>1. command[c].pc = "req"
  BY DEF RequestCertificate, At
<1>2. n \in Names /\ command[c].op = "issued" /\ keys[n] = c
  BY <1>1, OwnFiles DEF Issuing
<1>3. PICK p : /\ command' = [command EXCEPT ![c] = p]
               /\ p.pc = "x509" /\ p.name = n /\ p.op = "issued"
  BY <1>2, StepFields DEF RequestCertificate
<1>4. /\ \A m \in Names : csrs'[m] = IF m = n THEN c ELSE csrs[m]
      /\ UNCHANGED <<keys, crts, srl, signed, certificates, pems>>
  BY <1>2 DEF RequestCertificate, IInv, TypesOK, tables, history
<1>5. DoingOK(c, p, keys', csrs', crts, certificates, pems)
  BY <1>2, <1>3, <1>4 DEF DoingOK, IssueOK, IssuedOK, Issuing
<1>6. \A d \in Commands \ {c} : command[d].pc \in Issuing =>
        command[d].name \in Names /\ command[d].name # n
  <2>1. p.pc \in Issuing
    BY <1>3 DEF Issuing
  <2> QED
    BY <1>3, <2>1, OtherNames
<1> HIDE DEF n
<1> QED
  BY <1>3, <1>4, <1>5, <1>6, WorkLocal

LEMMA ReadRequestWork ==
  ASSUME IInv, WorkOK, NEW c \in Commands, ReadRequest(c)
  PROVE  WorkOK'
<1> DEFINE n == command[c].name
           p == [command[c] EXCEPT !.pc = "sign", !.key = csrs[n], !.serial = srl + 1]
<1>1. command[c].pc = "x509" /\ UNCHANGED <<files, certificates, pems, history>>
  BY DEF ReadRequest, At, tables
<1>2. command[c].op = "issued" /\ keys[n] = c /\ csrs[n] = c
  BY <1>1, OwnFiles DEF IssueOK, Issuing
<1>3. CASE csrs[n] = None
  BY <1>1, <1>3, EndWork DEF ReadRequest, Exit, history
<1>4. CASE csrs[n] # None
  <2>1. p.pc = "sign" /\ p.name = n /\ p.key = csrs[n] /\ p.op = command[c].op
    BY DEF IInv, TypesOK, Command
  <2>2. command' = [command EXCEPT ![c] = p]
    BY <1>4 DEF ReadRequest
  <2> HIDE DEF p
  <2>3. DoingOK(c, p, keys', csrs', crts, certificates, pems)
    BY <1>1, <1>2, <2>1 DEF DoingOK, IssueOK, IssuedOK, Issuing, files
  <2> QED
    BY <1>1, <2>2, <2>3, WorkLocal DEF files, history
<1> QED
  BY <1>3, <1>4

LEMMA SignWork ==
  ASSUME IInv, WorkOK, SerialsOK', OnePerName', NEW c \in Commands, Sign(c)
  PROVE  WorkOK'
<1> DEFINE n == command[c].name
           crt == [serial |-> command[c].serial, cn |-> n, key |-> command[c].key]
<1>1. command[c].pc = "sign" /\ command[c].serial \in Serials
  BY DEF Sign, At, IInv, ProcessOK
<1>2. /\ n \in Names /\ command[c].op = "issued" /\ keys[n] = c
      /\ command[c].key = c
  BY <1>1, OwnFiles DEF IssueOK, Issuing
<1>3. crt \in Certificate /\ crt.key = c
  BY <1>1, <1>2 DEF Certificate
<1>4. /\ crts' = [crts EXCEPT ![n] = crt]
      /\ signed' = signed \cup {crt}
      /\ UNCHANGED <<keys, csrs, certificates, pems, alone>>
  BY DEF Sign, tables
<1>5. PICK p : /\ command' = [command EXCEPT ![c] = p]
               /\ p.pc = "rm" /\ p.name = n /\ p.op = "issued"
  BY <1>2, StepFields DEF Sign
<1>6. \A d \in Commands \ {c} : command[d].pc \in Issuing =>
        command[d].name \in Names /\ command[d].name # n
  <2>1. p.pc \in Issuing
    BY <1>5 DEF Issuing
  <2> QED
    BY <1>5, <2>1, OtherNames
<1> HIDE DEF crt, n
<1>7. \A m \in Names : crts'[m] = IF m = n THEN crt ELSE crts[m]
  BY <1>4 DEF IInv, TypesOK
<1>8. RowsOK' /\ RowsKept
  BY <1>4 DEF WorkOK, RowsOK, RowsKept
<1>9. DoingOK(c, p, keys', csrs', crts', certificates', pems')
  <2>1. crts'[n] # None /\ crts'[n].key = c
    BY <1>2, <1>3, <1>7, NoneAssumption
  <2> QED
    BY <1>2, <1>4, <1>5, <2>1 DEF DoingOK, IssueOK, IssuedOK, Issuing
<1>10. \A m \in Names : keys'[m] # c => keys'[m] = keys[m] /\ crts'[m] = crts[m]
  BY <1>2, <1>4, <1>7
<1>11. \A d \in Commands \ {c} : command[d].pc \in Issuing =>
         /\ keys'[command[d].name] = keys[command[d].name]
         /\ csrs'[command[d].name] = csrs[command[d].name]
         /\ crts'[command[d].name] = crts[command[d].name]
  BY <1>4, <1>6, <1>7
<1> QED
  BY <1>5, <1>8, <1>9, <1>10, <1>11, WorkStep

LEMMA RemoveRequestWork ==
  ASSUME IInv, WorkOK, OnePerName', NEW c \in Commands, RemoveRequest(c)
  PROVE  WorkOK'
<1> DEFINE n == command[c].name
<1>1. command[c].pc = "rm"
  BY DEF RemoveRequest, At
<1>2. /\ n \in Names /\ command[c].op = "issued" /\ keys[n] = c
      /\ crts[n] # None /\ crts[n].key = c
  BY <1>1, OwnFiles DEF IssueOK, Issuing
<1>3. PICK p : /\ command' = [command EXCEPT ![c] = p]
               /\ p.pc = "meta" /\ p.name = n /\ p.op = "issued"
  BY <1>2, StepFields DEF RemoveRequest
<1>4. /\ \A m \in Names : csrs'[m] = IF m = n THEN None ELSE csrs[m]
      /\ UNCHANGED <<keys, crts, srl, signed, certificates, pems>>
  BY <1>2 DEF RemoveRequest, IInv, TypesOK, tables, history
<1>5. DoingOK(c, p, keys', csrs', crts, certificates, pems)
  BY <1>2, <1>3, <1>4 DEF DoingOK, IssueOK, IssuedOK, Issuing
<1>6. \A d \in Commands \ {c} : command[d].pc \in Issuing =>
        command[d].name \in Names /\ command[d].name # n
  <2>1. p.pc \in Issuing
    BY <1>3 DEF Issuing
  <2> QED
    BY <1>3, <2>1, OtherNames
<1> HIDE DEF n
<1> QED
  BY <1>3, <1>4, <1>5, <1>6, WorkLocal

LEMMA ReadMetaWork ==
  ASSUME IInv, WorkOK, NEW c \in Commands, ReadMeta(c)
  PROVE  WorkOK'
<1> DEFINE n == command[c].name
           p == [command[c] EXCEPT !.pc = "pem", !.serial = crts[n].serial]
<1>1. command[c].pc = "meta" /\ UNCHANGED <<files, certificates, pems, history>>
  BY DEF ReadMeta, At, tables
<1>2. /\ command[c].op = "issued" /\ keys[n] = c
      /\ crts[n] # None /\ crts[n].key = c
  BY <1>1, OwnFiles DEF IssueOK, Issuing
<1>3. p.pc = "pem" /\ p.name = n /\ p.serial = crts[n].serial /\ p.op = "issued"
  BY <1>2 DEF IInv, TypesOK, Command
<1>4. command' = [command EXCEPT ![c] = p]
  BY DEF ReadMeta
<1> HIDE DEF p
<1>5. DoingOK(c, p, keys', csrs', crts, certificates, pems)
  BY <1>1, <1>2, <1>3 DEF DoingOK, IssueOK, IssuedOK, Issuing, files
<1> QED
  BY <1>1, <1>4, <1>5, WorkLocal DEF files, history

LEMMA ReadPemWork ==
  ASSUME IInv, WorkOK, NEW c \in Commands, ReadPem(c)
  PROVE  WorkOK'
<1> DEFINE n == command[c].name
           p == [command[c] EXCEPT !.pc = "record", !.pem = crts[n]]
<1>1. command[c].pc = "pem" /\ UNCHANGED <<files, certificates, pems, history>>
  BY DEF ReadPem, At, tables
<1>2. /\ command[c].op = "issued" /\ keys[n] = c
      /\ crts[n] # None /\ crts[n].key = c /\ command[c].serial = crts[n].serial
  BY <1>1, OwnFiles DEF IssueOK, Issuing
<1>3. /\ p.pc = "record" /\ p.name = n /\ p.op = "issued"
      /\ p.serial = crts[n].serial /\ p.pem = crts[n]
  BY <1>2 DEF IInv, TypesOK, Command
<1>4. command' = [command EXCEPT ![c] = p]
  BY DEF ReadPem
<1> HIDE DEF p
<1>5. DoingOK(c, p, keys', csrs', crts, certificates, pems)
  BY <1>1, <1>2, <1>3 DEF DoingOK, IssueOK, IssuedOK, Issuing, files
<1> QED
  BY <1>1, <1>4, <1>5, WorkLocal DEF files, history

LEMMA RecordIssuedWork ==
  ASSUME IInv, WorkOK, RowsKept, NEW c \in Commands, RecordIssued(c)
  PROVE  WorkOK'
<1> DEFINE s == command[c].serial
           n == command[c].name
           row == [cn |-> n, expires |-> 0, status |-> "issued"]
<1>1. /\ command[c].pc = "record" /\ s \in Serials
      /\ UNCHANGED <<keys, csrs, crts, srl, signed>>
  BY DEF RecordIssued, At, IInv, ProcessOK, files, history
<1>2. /\ n \in Names /\ command[c].op = "issued" /\ keys[n] = c
      /\ crts[n] # None /\ crts[n].key = c
      /\ s = crts[n].serial /\ command[c].pem = crts[n]
  BY <1>1, OwnFiles DEF IssueOK, Issuing
<1>3. CASE /\ InsertCertificate(s, n, 0)
           /\ pems' = [pems EXCEPT ![s] = command[c].pem]
           /\ Step(c, "log")
  <2>1. row.cn = n /\ row \in Row
    BY <1>2 DEF Row
  <2>2. certificates' = [certificates EXCEPT ![s] = row]
    BY <1>3 DEF InsertCertificate
  <2>3. PICK p : /\ command' = [command EXCEPT ![c] = p]
                 /\ p.pc = "log" /\ p.name = n
    BY <1>3, StepFields
  <2> HIDE DEF row
  <2>4. \A t \in Serials :
          /\ certificates'[t] = IF t = s THEN row ELSE certificates[t]
          /\ pems'[t] = IF t = s THEN crts[n] ELSE pems[t]
    BY <1>1, <1>2, <1>3, <2>2 DEF IInv, TypesOK
  <2>5. SerialsOK'
    BY <1>1 DEF WorkOK, SerialsOK
  <2>6. crts[n] \in signed /\ crts[n].cn = n
    BY <1>2 DEF IInv, FileOK
  <2>7. RowsOK'
    BY <1>1, <1>2, <2>1, <2>4, <2>6 DEF WorkOK, RowsOK
  <2>8. certificates'[s] # NoRow /\ pems'[s] = crts[n]
    BY <1>1, <2>1, <2>4, NoRowAssumption
  <2>9. DoingOK(c, p, keys', csrs', crts', certificates', pems')
    BY <1>1, <1>2, <2>3, <2>8 DEF DoingOK, IssueOK, IssuedOK, Issuing
  <2> HIDE DEF s, n
  <2> QED
    BY <1>1, <2>3, <2>5, <2>7, <2>9, WorkStep
<1>4. CASE Exit(c) /\ UNCHANGED tables
  BY <1>1, <1>4, EndWork DEF Exit, tables, files
<1> QED
  BY <1>3, <1>4 DEF RecordIssued

LEMMA RevokeWork ==
  ASSUME IInv, WorkOK, RowsKept, NEW c \in Commands, Revoke(c)
  PROVE  WorkOK'
<1> DEFINE s == command[c].serial
           row == [certificates[s] EXCEPT !.status = "revoked"]
<1>1. /\ command[c].pc = "update" /\ s \in Serials /\ command[c].op = "revoked"
      /\ UNCHANGED <<keys, csrs, crts, srl, signed, pems>>
  BY DEF Revoke, At, IInv, ProcessOK, files, history, WorkOK, AllDoing, DoingOK,
         IssueOK
<1>2. CASE SetRevoked(s) /\ Step(c, "log")
  <2>1. certificates[s] # NoRow /\ certificates[s] \in Row
    BY <1>1, <1>2 DEF SetRevoked, IInv, TypesOK
  <2>2. row.cn = certificates[s].cn
    BY <2>1 DEF Row
  <2>3. certificates' = [certificates EXCEPT ![s] = row]
    BY <1>2 DEF SetRevoked
  <2> HIDE DEF row
  <2>4. \A t \in Serials : certificates'[t] = IF t = s THEN row ELSE certificates[t]
    BY <2>3 DEF IInv, TypesOK
  <2>5. SerialsOK' /\ RowsOK'
    BY <1>1, <2>1, <2>2, <2>4 DEF WorkOK, SerialsOK, RowsOK
  <2>6. PICK p : /\ command' = [command EXCEPT ![c] = p]
                 /\ p.pc = "log" /\ p.op = "revoked"
    BY <1>1, <1>2, StepFields
  <2>7. DoingOK(c, p, keys', csrs', crts', certificates', pems')
    BY <2>6 DEF DoingOK, IssueOK, IssuedOK, Issuing
  <2> QED
    BY <1>1, <2>5, <2>6, <2>7, WorkStep
<1>3. CASE Exit(c) /\ UNCHANGED certificates
  BY <1>1, <1>3, EndWork DEF Exit, files
<1> QED
  BY <1>2, <1>3 DEF Revoke

LEMMA LogCommandWork ==
  ASSUME IInv, WorkOK, NEW c \in Commands, LogCommand(c)
  PROVE  WorkOK'
<1>1. command[c].pc = "log" /\ UNCHANGED <<files, certificates, pems, history>>
  BY DEF LogCommand, At, tables
<1>2. CASE Step(c, "ok")
  <2>1. PICK p : /\ command' = [command EXCEPT ![c] = p]
                 /\ p.pc = "ok" /\ p.op = command[c].op
                 /\ p.name = command[c].name
    BY <1>2, StepFields
  <2>2. DoingOK(c, command[c], keys, csrs, crts, certificates, pems)
    BY DEF WorkOK, AllDoing
  <2>3. DoingOK(c, p, keys', csrs', crts, certificates, pems)
    BY <1>1, <2>1, <2>2 DEF DoingOK, IssueOK, IssuedOK, Issuing, files
  <2> QED
    BY <1>1, <2>1, <2>3, WorkLocal DEF files, history
<1>3. CASE Exit(c)
  BY <1>1, <1>3, EndWork DEF Exit, history
<1> QED
  BY <1>2, <1>3 DEF LogCommand

LEMMA KillWork ==
  ASSUME IInv, WorkOK, NEW c \in Commands, Kill(c)
  PROVE  WorkOK'
BY EndWork DEF Kill, tables, history

LEMMA NextWork ==
  ASSUME IInv, WorkOK, SignaturesInOrder, OnePerName', [Next]_vars
  PROVE  WorkOK'
<1>1. RowsKept /\ SerialsOK'
  BY StepRows, StepSerials DEF WorkOK
<1>2. CASE UNCHANGED vars
  BY <1>2 DEF vars, WorkOK, SerialsOK, RowsOK, AllDoing
<1>3. ASSUME NEW c \in Commands, NEW n \in Names, GenerateKey(c, n) \/ LookUp(c, n)
      PROVE  WorkOK'
  BY <1>3, GenerateKeyWork, LookUpWork
<1>4. ASSUME NEW c \in Commands,
             \/ RequestCertificate(c) \/ ReadRequest(c) \/ Sign(c)
             \/ RemoveRequest(c) \/ ReadMeta(c) \/ ReadPem(c)
             \/ RecordIssued(c) \/ Revoke(c) \/ LogCommand(c) \/ Kill(c)
      PROVE  WorkOK'
  BY <1>1, <1>4, RequestCertificateWork, ReadRequestWork, SignWork,
     RemoveRequestWork, ReadMetaWork, ReadPemWork, RecordIssuedWork, RevokeWork,
     LogCommandWork, KillWork
<1> QED
  BY <1>2, <1>3, <1>4 DEF Next

LEMMA WorkInvariance == Spec /\ []SignaturesInOrder /\ []OnePerName => []WorkOK
<1>1. IInv /\ WorkOK /\ SignaturesInOrder /\ OnePerName' /\ [Next]_vars => WorkOK'
  BY NextWork
<1> QED
  BY <1>1, InitWork, Invariance, PTL DEF Spec

LEMMA WorkIdentifies == IInv /\ WorkOK => RowsIdentify
BY DEF IInv, WorkOK, SerialsOK, RowsOK, RowsIdentify

LEMMA WorkPairs == IInv /\ WorkOK => PairsWork
<1> SUFFICES ASSUME IInv, WorkOK, NEW c \in Commands, At(c, "ok"),
                    command[c].op = "issued", keys[command[c].name] = c
             PROVE  /\ crts[command[c].name].key = c
                    /\ RowStatus(crts[command[c].name].serial) # "none"
                    /\ pems[crts[command[c].name].serial] = crts[command[c].name]
  BY DEF PairsWork
<1> DEFINE crt == crts[command[c].name]
<1>1. /\ crt # None /\ crt.key = c /\ certificates[crt.serial] # NoRow
      /\ pems[crt.serial] = crt
  BY DEF WorkOK, AllDoing, DoingOK, IssuedOK, At
<1>2. command[c].name \in Names
  BY DEF IInv, ProcessOK, At
<1>3. crt.serial \in Serials
  BY <1>1, <1>2 DEF IInv, TypesOK, Certificate
<1>4. certificates[crt.serial].status # "none"
  BY <1>1, <1>3 DEF IInv, TypesOK, Row
<1> QED
  BY <1>1, <1>4 DEF RowStatus

\* Two locks are all it takes, one on each name for the length of an issue and
\* one on the serial file for the length of a signature: then a row is the row of
\* one certificate, the one in its cert_pem, and a device is handed a key and a
\* certificate that belong together and are on record, although issues for other
\* names and revocations overlap and any process may be killed.
THEOREM LocksSuffice ==
  Spec /\ []SignaturesInOrder /\ []OnePerName => [](RowsIdentify /\ PairsWork)
<1>1. IInv /\ WorkOK => RowsIdentify /\ PairsWork
  BY WorkIdentifies, WorkPairs
<1> QED
  BY <1>1, WorkInvariance, Invariance, PTL

-----------------------------------------------------------------------------
(* While the processes run one after another.                              *)

\* At most one process is under way.
OneActive == \A c, d \in Active : c = d

\* What holds, on top of IInv, as long as no two processes overlap.
AInv == alone => OneActive /\ SignaturesInOrder /\ WorkOK /\ AllRevoked

LEMMA InitAlone == Init => AInv
<1>1. Init => OneActive /\ SignaturesInOrder
  BY DEF Init, Idle, OneActive, Active, SignaturesInOrder, At
<1> QED
  BY <1>1, InitWork, InitRevoked DEF AInv

\* A process begins while no other is under way, or none begins at all.
LEMMA ActiveStep ==
  ASSUME IInv, [Next]_vars, alone'
  PROVE  /\ alone
         /\ Active' \subseteq Active \/ \E c \in Commands : Active' \subseteq {c}
<1>1. command \in [Commands -> Command]
  BY DEF IInv, TypesOK
<1>2. CASE UNCHANGED vars
  BY <1>2 DEF vars, Active
<1>3. ASSUME NEW c \in Commands, NEW n \in Names, GenerateKey(c, n) \/ LookUp(c, n)
      PROVE  alone /\ Active' \subseteq {c}
  <2>1. alone /\ Active = {}
    BY <1>3 DEF GenerateKey, LookUp, Begin
  <2>2. \A d \in Commands \ {c} : command'[d] = command[d]
    BY <1>1, <1>3 DEF GenerateKey, LookUp, Begin
  <2> QED
    BY <2>1, <2>2 DEF Active
<1>4. ASSUME NEW c \in Commands,
             \/ RequestCertificate(c) \/ ReadRequest(c) \/ Sign(c)
             \/ RemoveRequest(c) \/ ReadMeta(c) \/ ReadPem(c)
             \/ RecordIssued(c) \/ Revoke(c) \/ LogCommand(c) \/ Kill(c)
      PROVE  alone /\ Active' \subseteq Active
  <2>1. alone
    BY <1>4 DEF RequestCertificate, ReadRequest, Sign, RemoveRequest, ReadMeta,
                ReadPem, RecordIssued, Revoke, LogCommand, Kill, history
  <2>2. c \in Active
    BY <1>4 DEF RequestCertificate, ReadRequest, Sign, RemoveRequest, ReadMeta,
                ReadPem, RecordIssued, Revoke, LogCommand, Kill, Active, At, Ended
  <2>3. \A d \in Commands \ {c} : command'[d] = command[d]
    BY <1>1, <1>4 DEF RequestCertificate, ReadRequest, Sign, RemoveRequest, ReadMeta,
                ReadPem, RecordIssued, Revoke, LogCommand, Kill, Step, Exit
  <2> QED
    BY <2>1, <2>2, <2>3 DEF Active
<1> QED
  BY <1>2, <1>3, <1>4 DEF Next

LEMMA NextAlone ==
  ASSUME IInv, AInv, [Next]_vars
  PROVE  AInv'
<1> SUFFICES ASSUME alone'
             PROVE  OneActive' /\ SignaturesInOrder' /\ WorkOK' /\ AllRevoked'
  BY DEF AInv
<1>1. OneActive /\ SignaturesInOrder /\ WorkOK /\ AllRevoked
  BY ActiveStep DEF AInv
<1>2. OneActive'
  BY <1>1, ActiveStep DEF OneActive
<1>3. OneSigner /\ OnePerName'
  BY <1>1, <1>2 DEF OneActive, Active, OneSigner, OnePerName, Issuing, At, Ended
<1> QED
  BY <1>1, <1>2, <1>3, StepInOrder, NextWork, StepRevoked DEF WorkOK

LEMMA AloneInvariance == Spec => [](IInv /\ AInv)
BY InitOK, InitAlone, NextOK, NextAlone, PTL DEF Spec

\* As long as the processes run one after another, whichever of them is killed,
\* the answer CheckAuth finds for a serial is about one certificate, the one in
\* the cert_pem of the row.
THEOREM RowIdentifies == Spec => []RowIsTheCertificate
<1>1. IInv /\ AInv => RowIsTheCertificate
  BY WorkIdentifies DEF AInv, RowsIdentify, RowIsTheCertificate
<1> QED
  BY <1>1, AloneInvariance, PTL

\* And the key and the certificate a device is handed by an issue that reported
\* success belong together, and the certificate is on record.
THEOREM PairWorks == Spec => []HandedOverPairWorks
<1>1. IInv /\ AInv => HandedOverPairWorks
  BY WorkPairs DEF AInv, PairsWork, HandedOverPairWorks
<1> QED
  BY <1>1, AloneInvariance, PTL

\* And a revocation by name that reported success has revoked a certificate of
\* that name, never another device's.
THEOREM RevokedItsOwn == Spec => []RevokedUnderItsName
<1>1. IInv /\ AInv => RevokedUnderItsName
  BY RevokesOwn DEF AInv, RevokesItsOwn, RevokedUnderItsName
<1> QED
  BY <1>1, AloneInvariance, PTL
=============================================================================
