--------------------------- MODULE LifecycleProofs ----------------------------
(* TLAPS proofs about ServerLifecycle, for any number of invocations, of    *)
(* scripts under way at a time and of processes killed.                     *)
EXTENDS ServerLifecycle, TLAPS

USE DEF Ended, Dead

ScriptPc ==
  Ended \cup {"idle", "wipe", "wipe data", "ensure ca", "init-ca", "genrsa",
              "write key", "chmod", "req", "ensure backend", "issue",
              "server genrsa", "write server key", "server req", "x509", "sign",
              "rm csr", "find", "fork", "pid file", "wait", "exec", "stop",
              "rm pid"}

ServerPc ==
  Dead \cup {"redirect", "open", "ca", "announce", "bind", "load", "serving", "dying"}

Script ==
  [pc : ScriptPc, op : {"none"} \cup DOMAIN FirstStep, era : Nat, crt : Certificate]

Server ==
  [pc : ServerPc, born : Nat \cup {Absent}, log : Nat \cup {Absent}, pool : File,
   read : Nat \cup {Absent}, cert : File]

FilesOK ==
  /\ key \in File \cup {Empty} /\ locked \in BOOLEAN /\ root \in File
  /\ srvkey \in File \cup {Empty} /\ csr \in File /\ crt \in Certificate
  /\ dirs \subseteq {"ca", "backend"}
  /\ data \in [made : BOOLEAN, pid : File, log : BOOLEAN]

TypesOK ==
  /\ FilesOK
  /\ port \in File
  /\ script \in [Scripts -> Script]
  /\ server \in [Scripts -> Server]
  /\ wipes \in [certs : Nat, data : Nat]
  /\ alone \in BOOLEAN
  /\ disturbed \subseteq Scripts

\* The wipes that a server and a script remember have happened.
BoundsOK ==
  \A p \in Scripts : /\ server[p].read # Absent => server[p].read <= wipes.certs
                     /\ server[p].born # Absent => server[p].born <= wipes.data
                     /\ script[p].era <= wipes.certs

Starting == {"find", "fork", "pid file", "wait", "started"}

\* A script that has not forked has no server, only the foreground mode becomes
\* one, and only the background mode forks one.
ForkOK ==
  \A p \in Scripts :
    /\ script[p].pc \notin {"pid file", "wait"} \cup Ended => server[p].pc = "none"
    /\ script[p].pc = "exec" => script[p].op = "foreground"
    /\ script[p].pc \in Starting => script[p].op = "background"

\* What holds whatever overlaps.
IInv == TypesOK /\ BoundsOK /\ ForkOK

-----------------------------------------------------------------------------

LEMMA Numbers == \A p \in Scripts : p \in Nat /\ p # Absent /\ p # Empty
BY LifecycleAssumption

LEMMA Certificates ==
  /\ Absent \in Certificate
  /\ \A r, k \in Scripts : [root |-> r, key |-> k] \in Certificate \ {Absent}
  /\ \A c \in Certificate : c # Absent => c.root \in Scripts /\ c.key \in Scripts
BY LifecycleAssumption DEF Certificate

LEMMA Firsts ==
  ASSUME NEW op \in Commands
  PROVE  /\ op \in DOMAIN FirstStep
         /\ FirstStep[op] \in {"ensure ca", "wipe", "init-ca", "issue", "find", "exec",
                               "stop"}
         /\ FirstStep[op] = "exec" => op = "foreground"
         /\ FirstStep[op] = "find" => op = "background"
         /\ FirstStep[op] = "issue" <=> op = "issue"
<1>1. op \in DOMAIN FirstStep
  BY LifecycleAssumption
<1>2. DOMAIN FirstStep = {"setup", "fresh", "init", "issue", "background", "foreground",
                          "stop"}
  BY DEF FirstStep
<1>3. /\ FirstStep["setup"] = "ensure ca" /\ FirstStep["fresh"] = "wipe"
      /\ FirstStep["init"] = "init-ca" /\ FirstStep["issue"] = "issue"
      /\ FirstStep["background"] = "find" /\ FirstStep["foreground"] = "exec"
      /\ FirstStep["stop"] = "stop"
  BY DEF FirstStep
<1> QED
  BY <1>1, <1>2, <1>3

LEMMA Counting ==
  \A a, m \in Nat : (a <= m => a <= m + 1 /\ a # m + 1) /\ 0 <= m /\ m <= m /\ m + 1 \in Nat
OBVIOUS

LEMMA Later ==
  /\ \A m \in Nat : 0 <= m
  /\ \A m, a \in Nat : \A n : a <= m /\ (n = m \/ n = m + 1) => a <= n
OBVIOUS

\* A script begins, or goes on.
LEMMA ScriptBegins ==
  ASSUME TypesOK, NEW p \in Scripts, NEW op \in Commands, Begin(p, op)
  PROVE  /\ script' \in [Scripts -> Script]
         /\ script[p].pc = "idle"
         /\ script'[p].pc = FirstStep[op] /\ script'[p].op = op
         /\ script'[p].era = 0 /\ script'[p].crt = Absent
         /\ \A q \in Scripts \ {p} : script'[q] = script[q]
         /\ UNCHANGED <<certs, data, port, server, wipes, disturbed>>
         /\ alone' \in BOOLEAN
         /\ alone' => alone /\ UnderWay = {}
<1> DEFINE new == [pc |-> FirstStep[op], op |-> op, era |-> 0, crt |-> Absent]
<1>1. /\ new \in Script /\ new.pc = FirstStep[op] /\ new.op = op /\ new.era = 0
      /\ new.crt = Absent
  BY Firsts, Certificates DEF Script, ScriptPc
<1>2. /\ script' = [script EXCEPT ![p] = new] /\ script[p].pc = "idle"
      /\ UNCHANGED <<certs, data, port, server, wipes, disturbed>>
  BY DEF Begin, At
<1>3. alone' \in BOOLEAN /\ (alone' => alone /\ UnderWay = {})
  BY Zenon DEF Begin
<1> HIDE DEF new
<1>4. /\ script' \in [Scripts -> Script]
      /\ script'[p] = new /\ \A q \in Scripts \ {p} : script'[q] = script[q]
  BY <1>1, <1>2 DEF TypesOK
<1> QED
  BY <1>1, <1>2, <1>3, <1>4

LEMMA ScriptMoves ==
  ASSUME TypesOK, NEW p \in Scripts, NEW pc, NEW era, NEW cert, Move(p, pc, era, cert)
  PROVE  /\ \A q \in Scripts : /\ script'[q].op = script[q].op
                               /\ script'[q].pc = IF q = p THEN pc ELSE script[q].pc
         /\ script'[p].era = era /\ script'[p].crt = cert
         /\ \A q \in Scripts \ {p} : script'[q] = script[q]
         /\ pc \in ScriptPc /\ era \in Nat /\ cert \in Certificate
              => script' \in [Scripts -> Script]
<1> DEFINE new == [pc |-> pc, op |-> script[p].op, era |-> era, crt |-> cert]
<1>1. script' = [script EXCEPT ![p] = new]
  BY DEF Move
<1>2. new.pc = pc /\ new.op = script[p].op /\ new.era = era /\ new.crt = cert
  OBVIOUS
<1>3. pc \in ScriptPc /\ era \in Nat /\ cert \in Certificate => new \in Script
  BY DEF TypesOK, Script
<1> HIDE DEF new
<1> QED
  BY <1>1, <1>2, <1>3 DEF TypesOK

LEMMA ScriptGoes ==
  ASSUME TypesOK, NEW p \in Scripts, NEW pc, Goto(p, pc)
  PROVE  /\ \A q \in Scripts : /\ script'[q].op = script[q].op
                               /\ script'[q].pc = IF q = p THEN pc ELSE script[q].pc
         /\ script'[p].era = 0 /\ script'[p].crt = Absent
         /\ \A q \in Scripts \ {p} : script'[q] = script[q]
         /\ pc \in ScriptPc => script' \in [Scripts -> Script]
BY ScriptMoves, Certificates DEF Goto

\* A server goes on, or ends.
LEMMA ServerMoves ==
  ASSUME TypesOK, NEW p \in Scripts, NEW pc, ServerGoto(p, pc)
  PROVE  /\ \A q \in Scripts :
              /\ server'[q].pc = IF q = p THEN pc ELSE server[q].pc
              /\ server'[q].read = server[q].read /\ server'[q].born = server[q].born
              /\ server'[q].pool = server[q].pool /\ server'[q].cert = server[q].cert
              /\ q # p => server'[q] = server[q]
         /\ pc \in ServerPc => server' \in [Scripts -> Server]
BY DEF TypesOK, ServerGoto, Server

LEMMA ServerEnds ==
  ASSUME TypesOK, NEW p \in Scripts, Exit(p)
  PROVE  /\ server'[p].pc = "gone"
         /\ server'[p].read = Absent /\ server'[p].born = Absent
         /\ \A q \in Scripts \ {p} : server'[q] = server[q]
         /\ server' \in [Scripts -> Server]
BY DEF TypesOK, Exit, Process, Server, ServerPc, File

LEMMA ServerSet ==
  ASSUME TypesOK, NEW p \in Scripts, NEW new \in Server,
         server' = [server EXCEPT ![p] = new]
  PROVE  /\ server' \in [Scripts -> Server]
         /\ server'[p] = new
         /\ \A q \in Scripts \ {p} : server'[q] = server[q]
BY DEF TypesOK

LEMMA DataMoves ==
  ASSUME TypesOK
  PROVE  \A b \in BOOLEAN, f \in File :
           /\ [data EXCEPT !.made = b] \in [made : BOOLEAN, pid : File, log : BOOLEAN]
           /\ [data EXCEPT !.made = b].made = b
           /\ [data EXCEPT !.made = b].pid = data.pid
           /\ [data EXCEPT !.log = b] \in [made : BOOLEAN, pid : File, log : BOOLEAN]
           /\ [data EXCEPT !.log = b].made = data.made
           /\ [data EXCEPT !.log = b].pid = data.pid
           /\ [data EXCEPT !.pid = f] \in [made : BOOLEAN, pid : File, log : BOOLEAN]
           /\ [data EXCEPT !.pid = f].pid = f
           /\ [data EXCEPT !.pid = f].made = data.made
BY DEF TypesOK, FilesOK

LEMMA Numbered ==
  ASSUME TypesOK
  PROVE  /\ wipes.certs \in Nat /\ wipes.data \in Nat
         /\ [wipes EXCEPT !.certs = @ + 1] \in [certs : Nat, data : Nat]
         /\ [wipes EXCEPT !.certs = @ + 1].certs = wipes.certs + 1
         /\ [wipes EXCEPT !.certs = @ + 1].data = wipes.data
         /\ [wipes EXCEPT !.data = @ + 1] \in [certs : Nat, data : Nat]
         /\ [wipes EXCEPT !.data = @ + 1].data = wipes.data + 1
         /\ [wipes EXCEPT !.data = @ + 1].certs = wipes.certs
         /\ \A p \in Scripts : /\ server[p].read \in Nat \cup {Absent}
                               /\ server[p].born \in Nat \cup {Absent}
                               /\ script[p].era \in Nat
BY DEF TypesOK, Server, Script

LEMMA Disturbs == ASSUME TypesOK, Disturb PROVE disturbed' \subseteq Scripts
BY DEF TypesOK, Disturb

-----------------------------------------------------------------------------
(* Whatever overlaps.                                                      *)

\* A script moves on and leaves servers and wipes alone.
LEMMA ScriptStep ==
  ASSUME IInv, NEW p \in Scripts, NEW pc \in ScriptPc \ {"exec"},
         NEW era \in Nat, era <= wipes.certs, NEW cert \in Certificate,
         Move(p, pc, era, cert),
         pc \notin {"pid file", "wait"} \cup Ended => server[p].pc = "none",
         pc \in Starting => script[p].pc \in Starting,
         FilesOK', disturbed' \subseteq Scripts,
         UNCHANGED <<port, server, wipes, alone>>
  PROVE  IInv'
<1>0. TypesOK /\ pc \in ScriptPc /\ pc # "exec"
  BY DEF IInv
<1>1. /\ \A q \in Scripts : /\ script'[q].op = script[q].op
                            /\ script'[q].pc = IF q = p THEN pc ELSE script[q].pc
      /\ script'[p].era = era
      /\ \A q \in Scripts \ {p} : script'[q] = script[q]
      /\ script' \in [Scripts -> Script]
  <2>1. Move(p, pc, era, cert) /\ era \in Nat /\ cert \in Certificate
    OBVIOUS
  <2> QED
    BY ONLY <1>0, <2>1, ScriptMoves
<1>2. TypesOK'
  BY <1>1 DEF IInv, TypesOK
<1>3. BoundsOK'
  BY <1>1 DEF IInv, BoundsOK
<1>4. ForkOK'
  BY <1>0, <1>1 DEF IInv, ForkOK
<1> QED
  BY <1>2, <1>3, <1>4 DEF IInv

LEMMA ScriptOn ==
  ASSUME IInv, NEW p \in Scripts, NEW pc \in ScriptPc \ {"exec"}, Goto(p, pc),
         pc \notin {"pid file", "wait"} \cup Ended => server[p].pc = "none",
         pc \in Starting => script[p].pc \in Starting,
         FilesOK', disturbed' \subseteq Scripts,
         UNCHANGED <<port, server, wipes, alone>>
  PROVE  IInv'
<1>1. wipes.certs \in Nat
  BY Numbered DEF IInv
<1>2. 0 <= wipes.certs /\ 0 \in Nat
  BY ONLY <1>1
<1> QED
  BY <1>2, ScriptStep, Certificates DEF Goto

\* One server moves on.
LEMMA ServerStepOK ==
  ASSUME IInv, NEW p \in Scripts, server[p].pc # "none",
         server' \in [Scripts -> Server],
         \A q \in Scripts \ {p} : server'[q] = server[q],
         server'[p].read # Absent => server'[p].read <= wipes.certs,
         server'[p].born # Absent => server'[p].born <= wipes.data,
         data' \in [made : BOOLEAN, pid : File, log : BOOLEAN],
         port' \in File, disturbed' \subseteq Scripts,
         UNCHANGED <<certs, script, wipes, alone>>
  PROVE  IInv'
<1>1. TypesOK'
  BY DEF IInv, TypesOK, FilesOK, certs, ca, backend
<1>2. BoundsOK'
  BY DEF IInv, BoundsOK
<1>3. ForkOK'
  BY DEF IInv, ForkOK
<1> QED
  BY <1>1, <1>2, <1>3 DEF IInv

LEMMA BeginOK ==
  ASSUME IInv, NEW p \in Scripts, NEW op \in Commands, Begin(p, op)
  PROVE  IInv'
<1>1. /\ script' \in [Scripts -> Script] /\ script[p].pc = "idle"
      /\ script'[p].pc = FirstStep[op] /\ script'[p].op = op /\ script'[p].era = 0
      /\ \A q \in Scripts \ {p} : script'[q] = script[q]
      /\ UNCHANGED <<certs, data, port, server, wipes, disturbed>>
      /\ alone' \in BOOLEAN
  BY ScriptBegins DEF IInv
<1>2. /\ FirstStep[op] \in {"ensure ca", "wipe", "init-ca", "issue", "find", "exec",
                            "stop"}
      /\ FirstStep[op] = "exec" => op = "foreground"
      /\ FirstStep[op] = "find" => op = "background"
  BY Firsts
<1>3. TypesOK'
  BY <1>1 DEF IInv, TypesOK, FilesOK, certs, ca, backend
<1>4. 0 <= wipes.certs
  <2>1. wipes.certs \in Nat
    BY Numbered DEF IInv
  <2> QED
    BY ONLY <2>1
<1>5. BoundsOK'
  BY <1>1, <1>4 DEF IInv, BoundsOK
<1>6. server[p].pc = "none"
  BY <1>1 DEF IInv, ForkOK
<1>7. ForkOK'
  BY <1>1, <1>2, <1>6 DEF IInv, ForkOK, Starting
<1> QED
  BY <1>3, <1>5, <1>7 DEF IInv

\* A wipe.
LEMMA WipeStep ==
  ASSUME IInv, NEW p \in Scripts, NEW pc \in {"wipe data", "ensure ca"}, Goto(p, pc),
         server[p].pc = "none",
         wipes' \in [certs : Nat, data : Nat],
         wipes'.certs \in {wipes.certs, wipes.certs + 1},
         wipes'.data \in {wipes.data, wipes.data + 1},
         FilesOK', disturbed' \subseteq Scripts,
         UNCHANGED <<port, server, alone>>
  PROVE  IInv'
<1>1. /\ \A q \in Scripts : /\ script'[q].op = script[q].op
                            /\ script'[q].pc = IF q = p THEN pc ELSE script[q].pc
      /\ script'[p].era = 0
      /\ \A q \in Scripts \ {p} : script'[q] = script[q]
      /\ script' \in [Scripts -> Script]
  BY ScriptGoes DEF IInv, ScriptPc
<1>2. TypesOK'
  BY <1>1 DEF IInv, TypesOK
<1>3. /\ wipes.certs \in Nat /\ wipes.data \in Nat
      /\ \A q \in Scripts : /\ server[q].read \in Nat \cup {Absent}
                            /\ server[q].born \in Nat \cup {Absent}
                            /\ script[q].era \in Nat
  BY Numbered DEF IInv
<1>4. /\ \A a \in Nat : a <= wipes.certs => a <= wipes'.certs
      /\ \A a \in Nat : a <= wipes.data => a <= wipes'.data
      /\ 0 <= wipes'.certs
  <2>1. wipes'.certs = wipes.certs \/ wipes'.certs = wipes.certs + 1
    OBVIOUS
  <2>2. wipes'.data = wipes.data \/ wipes'.data = wipes.data + 1
    OBVIOUS
  <2>3. wipes'.certs \in Nat
    OBVIOUS
  <2> QED
    BY <1>3, <2>1, <2>2, <2>3, Later
<1>5. BoundsOK'
  <2>1. \A q \in Scripts :
          /\ server[q].read # Absent => server[q].read <= wipes.certs
          /\ server[q].born # Absent => server[q].born <= wipes.data
          /\ script[q].era <= wipes.certs
    BY DEF IInv, BoundsOK
  <2>2. \A q \in Scripts :
          /\ server[q].read # Absent => server[q].read <= wipes'.certs
          /\ server[q].born # Absent => server[q].born <= wipes'.data
          /\ script[q].era <= wipes'.certs
    BY <1>3, <1>4, <2>1
  <2>3. \A q \in Scripts : script'[q].era <= wipes'.certs
    BY <1>1, <1>3, <1>4, <2>2
  <2> QED
    BY <2>2, <2>3 DEF BoundsOK
<1>6. ForkOK'
  BY <1>1 DEF IInv, ForkOK, Starting
<1> QED
  BY <1>2, <1>5, <1>6 DEF IInv

LEMMA WipeCertsOK ==
  ASSUME IInv, NEW p \in Scripts, WipeCerts(p)
  PROVE  IInv'
<1>1. server[p].pc = "none"
  BY DEF WipeCerts, At, IInv, ForkOK
<1>2. FilesOK' /\ disturbed' \subseteq Scripts
  BY Certificates, Disturbs DEF WipeCerts, File, IInv, TypesOK, FilesOK
<1>3. /\ wipes' \in [certs : Nat, data : Nat]
      /\ wipes'.certs = wipes.certs + 1 /\ wipes'.data = wipes.data
  BY Numbered DEF WipeCerts, IInv
<1> QED
  BY <1>1, <1>2, <1>3, WipeStep DEF WipeCerts

LEMMA WipeDataOK ==
  ASSUME IInv, NEW p \in Scripts, WipeData(p)
  PROVE  IInv'
<1>1. server[p].pc = "none"
  BY DEF WipeData, At, IInv, ForkOK
<1>2. FilesOK' /\ disturbed' \subseteq Scripts
  BY Disturbs DEF WipeData, NoData, File, certs, ca, backend, IInv, TypesOK, FilesOK
<1>3. /\ wipes' \in [certs : Nat, data : Nat]
      /\ wipes'.certs = wipes.certs /\ wipes'.data = wipes.data + 1
  BY Numbered DEF WipeData, IInv
<1> QED
  BY <1>1, <1>2, <1>3, WipeStep DEF WipeData

LEMMA EnsureCaOK ==
  ASSUME IInv, NEW p \in Scripts, EnsureCa(p)
  PROVE  IInv'
<1>1. server[p].pc = "none"
  BY DEF EnsureCa, At, IInv, ForkOK
<1>2. FilesOK' /\ disturbed' \subseteq Scripts
  BY DEF EnsureCa, history, certs, ca, backend, IInv, TypesOK, FilesOK
<1> QED
  BY <1>1, <1>2, ScriptOn DEF EnsureCa, history, At, ScriptPc, Starting

LEMMA InitCAOK ==
  ASSUME IInv, NEW p \in Scripts, InitCA(p)
  PROVE  IInv'
<1>1. server[p].pc = "none"
  BY DEF InitCA, At, IInv, ForkOK
<1>2. FilesOK' /\ disturbed' \subseteq Scripts
  BY DataMoves DEF InitCA, history, certs, ca, backend, IInv, TypesOK, FilesOK
<1> QED
  BY <1>1, <1>2, ScriptOn DEF InitCA, history, At, ScriptPc, Starting

LEMMA WriteKeyOK ==
  ASSUME IInv, NEW p \in Scripts, WriteKey(p)
  PROVE  IInv'
<1>1. server[p].pc = "none"
  BY DEF WriteKey, At, IInv, ForkOK
<1>2. FilesOK' /\ disturbed' \subseteq Scripts
  BY DEF WriteKey, history, certs, ca, backend, IInv, TypesOK, FilesOK, File
<1> QED
  BY <1>1, <1>2, ScriptOn DEF WriteKey, history, At, ScriptPc, Starting

LEMMA ChmodOK ==
  ASSUME IInv, NEW p \in Scripts, Chmod(p)
  PROVE  IInv'
<1>1. server[p].pc = "none"
  BY DEF Chmod, At, IInv, ForkOK
<1>2. locked' \in BOOLEAN
  BY Zenon DEF Chmod
<1>3. /\ key' = key /\ root' = root /\ srvkey' = srvkey /\ csr' = csr /\ crt' = crt
      /\ dirs' = dirs /\ data' = data /\ disturbed' = disturbed
  BY DEF Chmod, history, backend
<1>4. FilesOK' /\ disturbed' \subseteq Scripts
  BY <1>2, <1>3 DEF IInv, TypesOK, FilesOK
<1> QED
  BY <1>1, <1>4, ScriptOn DEF Chmod, history, At, ScriptPc, Starting

LEMMA SelfSignOK ==
  ASSUME IInv, NEW p \in Scripts, SelfSign(p)
  PROVE  IInv'
<1>1. server[p].pc = "none"
  BY DEF SelfSign, At, IInv, ForkOK
<1>2. FilesOK' /\ disturbed' \subseteq Scripts
  BY DEF SelfSign, history, certs, ca, backend, IInv, TypesOK, FilesOK, File
<1> QED
  BY <1>1, <1>2, ScriptOn DEF SelfSign, history, At, ScriptPc, Starting

LEMMA EnsureBackendOK ==
  ASSUME IInv, NEW p \in Scripts, EnsureBackend(p)
  PROVE  IInv'
<1>1. server[p].pc = "none"
  BY DEF EnsureBackend, At, IInv, ForkOK
<1>2. FilesOK' /\ disturbed' \subseteq Scripts
  BY DEF EnsureBackend, history, certs, ca, backend, IInv, TypesOK, FilesOK
<1> QED
  BY <1>1, <1>2, ScriptOn DEF EnsureBackend, history, At, ScriptPc, Starting

LEMMA IssueOK ==
  ASSUME IInv, NEW p \in Scripts, Issue(p)
  PROVE  IInv'
<1>1. server[p].pc = "none"
  BY DEF Issue, At, IInv, ForkOK
<1>2. FilesOK' /\ disturbed' \subseteq Scripts
  BY DataMoves DEF Issue, history, certs, ca, backend, IInv, TypesOK, FilesOK
<1> QED
  BY <1>1, <1>2, ScriptOn DEF Issue, history, At, ScriptPc, Starting

LEMMA WriteServerKeyOK ==
  ASSUME IInv, NEW p \in Scripts, WriteServerKey(p)
  PROVE  IInv'
<1>1. server[p].pc = "none"
  BY DEF WriteServerKey, At, IInv, ForkOK
<1>2. disturbed' \subseteq Scripts
  BY Disturbs DEF WriteServerKey, IInv
<1>3. FilesOK'
  BY DEF WriteServerKey, history, certs, ca, backend, IInv, TypesOK, FilesOK, File
<1> QED
  BY <1>1, <1>2, <1>3, ScriptOn DEF WriteServerKey, history, At, ScriptPc, Starting

LEMMA RequestCertificateOK ==
  ASSUME IInv, NEW p \in Scripts, RequestCertificate(p)
  PROVE  IInv'
<1>1. server[p].pc = "none"
  BY DEF RequestCertificate, At, IInv, ForkOK
<1>2. FilesOK' /\ disturbed' \subseteq Scripts
  BY DEF RequestCertificate, history, certs, ca, backend, IInv, TypesOK, FilesOK, File
<1> QED
  BY <1>1, <1>2, ScriptOn DEF RequestCertificate, history, At, ScriptPc, Starting

LEMMA SignOK ==
  ASSUME IInv, NEW p \in Scripts, Sign(p)
  PROVE  IInv'
<1>1. server[p].pc = "none"
  BY DEF Sign, At, IInv, ForkOK
<1>2. FilesOK' /\ disturbed' \subseteq Scripts
  <2>1. script[p].crt \in Certificate
    BY DEF IInv, TypesOK, Script
  <2>2. disturbed' \subseteq Scripts
    BY Disturbs DEF Sign, IInv, TypesOK
  <2>3. crt' \in Certificate
    BY <2>1 DEF Sign, IInv, TypesOK, FilesOK
  <2>4. UNCHANGED <<ca, srvkey, csr, dirs, data>>
    BY DEF Sign
  <2> QED
    BY <2>2, <2>3, <2>4 DEF ca, IInv, TypesOK, FilesOK
<1> QED
  BY <1>1, <1>2, ScriptOn DEF Sign, history, At, ScriptPc, Starting

LEMMA RemoveRequestOK ==
  ASSUME IInv, NEW p \in Scripts, RemoveRequest(p)
  PROVE  IInv'
<1>1. server[p].pc = "none"
  BY DEF RemoveRequest, At, IInv, ForkOK
<1>2. FilesOK' /\ disturbed' \subseteq Scripts
  BY DEF RemoveRequest, history, certs, ca, backend, IInv, TypesOK, FilesOK, File
<1> QED
  BY <1>1, <1>2, ScriptOn DEF RemoveRequest, history, At, ScriptPc, Starting

LEMMA FindServerOK ==
  ASSUME IInv, NEW p \in Scripts, FindServer(p)
  PROVE  IInv'
<1>1. server[p].pc = "none"
  BY DEF FindServer, At, IInv, ForkOK
<1>2. FilesOK' /\ disturbed' \subseteq Scripts
  BY DataMoves DEF FindServer, history, certs, ca, backend, IInv, TypesOK, FilesOK
<1> QED
  BY <1>1, <1>2, ScriptOn DEF FindServer, history, At, ScriptPc, Starting

LEMMA WritePidOK ==
  ASSUME IInv, NEW p \in Scripts, WritePid(p)
  PROVE  IInv'
<1>1. data' \in [made : BOOLEAN, pid : File, log : BOOLEAN]
  <2>1. data \in [made : BOOLEAN, pid : File, log : BOOLEAN] /\ p \in File
    BY DEF File, IInv, TypesOK, FilesOK
  <2>2. [data EXCEPT !.pid = p] \in [made : BOOLEAN, pid : File, log : BOOLEAN]
    BY ONLY <2>1
  <2> QED
    BY <2>1, <2>2 DEF WritePid
<1>2. FilesOK' /\ disturbed' \subseteq Scripts
  BY <1>1 DEF WritePid, history, certs, ca, backend, IInv, TypesOK, FilesOK
<1> QED
  BY <1>2, ScriptOn DEF WritePid, history, At, ScriptPc, Starting

LEMMA WaitOK ==
  ASSUME IInv, NEW p \in Scripts, Wait(p)
  PROVE  IInv'
<1>2. FilesOK' /\ disturbed' \subseteq Scripts
  BY DEF Wait, history, certs, ca, backend, IInv, TypesOK, FilesOK
<1> QED
  BY <1>2, ScriptOn DEF Wait, history, At, ScriptPc, Starting

LEMMA RemovePidOK ==
  ASSUME IInv, NEW p \in Scripts, RemovePid(p)
  PROVE  IInv'
<1>1. server[p].pc = "none"
  BY DEF RemovePid, At, IInv, ForkOK
<1>2. FilesOK' /\ disturbed' \subseteq Scripts
  BY DataMoves DEF RemovePid, history, certs, ca, backend, IInv, TypesOK, FilesOK, File
<1> QED
  BY <1>1, <1>2, ScriptOn DEF RemovePid, history, At, ScriptPc, Starting

\* The three steps that open a file, and keep in mind when.
LEMMA OpeningOK ==
  ASSUME IInv, NEW p \in Scripts, OpenKey(p) \/ OpenServerKey(p) \/ ReadRequest(p)
  PROVE  IInv'
<1>1. server[p].pc = "none"
  BY DEF OpenKey, OpenServerKey, ReadRequest, At, IInv, ForkOK
<1>2. wipes.certs \in Nat /\ wipes.certs <= wipes.certs
  <2>1. wipes.certs \in Nat
    BY Numbered DEF IInv
  <2> QED
    BY ONLY <2>1
<1>3. UNCHANGED <<port, server, wipes, alone>>
  BY DEF OpenKey, OpenServerKey, ReadRequest, history
<1>4. disturbed' \subseteq Scripts
  BY Disturbs DEF OpenKey, OpenServerKey, ReadRequest, history, IInv, TypesOK
<1>5. FilesOK'
  <2>1. key' \in File \cup {Empty} /\ srvkey' \in File \cup {Empty}
    BY DEF OpenKey, OpenServerKey, ReadRequest, certs, ca, backend, IInv, TypesOK, FilesOK
  <2>2. UNCHANGED <<locked, root, csr, crt, dirs, data>>
    BY DEF OpenKey, OpenServerKey, ReadRequest, certs, ca, backend
  <2> QED
    BY <2>1, <2>2 DEF IInv, TypesOK, FilesOK
<1>6. CASE Goto(p, "failed")
  BY <1>1, <1>3, <1>4, <1>5, <1>6, ScriptOn DEF ScriptPc, Starting
<1>7. CASE Move(p, "write key", wipes.certs, Absent)
  BY <1>1, <1>2, <1>3, <1>4, <1>5, <1>7, ScriptStep, Certificates DEF ScriptPc, Starting
<1>8. CASE Move(p, "write server key", wipes.certs, Absent)
  BY <1>1, <1>2, <1>3, <1>4, <1>5, <1>8, ScriptStep, Certificates DEF ScriptPc, Starting
<1>9. CASE /\ csr \in Scripts /\ root # Absent
           /\ Move(p, "sign", wipes.certs, [root |-> root, key |-> csr])
  <2>1. [root |-> root, key |-> csr] \in Certificate
    BY <1>9, Certificates DEF IInv, TypesOK, FilesOK, File
  <2> QED
    BY <1>1, <1>2, <1>3, <1>4, <1>5, <1>9, <2>1, ScriptStep DEF ScriptPc, Starting
<1> QED
  BY <1>6, <1>7, <1>8, <1>9 DEF OpenKey, OpenServerKey, ReadRequest

LEMMA ForkStepOK ==
  ASSUME IInv, NEW p \in Scripts, Fork(p)
  PROVE  IInv'
<1>1. /\ \A q \in Scripts : /\ script'[q].op = script[q].op
                            /\ script'[q].pc = IF q = p THEN "pid file" ELSE script[q].pc
      /\ script'[p].era = 0
      /\ \A q \in Scripts \ {p} : script'[q] = script[q]
      /\ script' \in [Scripts -> Script]
  BY ScriptGoes DEF IInv, ScriptPc, Fork
<1> DEFINE new == [server[p] EXCEPT !.pc = "redirect", !.born = wipes.data]
<1>2. server[p] \in Server /\ wipes.data \in Nat /\ wipes.certs \in Nat
  BY Numbered DEF IInv, TypesOK
<1>3. new \in Server /\ new.read = server[p].read /\ new.born = wipes.data
  BY <1>2 DEF Server, ServerPc
<1>4. server' = [server EXCEPT ![p] = new]
  BY DEF Fork, IInv, TypesOK, Server
<1> HIDE DEF new
<1>5. /\ server' \in [Scripts -> Server]
      /\ \A q \in Scripts \ {p} : server'[q] = server[q]
      /\ server'[p].read = server[p].read /\ server'[p].born = wipes.data
  BY <1>3, <1>4 DEF IInv, TypesOK
<1>6. UNCHANGED <<certs, data, port, wipes, alone, disturbed>>
  BY DEF Fork, history
<1>7. TypesOK'
  BY <1>1, <1>5, <1>6 DEF IInv, TypesOK, FilesOK, certs, ca, backend
<1>8. wipes.data <= wipes.data /\ 0 <= wipes.certs
  BY ONLY <1>2
<1>9. BoundsOK'
  BY <1>1, <1>5, <1>6, <1>8 DEF IInv, BoundsOK
<1>10. ForkOK'
  BY <1>1, <1>5 DEF IInv, ForkOK, Starting, Fork, At
<1> QED
  BY <1>7, <1>9, <1>10 DEF IInv

\* A script goes on while a server does.
LEMMA BothStep ==
  ASSUME IInv, NEW p \in Scripts, NEW pc \in {"done", "rm pid"}, Goto(p, pc),
         NEW s \in Scripts, NEW spc \in ServerPc, ServerGoto(s, spc),
         s = p => pc = "done",
         pc = "rm pid" => server[p].pc = "none",
         server[s].pc # "none" \/ s = p,
         UNCHANGED <<certs, data, port, wipes, alone, disturbed>>
  PROVE  IInv'
<1>1. /\ \A q \in Scripts : /\ script'[q].op = script[q].op
                            /\ script'[q].pc = IF q = p THEN pc ELSE script[q].pc
      /\ script'[p].era = 0
      /\ \A q \in Scripts \ {p} : script'[q] = script[q]
      /\ script' \in [Scripts -> Script]
  BY ScriptGoes DEF IInv, ScriptPc
<1>2. /\ server' \in [Scripts -> Server]
      /\ \A q \in Scripts : /\ server'[q].read = server[q].read
                            /\ server'[q].born = server[q].born
                            /\ q # s => server'[q].pc = server[q].pc
  BY ServerMoves DEF IInv
<1>3. TypesOK'
  BY <1>1, <1>2 DEF IInv, TypesOK, FilesOK, certs, ca, backend
<1>4. 0 <= wipes.certs
  <2>1. wipes.certs \in Nat
    BY Numbered DEF IInv
  <2> QED
    BY ONLY <2>1, Later
<1>5. BoundsOK'
  BY <1>1, <1>2, <1>4 DEF IInv, BoundsOK
<1>6. ForkOK'
  <2>1. ASSUME NEW q \in Scripts, script'[q].pc \notin {"pid file", "wait"} \cup Ended
        PROVE  server'[q].pc = "none"
    <3>1. CASE q = p
      BY <1>1, <1>2, <2>1, <3>1
    <3>2. CASE q # p
      <4>1. server[q].pc = "none"
        BY <1>1, <2>1, <3>2 DEF IInv, ForkOK
      <4> QED
        BY <1>2, <3>2, <4>1
    <3> QED
      BY <3>1, <3>2
  <2>2. \A q \in Scripts : /\ script'[q].pc = "exec" => script[q].pc = "exec"
                           /\ script'[q].pc \in Starting => script[q].pc \in Starting
    BY <1>1 DEF Starting
  <2> QED
    BY <1>1, <2>1, <2>2 DEF IInv, ForkOK
<1> QED
  BY <1>3, <1>5, <1>6 DEF IInv

LEMMA ExecOK ==
  ASSUME IInv, NEW p \in Scripts, Exec(p)
  PROVE  IInv'
<1>1. UNCHANGED <<certs, data, port, wipes, alone, disturbed>> /\ script[p].pc = "exec"
  BY DEF Exec, At, history
<1>2. CASE Goto(p, "failed") /\ UNCHANGED server
  <2>1. FilesOK' /\ disturbed' \subseteq Scripts
    BY <1>1 DEF certs, ca, backend, IInv, TypesOK, FilesOK
  <2> QED
    BY <1>1, <1>2, <2>1, ScriptOn DEF ScriptPc, Starting
<1>3. CASE Goto(p, "done") /\ ServerGoto(p, "open")
  BY <1>1, <1>3, BothStep DEF ServerPc
<1> QED
  BY <1>2, <1>3 DEF Exec

LEMMA StopOK ==
  ASSUME IInv, NEW p \in Scripts, Stop(p)
  PROVE  IInv'
<1>1. PICK pc \in {"done", "rm pid"} : Goto(p, pc)
  BY DEF Stop
<1>2. UNCHANGED <<certs, data, port, wipes, alone, disturbed>>
  BY DEF Stop, history
<1>3. server[p].pc = "none"
  BY DEF Stop, At, IInv, ForkOK
<1>4. CASE UNCHANGED server
  <2>1. FilesOK' /\ disturbed' \subseteq Scripts
    BY <1>2 DEF certs, ca, backend, IInv, TypesOK, FilesOK
  <2> QED
    BY <1>1, <1>2, <1>3, <1>4, <2>1, ScriptOn DEF ScriptPc, Starting
<1>5. CASE data.pid \in Alive /\ server' = [server EXCEPT ![data.pid].pc = "dying"]
  <2>1. /\ data.pid \in Scripts /\ ServerGoto(data.pid, "dying")
        /\ server[data.pid].pc # "none"
    BY <1>5 DEF Alive, ServerGoto
  <2> QED
    BY <1>1, <1>2, <1>3, <2>1, BothStep DEF ServerPc
<1> QED
  BY <1>4, <1>5 DEF Stop

\* A server that moves on without more, or that ends.
LEMMA ServerGoes ==
  ASSUME IInv, NEW p \in Scripts, NEW pc \in ServerPc, server[p].pc # "none",
         ServerGoto(p, pc) \/ Exit(p),
         data' \in [made : BOOLEAN, pid : File, log : BOOLEAN],
         port' \in File, disturbed' \subseteq Scripts,
         UNCHANGED <<certs, script, wipes, alone>>
  PROVE  IInv'
<1>1. CASE ServerGoto(p, pc)
  <2>1. /\ server' \in [Scripts -> Server]
        /\ \A q \in Scripts \ {p} : server'[q] = server[q]
        /\ server'[p].read = server[p].read /\ server'[p].born = server[p].born
    BY <1>1, ServerMoves DEF IInv
  <2> QED
    BY <2>1, ServerStepOK DEF IInv, BoundsOK
<1>2. CASE Exit(p)
  <2>1. /\ server' \in [Scripts -> Server]
        /\ \A q \in Scripts \ {p} : server'[q] = server[q]
        /\ server'[p].read = Absent /\ server'[p].born = Absent
    BY <1>2, ServerEnds DEF IInv
  <2> QED
    BY <2>1, ServerStepOK
<1> QED
  BY <1>1, <1>2

LEMMA RedirectOK ==
  ASSUME IInv, NEW p \in Scripts, Redirect(p)
  PROVE  IInv'
<1>1. /\ server[p].pc = "redirect" /\ UNCHANGED <<certs, port, script, wipes, alone>>
      /\ port' \in File /\ disturbed' \subseteq Scripts
      /\ data' \in [made : BOOLEAN, pid : File, log : BOOLEAN]
  BY DataMoves DEF Redirect, ServerAt, IInv, TypesOK, FilesOK, history
<1>2. CASE Exit(p)
  BY <1>1, <1>2, ServerGoes DEF ServerPc
<1>3. CASE server' = [server EXCEPT ![p].pc = "open", ![p].log = wipes.data]
  <2> DEFINE new == [server[p] EXCEPT !.pc = "open", !.log = wipes.data]
  <2>1. server[p] \in Server /\ wipes.data \in Nat
    BY Numbered DEF IInv, TypesOK
  <2>2. new \in Server /\ new.read = server[p].read /\ new.born = server[p].born
    BY <2>1 DEF Server, ServerPc
  <2>3. server' = [server EXCEPT ![p] = new]
    BY <1>3 DEF IInv, TypesOK, Server
  <2> HIDE DEF new
  <2> QED
    BY <1>1, <2>2, <2>3, ServerSet, ServerStepOK DEF IInv, BoundsOK
<1> QED
  BY <1>2, <1>3 DEF Redirect

LEMMA OpenDatabaseOK ==
  ASSUME IInv, NEW p \in Scripts, OpenDatabase(p)
  PROVE  IInv'
<1>1. /\ data' \in [made : BOOLEAN, pid : File, log : BOOLEAN] /\ port' \in File
      /\ disturbed' \subseteq Scripts
  BY DataMoves DEF OpenDatabase, IInv, TypesOK, FilesOK, history
<1> QED
  BY <1>1, ServerGoes DEF OpenDatabase, ServerAt, ServerPc, history

LEMMA ReadCAOK ==
  ASSUME IInv, NEW p \in Scripts, ReadCA(p)
  PROVE  IInv'
<1>1. /\ server[p].pc = "ca" /\ UNCHANGED <<certs, data, port, script, wipes, alone>>
      /\ data' \in [made : BOOLEAN, pid : File, log : BOOLEAN]
      /\ port' \in File /\ disturbed' \subseteq Scripts
  BY DEF ReadCA, ServerAt, IInv, TypesOK, FilesOK, history
<1>2. CASE root = Absent
  BY <1>1, <1>2, ServerGoes DEF ReadCA, ServerPc
<1>3. CASE root # Absent
  <2> DEFINE new == [server[p] EXCEPT !.pc = "announce", !.pool = root, !.read = wipes.certs]
  <2>1. server[p] \in Server /\ wipes.certs \in Nat /\ root \in File
    BY Numbered DEF IInv, TypesOK, FilesOK
  <2>2. new \in Server /\ new.read = wipes.certs /\ new.born = server[p].born
    BY <2>1 DEF Server, ServerPc
  <2>3. server' = [server EXCEPT ![p] = new]
    BY <1>3 DEF ReadCA, IInv, TypesOK, Server
  <2> HIDE DEF new
  <2>4. /\ server' \in [Scripts -> Server] /\ server'[p] = new
        /\ \A q \in Scripts \ {p} : server'[q] = server[q]
    BY <2>2, <2>3, ServerSet DEF IInv
  <2>5. wipes.certs <= wipes.certs
    BY ONLY <2>1
  <2>6. /\ server'[p].read # Absent => server'[p].read <= wipes.certs
        /\ server'[p].born # Absent => server'[p].born <= wipes.data
    BY <2>2, <2>4, <2>5 DEF IInv, BoundsOK
  <2> QED
    BY <1>1, <2>4, <2>6, ServerStepOK
<1> QED
  BY <1>2, <1>3

LEMMA AnnounceOK ==
  ASSUME IInv, NEW p \in Scripts, Announce(p)
  PROVE  IInv'
<1>1. /\ data' \in [made : BOOLEAN, pid : File, log : BOOLEAN] /\ port' \in File
      /\ disturbed' \subseteq Scripts
  BY DataMoves DEF Announce, IInv, TypesOK, FilesOK, history
<1> QED
  BY <1>1, ServerGoes DEF Announce, ServerAt, ServerPc, history

LEMMA BindOK ==
  ASSUME IInv, NEW p \in Scripts, Bind(p)
  PROVE  IInv'
<1>1. /\ data' \in [made : BOOLEAN, pid : File, log : BOOLEAN] /\ port' \in File
      /\ disturbed' \subseteq Scripts
  BY DEF Bind, IInv, TypesOK, FilesOK, File, history
<1> QED
  BY <1>1, ServerGoes DEF Bind, ServerAt, ServerPc, history

LEMMA LoadOK ==
  ASSUME IInv, NEW p \in Scripts, Load(p)
  PROVE  IInv'
<1>1. /\ server[p].pc = "load" /\ UNCHANGED <<certs, data, script, wipes, alone>>
      /\ data' \in [made : BOOLEAN, pid : File, log : BOOLEAN]
      /\ port' \in File /\ disturbed' \subseteq Scripts
  BY DEF Load, ServerAt, IInv, TypesOK, FilesOK, File, history
<1>2. CASE Exit(p)
  BY <1>1, <1>2, ServerGoes DEF ServerPc
<1>3. CASE /\ crt # Absent
           /\ server' = [server EXCEPT ![p].pc = "serving", ![p].cert = crt.root]
  <2> DEFINE new == [server[p] EXCEPT !.pc = "serving", !.cert = crt.root]
  <2>1. server[p] \in Server /\ crt.root \in File
    BY <1>3, Certificates DEF IInv, TypesOK, FilesOK, File
  <2>2. new \in Server /\ new.read = server[p].read /\ new.born = server[p].born
    BY <2>1 DEF Server, ServerPc
  <2>3. server' = [server EXCEPT ![p] = new]
    BY <1>3 DEF IInv, TypesOK, Server
  <2> HIDE DEF new
  <2> QED
    BY <1>1, <2>2, <2>3, ServerSet, ServerStepOK DEF IInv, BoundsOK
<1> QED
  BY <1>2, <1>3 DEF Load

LEMMA DieOK ==
  ASSUME IInv, NEW p \in Scripts, Die(p)
  PROVE  IInv'
<1>1. disturbed' \subseteq Scripts
  BY Disturbs DEF Die, IInv
<1>2. data' \in [made : BOOLEAN, pid : File, log : BOOLEAN] /\ port' \in File
  BY DEF Die, IInv, TypesOK, FilesOK, File
<1> QED
  BY <1>1, <1>2, ServerGoes DEF Die, ServerAt, ServerPc

LEMMA KillOK ==
  ASSUME IInv, NEW p \in Scripts, Kill(p)
  PROVE  IInv'
<1>1. UNCHANGED <<certs, data, port, wipes, alone, disturbed>>
  BY DEF Kill, history
<1>2. FilesOK' /\ disturbed' \subseteq Scripts /\ port' \in File
  BY <1>1 DEF certs, ca, backend, IInv, TypesOK, FilesOK
<1>3. CASE p \in UnderWay /\ Goto(p, "failed") /\ UNCHANGED server
  BY <1>1, <1>2, <1>3, ScriptOn DEF ScriptPc, Starting
<1>4. CASE p \in Alive /\ ServerGoto(p, "dying") /\ UNCHANGED script
  BY <1>1, <1>2, <1>4, ServerGoes DEF Alive, ServerPc, FilesOK
<1> QED
  BY <1>3, <1>4 DEF Kill

LEMMA StutterOK == ASSUME IInv, UNCHANGED vars PROVE IInv'
BY DEF vars, certs, ca, backend, history, IInv, TypesOK, FilesOK, BoundsOK, ForkOK

LEMMA NextOK == ASSUME IInv, [Next]_vars PROVE IInv'
<1>1. ASSUME NEW p \in Scripts, NEW op \in Commands, Begin(p, op) PROVE IInv'
  BY <1>1, BeginOK
<1>2. ASSUME NEW p \in Scripts,
             \/ WipeCerts(p) \/ WipeData(p) \/ EnsureCa(p) \/ InitCA(p) \/ OpenKey(p)
             \/ WriteKey(p) \/ Chmod(p) \/ SelfSign(p)
      PROVE  IInv'
  BY <1>2, WipeCertsOK, WipeDataOK, EnsureCaOK, InitCAOK, OpeningOK, WriteKeyOK,
     ChmodOK, SelfSignOK
<1>3. ASSUME NEW p \in Scripts,
             \/ EnsureBackend(p) \/ Issue(p) \/ OpenServerKey(p) \/ WriteServerKey(p)
             \/ RequestCertificate(p) \/ ReadRequest(p) \/ Sign(p) \/ RemoveRequest(p)
      PROVE  IInv'
  BY <1>3, EnsureBackendOK, IssueOK, OpeningOK, WriteServerKeyOK, RequestCertificateOK,
     SignOK, RemoveRequestOK
<1>4. ASSUME NEW p \in Scripts,
             \/ FindServer(p) \/ Fork(p) \/ WritePid(p) \/ Wait(p) \/ Exec(p)
             \/ Stop(p) \/ RemovePid(p)
      PROVE  IInv'
  BY <1>4, FindServerOK, ForkStepOK, WritePidOK, WaitOK, ExecOK, StopOK, RemovePidOK
<1>5. ASSUME NEW p \in Scripts, ServerStep(p) \/ Kill(p) PROVE IInv'
  BY <1>5, RedirectOK, OpenDatabaseOK, ReadCAOK, AnnounceOK, BindOK, LoadOK, DieOK,
     KillOK DEF ServerStep, Approach
<1> QED
  BY <1>1, <1>2, <1>3, <1>4, <1>5, StutterOK DEF Next

LEMMA InitOK == Init => IInv
<1> SUFFICES ASSUME Init PROVE IInv
  OBVIOUS
<1>1. FilesOK
  BY Certificates DEF Init, NoData, FilesOK, File
<1>2. /\ script \in [Scripts -> Script] /\ server \in [Scripts -> Server]
      /\ \A p \in Scripts : script[p].pc = "idle" /\ script[p].era = 0
      /\ \A p \in Scripts : /\ server[p].pc = "none" /\ server[p].read = Absent
                            /\ server[p].born = Absent
  BY Certificates DEF Init, Script, ScriptPc, Server, ServerPc, Process, File
<1>3. wipes \in [certs : Nat, data : Nat] /\ wipes.certs = 0 /\ alone \in BOOLEAN
      /\ disturbed \subseteq Scripts /\ port \in File
  BY DEF Init, File
<1>4. TypesOK
  BY <1>1, <1>2, <1>3 DEF TypesOK
<1>5. BoundsOK
  <2>1. 0 <= 0
    OBVIOUS
  <2> QED
    BY <1>2, <1>3, <2>1 DEF BoundsOK
<1>6. ForkOK
  BY <1>2 DEF ForkOK, Starting
<1> QED
  BY <1>4, <1>5, <1>6 DEF IInv

LEMMA Invariance == Spec => []IInv
<1>1. IInv /\ [Next]_vars => IInv'
  BY NextOK
<1> QED
  BY <1>1, InitOK, PTL DEF Spec

\* The types of the files, of the port, of the scripts and of the servers are
\* what they are declared to be, whatever overlaps and is killed.
THEOREM TypeCorrect == Spec => []TypeOK
<1>1. IInv => TypeOK
  BY DEF IInv, TypesOK, FilesOK, TypeOK, Script, ScriptPc, Server, ServerPc
<1> QED
  BY <1>1, Invariance, PTL

-----------------------------------------------------------------------------
(* What of the overlap does the damage.  No script locks anything, so the   *)
(* conditions below are not theorems; each result that follows rests on the *)
(* ones it names, and everything they do not name may overlap.              *)

Making == {"genrsa", "write key", "chmod", "req"}
PidWork == {"fork", "pid file", "rm pid"}
Issuing ==
  {"issue", "server genrsa", "write server key", "server req", "x509", "sign"}

\* No two scripts are at once between the stat of init-ca that has found no key
\* and the root certificate.
OneMaker ==
  \A p, q \in Scripts : script[p].pc \in Making /\ script[q].pc \in Making => p = q

\* No issue that has read the CA is overtaken by a wipe and by another issue
\* that has made certs/issued/backend-server again.
NoneOvertaken ==
  \A p \in Scripts : script[p].pc = "sign" /\ "backend" \in dirs =>
    script[p].era = wipes.certs

\* No two scripts are at once between the look into the pid file and the change
\* that is made to it.
OneRecorder ==
  \A p, q \in Scripts : script[p].pc \in PidWork /\ script[q].pc \in PidWork => p = q

\* No two scripts are at once between the look for the certificate of the backend
\* and the certificate.
OneIssuer ==
  \A p, q \in Scripts : script[p].pc \in Issuing /\ script[q].pc \in Issuing => p = q

\* The four claims of RootMatchesKey, ServesThePresentCA, StopReachesTheServer
\* and BackendIsAPair, of runs in which scripts overlap.
RootHasKey == root # Absent => key = root

ServesPresentRoot ==
  \A p \in Scripts : server[p].pc = "serving" /\ server[p].read = wipes.certs =>
    server[p].pool = root /\ server[p].cert = root

\* A background server that has been recorded and is to be stopped by its pid.
Recorded(p) ==
  /\ script[p].op = "background" /\ script[p].pc \in {"wait", "started", "done"}
  /\ p \in Alive /\ ~ServerAt(p, "dying")
  /\ server[p].born = wipes.data

PidReaches == \A p \in Scripts : Recorded(p) => data.pid = p

Pair ==
  (\A p \in Scripts : script[p].op = "issue" => script[p].pc = "done") /\ crt # Absent =>
    crt.key = srvkey

\* The steps of a script, by what they are about.
MakeStep(p) ==
  EnsureCa(p) \/ InitCA(p) \/ OpenKey(p) \/ WriteKey(p) \/ Chmod(p) \/ SelfSign(p)
IssueStep(p) ==
  \/ EnsureBackend(p) \/ Issue(p) \/ OpenServerKey(p) \/ WriteServerKey(p)
  \/ RequestCertificate(p) \/ ReadRequest(p) \/ Sign(p) \/ RemoveRequest(p)
RunStep(p) ==
  \/ FindServer(p) \/ Fork(p) \/ WritePid(p) \/ Wait(p) \/ Exec(p)
  \/ Stop(p) \/ RemovePid(p)

LEMMA Steps ==
  ASSUME [Next]_vars
  PROVE  \/ \E p \in Scripts :
              \/ \E op \in Commands : Begin(p, op)
              \/ WipeCerts(p) \/ WipeData(p)
              \/ MakeStep(p) \/ IssueStep(p) \/ RunStep(p)
              \/ ServerStep(p) \/ Kill(p)
         \/ UNCHANGED vars
BY DEF Next, MakeStep, IssueStep, RunStep

-----------------------------------------------------------------------------
(* The CA and the servers that have read it.                               *)

\* A certificate that is about to be written into the present certs/.
Signs(p) == script[p].pc = "sign" /\ script[p].era = wipes.certs

\* The CA is of one piece, and init-ca works only where there is none.
CaOK ==
  /\ root # Absent => key = root
  /\ crt # Absent => crt.root = root
  /\ \A p \in Scripts : script[p].pc \in Making => root = Absent
  /\ \A p \in Scripts : Signs(p) => script[p].crt # Absent /\ script[p].crt.root = root

\* A server that no wipe has overtaken since it read the CA has the CA there is.
ServerOK(s) ==
  s.pc \in {"announce", "bind", "load", "serving"} /\ s.read = wipes.certs =>
    /\ root # Absent
    /\ s.pool = root
    /\ s.pc = "serving" => s.cert = root

ServersOK == \A p \in Scripts : ServerOK(server[p])

\* The root stays, and nobody begins to make a CA where there is one.
LEMMA CaKept ==
  ASSUME IInv, CaOK, NEW p \in Scripts, NEW pc, NEW era, NEW cert,
         Move(p, pc, era, cert),
         root' = root, wipes' = wipes,
         root # Absent => key' = key,
         crt' # Absent => crt'.root = root,
         pc \in Making => root = Absent,
         pc = "sign" => cert # Absent /\ cert.root = root
  PROVE  CaOK'
<1>1. /\ \A q \in Scripts : script'[q].pc = IF q = p THEN pc ELSE script[q].pc
      /\ script'[p].crt = cert
      /\ \A q \in Scripts \ {p} : script'[q] = script[q]
  <2>1. Move(p, pc, era, cert) /\ TypesOK
    BY DEF IInv
  <2> QED
    BY ONLY <2>1, ScriptMoves
<1>2. \A q \in Scripts : script'[q].pc \in Making => root = Absent
  BY <1>1 DEF CaOK
<1>3. ASSUME NEW q \in Scripts, Signs(q)'
      PROVE  script'[q].crt # Absent /\ script'[q].crt.root = root
  <2>1. CASE q = p
    BY <1>1, <1>3, <2>1 DEF Signs
  <2>2. CASE q # p
    BY <1>1, <1>3, <2>2 DEF Signs, CaOK
  <2> QED
    BY <2>1, <2>2
<1> QED
  BY <1>2, <1>3 DEF CaOK

LEMMA CaGoes ==
  ASSUME IInv, CaOK, NEW p \in Scripts, NEW pc, Goto(p, pc),
         UNCHANGED <<root, key, crt, wipes>>,
         pc \in Making => root = Absent, pc # "sign"
  PROVE  CaOK'
<1>1. crt' # Absent => crt'.root = root
  BY DEF CaOK
<1> QED
  BY <1>1, CaKept DEF Goto

\* The root is written from the key, and no other script is making one.
LEMMA SelfSignCa ==
  ASSUME IInv, CaOK, OneMaker, NEW p \in Scripts, SelfSign(p)
  PROVE  CaOK'
<1>1. script[p].pc = "req" /\ root = Absent /\ UNCHANGED <<key, crt, wipes>>
  BY DEF SelfSign, At, CaOK, Making, backend, history
<1>2. PICK pc \in {"failed", "done", "ensure backend"} : Goto(p, pc)
  BY DEF SelfSign
<1>3. /\ \A q \in Scripts : script'[q].pc = IF q = p THEN pc ELSE script[q].pc
      /\ \A q \in Scripts \ {p} : script'[q] = script[q]
  BY <1>2, ScriptGoes DEF IInv
<1>4. root' # Absent => key' = root'
  BY <1>1 DEF SelfSign
<1>5. crt = Absent
  <2>1. crt # Absent => crt.root \in Scripts
    BY Certificates DEF IInv, TypesOK, FilesOK
  <2> QED
    BY <1>1, <2>1, Numbers DEF CaOK
<1>6. \A q \in Scripts : script'[q].pc \notin Making
  BY <1>1, <1>3 DEF OneMaker, Making
<1>7. ASSUME NEW q \in Scripts PROVE ~Signs(q)'
  <2>1. script[q].crt \in Certificate
    BY DEF IInv, TypesOK, Script
  <2>2. ~Signs(q)
    BY <1>1, <2>1, Certificates, Numbers DEF CaOK
  <2> QED
    BY <1>1, <1>3, <2>2 DEF Signs
<1> QED
  BY <1>1, <1>4, <1>5, <1>6, <1>7 DEF CaOK

LEMMA MakeCa ==
  ASSUME IInv, CaOK, OneMaker, NEW p \in Scripts, MakeStep(p)
  PROVE  CaOK'
<1>1. crt' = crt /\ wipes' = wipes
  BY DEF MakeStep, EnsureCa, InitCA, OpenKey, WriteKey, Chmod, SelfSign, certs, backend,
         history
<1>2. crt' # Absent => crt'.root = root
  BY <1>1 DEF CaOK
<1>3. CASE EnsureCa(p)
  BY <1>1, <1>3, CaGoes DEF EnsureCa, certs, ca, Making
<1>4. CASE InitCA(p)
  <2>1. key = Absent => root = Absent
    BY DEF CaOK
  <2> QED
    BY <1>1, <1>4, <2>1, CaGoes DEF InitCA, ca, Making
<1>5. CASE OpenKey(p) \/ WriteKey(p)
  <2>1. root = Absent /\ root' = root
    BY <1>5 DEF OpenKey, WriteKey, At, CaOK, Making
  <2> QED
    BY <1>1, <1>2, <1>5, <2>1, CaKept DEF OpenKey, WriteKey, Goto
<1>6. CASE Chmod(p)
  BY <1>1, <1>6, CaGoes DEF Chmod, At, CaOK, Making
<1> QED
  BY <1>3, <1>4, <1>5, <1>6, SelfSignCa DEF MakeStep

LEMMA IssueCa ==
  ASSUME IInv, CaOK, NoneOvertaken, NEW p \in Scripts, IssueStep(p)
  PROVE  CaOK'
<1>1. key' = key /\ root' = root /\ wipes' = wipes
  BY DEF IssueStep, EnsureBackend, Issue, OpenServerKey, WriteServerKey,
         RequestCertificate, ReadRequest, Sign, RemoveRequest, certs, ca, history
<1>2. CASE OpenServerKey(p)
  <2>1. crt' # Absent => crt'.root = root
    BY <1>2 DEF OpenServerKey, CaOK
  <2> QED
    BY <1>1, <1>2, <2>1, CaKept DEF OpenServerKey, Goto, Making
<1>3. CASE ReadRequest(p)
  <2>1. crt' # Absent => crt'.root = root
    BY <1>3 DEF ReadRequest, certs, backend, CaOK
  <2>2. CASE csr \in Scripts /\ root # Absent /\ key = root
    <3> DEFINE cert == [root |-> root, key |-> csr]
    <3>1. cert.root = root /\ cert # Absent
      BY <2>2, Certificates DEF IInv, TypesOK, FilesOK, File
    <3>2. Move(p, "sign", wipes.certs, cert)
      BY <1>3, <2>2 DEF ReadRequest
    <3> HIDE DEF cert
    <3> QED
      BY <1>1, <2>1, <3>1, <3>2, CaKept DEF Making
  <2>3. CASE ~(csr \in Scripts /\ root # Absent /\ key = root)
    <3>1. Goto(p, "failed") /\ crt' = crt
      BY <1>3, <2>3 DEF ReadRequest, certs, backend
    <3> QED
      BY <1>1, <3>1, CaGoes DEF Making
  <2> QED
    BY <2>2, <2>3
<1>4. CASE Sign(p)
  <2>1. script[p].pc = "sign"
    BY <1>4 DEF Sign, At
  <2>2. crt' # Absent => crt'.root = root
    <3>1. CASE "backend" \in dirs
      BY <1>4, <2>1, <3>1 DEF Sign, NoneOvertaken, CaOK, Signs
    <3>2. CASE "backend" \notin dirs
      BY <1>4, <3>2 DEF Sign, CaOK
    <3> QED
      BY <3>1, <3>2
  <2>3. PICK pc \in {"rm csr", "failed"} : Goto(p, pc)
    BY <1>4 DEF Sign
  <2> QED
    BY <1>1, <2>2, <2>3, CaKept DEF Goto, Making
<1>5. CASE \/ EnsureBackend(p) \/ Issue(p) \/ WriteServerKey(p)
           \/ RequestCertificate(p) \/ RemoveRequest(p)
  <2>1. crt' = crt
    BY <1>5 DEF EnsureBackend, Issue, WriteServerKey, RequestCertificate, RemoveRequest,
                certs, backend
  <2>2. PICK pc \in {"failed", "issue", "server genrsa", "server req", "x509", "done"} :
          Goto(p, pc)
    BY <1>5 DEF EnsureBackend, Issue, WriteServerKey, RequestCertificate, RemoveRequest
  <2> QED
    BY <1>1, <2>1, <2>2, CaGoes DEF Making
<1> QED
  BY <1>2, <1>3, <1>4, <1>5 DEF IssueStep

\* A wipe overtakes whoever is about to sign.
LEMMA Overtaken ==
  ASSUME IInv, NEW p \in Scripts, WipeCerts(p)
  PROVE  /\ wipes'.certs = wipes.certs + 1
         /\ \A q \in Scripts : script[q].era # wipes'.certs /\ server[q].read # wipes'.certs
<1>1. wipes'.certs = wipes.certs + 1
  BY Numbered DEF WipeCerts, IInv
<1>2. ASSUME NEW q \in Scripts
      PROVE  script[q].era # wipes.certs + 1 /\ server[q].read # wipes.certs + 1
  <2>1. /\ wipes.certs \in Nat /\ server[q].read \in Nat \cup {Absent}
        /\ script[q].era \in Nat
    BY Numbered DEF IInv
  <2>2. /\ script[q].era <= wipes.certs
        /\ server[q].read # Absent => server[q].read <= wipes.certs
    BY DEF IInv, BoundsOK
  <2>3. wipes.certs + 1 \in Nat
    BY ONLY <2>1
  <2>4. wipes.certs + 1 # Absent
    BY <2>3, LifecycleAssumption
  <2>5. server[q].read # Absent => server[q].read \in Nat
    BY <2>1
  <2> QED
    BY ONLY <2>1, <2>2, <2>4, <2>5, Counting
<1> QED
  BY <1>1, <1>2

LEMMA WipeCertsCa ==
  ASSUME IInv, CaOK, NEW p \in Scripts, WipeCerts(p)
  PROVE  CaOK'
<1>1. root' = Absent /\ crt' = Absent
  BY DEF WipeCerts
<1>2. /\ \A q \in Scripts : script'[q].pc = IF q = p THEN "wipe data" ELSE script[q].pc
      /\ \A q \in Scripts \ {p} : script'[q] = script[q]
  BY ScriptGoes DEF WipeCerts, IInv
<1>3. \A q \in Scripts : ~Signs(q)'
  BY <1>2, Overtaken DEF Signs
<1> QED
  BY <1>1, <1>3 DEF CaOK

LEMMA StepCa ==
  ASSUME IInv, CaOK, OneMaker, NoneOvertaken, [Next]_vars
  PROVE  CaOK'
<1>1. ASSUME NEW p \in Scripts, NEW op \in Commands, Begin(p, op)
      PROVE  CaOK'
  <2>1. /\ UNCHANGED <<key, root, crt, wipes>>
        /\ script'[p].pc \notin Making /\ script'[p].pc # "sign"
        /\ \A q \in Scripts \ {p} : script'[q] = script[q]
    BY <1>1, ScriptBegins, Firsts DEF certs, ca, backend, IInv, Making
  <2> QED
    BY <2>1 DEF CaOK, Signs
<1>2. ASSUME NEW p \in Scripts, WipeData(p) \/ RunStep(p) PROVE CaOK'
  <2>1. UNCHANGED <<key, root, crt>> /\ wipes'.certs = wipes.certs
    BY <1>2, Numbered DEF WipeData, RunStep, FindServer, Fork, WritePid, Wait, Exec, Stop,
                RemovePid, certs, ca, backend, history, IInv
  <2>2. PICK pc \in {"ensure ca", "done", "failed", "fork", "pid file", "wait",
                     "started", "rm pid"} : Goto(p, pc)
    BY <1>2 DEF WipeData, RunStep, FindServer, Fork, WritePid, Wait, Exec, Stop,
                RemovePid
  <2>3. /\ \A q \in Scripts : script'[q].pc = IF q = p THEN pc ELSE script[q].pc
        /\ \A q \in Scripts \ {p} : script'[q] = script[q]
    BY <2>2, ScriptGoes DEF IInv
  <2> QED
    BY <2>1, <2>3 DEF CaOK, Making, Signs
<1>3. ASSUME NEW p \in Scripts, Kill(p), Goto(p, "failed") PROVE CaOK'
  BY <1>3, CaGoes DEF Kill, certs, ca, backend, history, Making
<1>4. CASE UNCHANGED <<key, root, crt, script, wipes>>
  BY <1>4 DEF CaOK, Signs
<1>5. ASSUME NEW p \in Scripts, ServerStep(p) \/ Kill(p)
      PROVE  \/ Kill(p) /\ Goto(p, "failed")
             \/ UNCHANGED <<key, root, crt, script, wipes>>
  BY <1>5 DEF ServerStep, Approach, Redirect, OpenDatabase, ReadCA, Announce, Bind, Load,
              Die, Kill, certs, ca, backend, history
<1>6. UNCHANGED vars => UNCHANGED <<key, root, crt, script, wipes>>
  BY DEF vars, certs, ca, backend, history
<1> QED
  BY <1>1, <1>2, <1>3, <1>4, <1>5, <1>6, WipeCertsCa, MakeCa, IssueCa, Steps

\* One server moves on, or none, and the CA stays.
LEMMA ServersMove ==
  ASSUME ServersOK, root' = root, wipes'.certs = wipes.certs, NEW p \in Scripts,
         \A q \in Scripts \ {p} : server'[q] = server[q], ServerOK(server[p])'
  PROVE  ServersOK'
BY DEF ServersOK, ServerOK

LEMMA ServersGo ==
  ASSUME IInv, ServersOK, NEW p \in Scripts, NEW pc, ServerGoto(p, pc) \/ Exit(p),
         pc \in {"announce", "bind", "load", "serving"} =>
           /\ server[p].pc \in {"announce", "bind"}
           /\ pc \in {"bind", "load"},
         root' = root, wipes' = wipes
  PROVE  ServersOK'
<1>1. CASE ServerGoto(p, pc)
  <2>1. /\ server'[p].pc = pc /\ \A q \in Scripts \ {p} : server'[q] = server[q]
        /\ server'[p].read = server[p].read /\ server'[p].pool = server[p].pool
    BY <1>1, ServerMoves DEF IInv
  <2>2. ServerOK(server[p])'
    BY <2>1 DEF ServersOK, ServerOK
  <2> QED
    BY <2>1, <2>2, ServersMove
<1>2. CASE Exit(p)
  <2>1. server'[p].pc = "gone" /\ \A q \in Scripts \ {p} : server'[q] = server[q]
    BY <1>2, ServerEnds DEF IInv
  <2> QED
    BY <2>1, ServersMove DEF ServerOK
<1> QED
  BY <1>1, <1>2

\* A server that has read the CA is overtaken by the wipe.
LEMMA WipeCertsServers ==
  ASSUME IInv, ServersOK, NEW p \in Scripts, WipeCerts(p)
  PROVE  ServersOK'
<1>1. server' = server
  BY DEF WipeCerts
<1> QED
  BY <1>1, Overtaken DEF ServersOK, ServerOK

LEMMA ServerStepServers ==
  ASSUME IInv, CaOK, ServersOK, NEW p \in Scripts, ServerStep(p)
  PROVE  ServersOK'
<1>1. root' = root /\ wipes' = wipes
  BY DEF ServerStep, Approach, Redirect, OpenDatabase, ReadCA, Announce, Bind, Load, Die,
         certs, ca, history
<1>2. server[p] \in Server /\ server \in [Scripts -> Server]
  BY DEF IInv, TypesOK
<1>3. CASE Redirect(p)
  <2>1. CASE Exit(p)
    BY <1>1, <2>1, ServersGo
  <2>2. CASE server' = [server EXCEPT ![p].pc = "open", ![p].log = wipes.data]
    <3>1. server'[p].pc = "open" /\ \A q \in Scripts \ {p} : server'[q] = server[q]
      BY <1>2, <2>2 DEF Server
    <3> QED
      BY <1>1, <3>1, ServersMove DEF ServerOK
  <2> QED
    BY <1>3, <2>1, <2>2 DEF Redirect
<1>4. CASE OpenDatabase(p)
  BY <1>1, <1>4, ServersGo DEF OpenDatabase
<1>5. CASE ReadCA(p)
  <2>1. CASE root = Absent
    BY <1>1, <1>5, <2>1, ServersGo DEF ReadCA
  <2>2. CASE root # Absent
    <3>1. server' = [server EXCEPT ![p].pc = "announce", ![p].pool = root,
                                   ![p].read = wipes.certs]
      BY <1>5, <2>2 DEF ReadCA
    <3>2. /\ server'[p].pc = "announce" /\ server'[p].pool = root
          /\ \A q \in Scripts \ {p} : server'[q] = server[q]
      BY <1>2, <3>1 DEF Server
    <3> QED
      BY <1>1, <2>2, <3>2, ServersMove DEF ServerOK
  <2> QED
    BY <2>1, <2>2
<1>6. CASE Announce(p)
  BY <1>1, <1>6, ServersGo DEF Announce, ServerAt
<1>7. CASE Bind(p)
  BY <1>1, <1>7, ServersGo DEF Bind, ServerAt
<1>8. CASE Load(p)
  <2>1. CASE Exit(p)
    BY <1>1, <2>1, ServersGo
  <2>2. CASE /\ crt # Absent
             /\ server' = [server EXCEPT ![p].pc = "serving", ![p].cert = crt.root]
    <3>1. /\ server'[p].pc = "serving" /\ server'[p].cert = crt.root
          /\ server'[p].pool = server[p].pool /\ server'[p].read = server[p].read
          /\ \A q \in Scripts \ {p} : server'[q] = server[q]
      BY <1>2, <2>2 DEF Server
    <3>2. server[p].pc = "load" /\ crt.root = root
      BY <1>8, <2>2 DEF Load, ServerAt, CaOK
    <3>3. ServerOK(server[p])'
      BY <1>1, <3>1, <3>2 DEF ServersOK, ServerOK
    <3> QED
      BY <1>1, <3>1, <3>3, ServersMove
  <2> QED
    BY <1>8, <2>1, <2>2 DEF Load
<1>9. CASE Die(p)
  BY <1>1, <1>9, ServersGo DEF Die
<1> QED
  BY <1>3, <1>4, <1>5, <1>6, <1>7, <1>8, <1>9 DEF ServerStep, Approach

\* A signal to a server, and a server that a script has started.
LEMMA StartStopServers ==
  ASSUME IInv, ServersOK, NEW p \in Scripts, RunStep(p) \/ Kill(p)
  PROVE  ServersOK'
<1>1. root' = root /\ wipes' = wipes
  BY DEF RunStep, FindServer, Fork, WritePid, Wait, Exec, Stop, RemovePid, Kill, certs, ca,
         history
<1>2. CASE Fork(p)
  <2>1. server'[p].pc = "redirect" /\ \A q \in Scripts \ {p} : server'[q] = server[q]
    BY <1>2 DEF Fork, IInv, TypesOK, Server
  <2> QED
    BY <1>1, <2>1, ServersMove DEF ServerOK
<1>3. CASE ServerGoto(p, "open") \/ ServerGoto(p, "dying")
  BY <1>1, <1>3, ServersGo
<1>4. CASE Stop(p) /\ data.pid \in Alive
  <2>1. data.pid \in Scripts /\ ServerGoto(data.pid, "dying")
    BY <1>4 DEF Stop, Alive, ServerGoto
  <2> QED
    BY <1>1, <2>1, ServersGo
<1>5. CASE UNCHANGED server
  BY <1>1, <1>5 DEF ServersOK, ServerOK
<1>6. \/ Fork(p) \/ ServerGoto(p, "open") \/ ServerGoto(p, "dying")
      \/ Stop(p) /\ data.pid \in Alive
      \/ UNCHANGED server
  BY DEF RunStep, FindServer, WritePid, Wait, Exec, Stop, RemovePid, Kill
<1> QED
  BY <1>2, <1>3, <1>4, <1>5, <1>6

LEMMA StepServers ==
  ASSUME IInv, CaOK, ServersOK, [Next]_vars
  PROVE  ServersOK'
<1>1. ASSUME NEW p \in Scripts, SelfSign(p) PROVE ServersOK'
  <2>1. root = Absent /\ UNCHANGED <<server, wipes>>
    BY <1>1 DEF SelfSign, At, CaOK, Making, history
  <2> QED
    BY <2>1 DEF ServersOK, ServerOK
<1>2. ASSUME NEW p \in Scripts, WipeData(p) PROVE ServersOK'
  <2>1. UNCHANGED <<root, server>> /\ wipes'.certs = wipes.certs
    BY <1>2, Numbered DEF WipeData, certs, ca, IInv
  <2> QED
    BY <2>1 DEF ServersOK, ServerOK
<1>3. CASE UNCHANGED <<root, wipes, server>>
  BY <1>3 DEF ServersOK, ServerOK
<1>4. ASSUME NEW p \in Scripts, NEW op \in Commands, Begin(p, op)
      PROVE  UNCHANGED <<root, wipes, server>>
  BY <1>4 DEF Begin, certs, ca
<1>5. ASSUME NEW p \in Scripts, MakeStep(p), ~SelfSign(p)
      PROVE  UNCHANGED <<root, wipes, server>>
  BY <1>5 DEF MakeStep, EnsureCa, InitCA, OpenKey, WriteKey, Chmod, certs, ca, history
<1>6. ASSUME NEW p \in Scripts, IssueStep(p)
      PROVE  UNCHANGED <<root, wipes, server>>
  BY <1>6 DEF IssueStep, EnsureBackend, Issue, OpenServerKey, WriteServerKey,
              RequestCertificate, ReadRequest, Sign, RemoveRequest, certs, ca, history
<1>7. UNCHANGED vars => UNCHANGED <<root, wipes, server>>
  BY DEF vars, certs, ca, history
<1> QED
  BY <1>1, <1>2, <1>3, <1>4, <1>5, <1>6, <1>7, WipeCertsServers, ServerStepServers,
     StartStopServers, Steps

\* Whatever overlaps and whatever is killed, a root certificate lies beside the
\* key it certifies, and a server that no wipe has overtaken trusts the root there
\* is and shows a certificate it has signed, as long as no two setups make a CA
\* at once and no issue of before a wipe signs into the certs/ made after it.
\* Other issues, wipes, starts, stops and a second init-ca may come in anywhere.
THEOREM OneMakerSuffices ==
  Spec /\ []OneMaker /\ []NoneOvertaken => [](RootHasKey /\ ServesPresentRoot)
<1>1. Init => CaOK /\ ServersOK
  <2> SUFFICES ASSUME Init PROVE CaOK /\ ServersOK
    OBVIOUS
  <2>1. /\ \A p \in Scripts : script[p].pc = "idle" /\ server[p].pc = "none"
        /\ root = Absent /\ crt = Absent
    BY DEF Init, Process
  <2> QED
    BY <2>1 DEF CaOK, Signs, Making, ServersOK, ServerOK
<1>2. /\ IInv /\ CaOK /\ ServersOK /\ OneMaker /\ NoneOvertaken /\ [Next]_vars
      => CaOK' /\ ServersOK'
  BY StepCa, StepServers
<1>3. CaOK /\ ServersOK => RootHasKey /\ ServesPresentRoot
  BY DEF CaOK, ServersOK, ServerOK, RootHasKey, ServesPresentRoot
<1> QED
  BY <1>1, <1>2, <1>3, Invariance, PTL DEF Spec

-----------------------------------------------------------------------------
(* The pid file.                                                           *)

\* It holds the server that is recorded, and a script that is to write or to
\* remove the file has found none.
PidOK ==
  /\ \A q \in Scripts : Recorded(q) => data.pid = q
  /\ \A p \in Scripts : script[p].pc \in PidWork => \A q \in Scripts : ~Recorded(q)

\* A script moves on that neither records a server nor touches one.
LEMMA PidKept ==
  ASSUME IInv, PidOK, NEW p \in Scripts, NEW pc, NEW era, NEW cert,
         Move(p, pc, era, cert),
         pc \in {"wait", "started", "done"} =>
           script[p].pc = "wait" \/ server[p].pc = "none",
         pc \in PidWork =>
           script[p].pc \in PidWork \/ \A q \in Scripts : ~Recorded(q),
         data'.pid = data.pid, UNCHANGED server, wipes'.data = wipes.data
  PROVE  PidOK'
<1>1. \A q \in Scripts : /\ script'[q].pc = IF q = p THEN pc ELSE script[q].pc
                         /\ script'[q].op = script[q].op
  <2>1. Move(p, pc, era, cert) /\ TypesOK
    BY DEF IInv
  <2> QED
    BY ONLY <2>1, ScriptMoves
<1>2. \A q \in Scripts : Recorded(q)' => Recorded(q)
  BY <1>1 DEF Recorded, Alive, ServerAt
<1>3. /\ \A q \in Scripts : Recorded(q) => data.pid = q
      /\ \A r \in Scripts : script[r].pc \in PidWork => \A q \in Scripts : ~Recorded(q)
  BY DEF PidOK
<1>4. \A q \in Scripts : Recorded(q)' => data'.pid = q
  BY <1>2, <1>3
<1>5. ASSUME NEW r \in Scripts, script'[r].pc \in PidWork
      PROVE  \A q \in Scripts : ~Recorded(q)'
  BY <1>1, <1>2, <1>3, <1>5
<1> QED
  BY <1>4, <1>5 DEF PidOK, PidWork

\* Servers move on, or end, and none of them comes to life again.
LEMMA PidServers ==
  ASSUME IInv, PidOK, UNCHANGED <<script, wipes>>, data'.pid = data.pid,
         \A q \in Scripts :
           \/ server'[q].pc \in Dead \cup {"dying"}
           \/ /\ server'[q].born = server[q].born
              /\ server[q].pc \notin Dead \cup {"dying"}
  PROVE  PidOK'
<1>1. \A q \in Scripts : Recorded(q)' => Recorded(q)
  BY DEF Recorded, Alive, ServerAt
<1> QED
  BY <1>1 DEF PidOK

\* One server moves on from where a process lives, or ends.
LEMMA PidServer ==
  ASSUME IInv, PidOK, NEW p \in Scripts, UNCHANGED <<script, wipes>>, data'.pid = data.pid,
         \A q \in Scripts \ {p} : server'[q] = server[q],
         \/ server'[p].pc \in {"gone", "dying"}
         \/ server'[p].born = server[p].born /\ server[p].pc \notin Dead \cup {"dying"}
  PROVE  PidOK'
BY PidServers

LEMMA ServerStepPid ==
  ASSUME IInv, PidOK, NEW p \in Scripts, ServerStep(p)
  PROVE  PidOK'
<1>1. UNCHANGED <<script, wipes>> /\ data'.pid = data.pid
  BY DEF ServerStep, Approach, Redirect, OpenDatabase, ReadCA, Announce, Bind, Load, Die,
         history, IInv, TypesOK, FilesOK
<1>2. CASE Exit(p)
  <2>1. server'[p].pc = "gone" /\ \A q \in Scripts \ {p} : server'[q] = server[q]
    BY <1>2, ServerEnds DEF IInv
  <2> QED
    BY <1>1, <2>1, PidServer
<1>3. CASE ~Exit(p)
  <2>1. \A q \in Scripts \ {p} : server'[q] = server[q]
    BY <1>3 DEF ServerStep, Approach, Redirect, OpenDatabase, ReadCA, Announce, Bind, Load,
                Die, ServerGoto, IInv, TypesOK
  <2>2. server'[p].born = server[p].born
    BY <1>3 DEF ServerStep, Approach, Redirect, OpenDatabase, ReadCA, Announce, Bind, Load,
                Die, ServerGoto, IInv, TypesOK, Server
  <2>3. server[p].pc \notin Dead \cup {"dying"}
    BY <1>3 DEF ServerStep, Approach, Redirect, OpenDatabase, ReadCA, Announce, Bind, Load,
                Die, ServerAt
  <2> QED
    BY <1>1, <2>1, <2>2, <2>3, PidServer
<1> QED
  BY <1>2, <1>3

\* The data/ that a server was born in is gone, and its record with it.
LEMMA WipeDataPid ==
  ASSUME IInv, PidOK, NEW p \in Scripts, WipeData(p)
  PROVE  PidOK'
<1>1. UNCHANGED server /\ wipes'.data = wipes.data + 1
  BY Numbered DEF WipeData, IInv
<1>2. ASSUME NEW q \in Scripts PROVE server[q].born # wipes.data + 1
  <2>1. wipes.data \in Nat /\ server[q].born \in Nat \cup {Absent}
    BY Numbered DEF IInv
  <2>2. CASE server[q].born = Absent
    <3>1. wipes.data + 1 \in Nat
      BY ONLY <2>1
    <3> QED
      BY <2>2, <3>1, LifecycleAssumption
  <2>3. CASE server[q].born # Absent
    <3>1. server[q].born \in Nat /\ server[q].born <= wipes.data
      BY <2>1, <2>3 DEF IInv, BoundsOK
    <3> QED
      BY ONLY <2>1, <3>1, Counting
  <2> QED
    BY <2>2, <2>3
<1>3. \A q \in Scripts : ~Recorded(q)'
  BY <1>1, <1>2 DEF Recorded
<1> QED
  BY <1>3 DEF PidOK

\* The starter forks only when the pid file names no live process.
LEMMA FindServerPid ==
  ASSUME IInv, PidOK, NEW p \in Scripts, FindServer(p)
  PROVE  PidOK'
<1>1. script[p].pc = "find" /\ data'.pid = data.pid /\ UNCHANGED <<server, wipes>>
  BY DEF FindServer, At, IInv, TypesOK, FilesOK, history
<1>2. server[p].pc = "none"
  BY <1>1 DEF IInv, ForkOK
<1>3. PICK pc \in {"done", "failed", "fork"} :
        Goto(p, pc) /\ (pc = "fork" => data.pid \notin Alive)
  BY DEF FindServer
<1>4. data.pid \notin Alive => \A q \in Scripts : ~Recorded(q)
  BY DEF PidOK, Recorded
<1> QED
  BY <1>1, <1>2, <1>3, <1>4, PidKept DEF Goto, PidWork

LEMMA ForkPid ==
  ASSUME IInv, PidOK, NEW p \in Scripts, Fork(p)
  PROVE  PidOK'
<1>1. /\ script[p].pc = "fork" /\ Goto(p, "pid file") /\ UNCHANGED <<data, wipes>>
      /\ server' = [server EXCEPT ![p].pc = "redirect", ![p].born = wipes.data]
  BY DEF Fork, At, history
<1>2. \A q \in Scripts \ {p} : server'[q] = server[q]
  BY <1>1 DEF IInv, TypesOK
<1>3. \A q \in Scripts : /\ script'[q].op = script[q].op
                         /\ script'[q].pc = IF q = p THEN "pid file" ELSE script[q].pc
  BY <1>1, ScriptGoes DEF IInv
<1>4. \A q \in Scripts : ~Recorded(q)
  BY <1>1 DEF PidOK, PidWork
<1>5. \A q \in Scripts : ~Recorded(q)'
  <2>1. ~Recorded(p)'
    BY <1>3 DEF Recorded
  <2>2. ASSUME NEW q \in Scripts \ {p} PROVE Recorded(q)' => Recorded(q)
    <3>1. /\ script'[q].op = script[q].op /\ script'[q].pc = script[q].pc
          /\ server'[q] = server[q] /\ wipes' = wipes
      BY <1>1, <1>2, <1>3
    <3> QED
      BY <3>1 DEF Recorded, Alive, ServerAt
  <2> QED
    BY <1>4, <2>1, <2>2
<1> QED
  BY <1>5 DEF PidOK

\* The pid is written by the only script that is about to change the file.
LEMMA WritePidPid ==
  ASSUME IInv, PidOK, OneRecorder, NEW p \in Scripts, WritePid(p)
  PROVE  PidOK'
<1>1. script[p].pc = "pid file" /\ UNCHANGED <<server, wipes>>
  BY DEF WritePid, At, history
<1>2. CASE Goto(p, "failed") /\ UNCHANGED data
  BY <1>1, <1>2, PidKept DEF Goto, PidWork
<1>3. CASE Goto(p, "wait") /\ data' = [data EXCEPT !.pid = p]
  <2>1. \A q \in Scripts : /\ script'[q].op = script[q].op
                           /\ script'[q].pc = IF q = p THEN "wait" ELSE script[q].pc
    BY <1>3, ScriptGoes DEF IInv
  <2>2. data'.pid = p
    BY <1>3 DEF IInv, TypesOK, FilesOK
  <2>3. \A q \in Scripts : ~Recorded(q)
    BY <1>1 DEF PidOK, PidWork
  <2>4. \A q \in Scripts \ {p} : ~Recorded(q)'
    BY <1>1, <2>1, <2>3 DEF Recorded, Alive, ServerAt
  <2>5. \A q \in Scripts : script'[q].pc \notin PidWork
    BY <1>1, <2>1 DEF OneRecorder, PidWork
  <2> QED
    BY <2>2, <2>4, <2>5 DEF PidOK
<1> QED
  BY <1>2, <1>3 DEF WritePid

\* A foreground server is on no record.
LEMMA ExecPid ==
  ASSUME IInv, PidOK, NEW p \in Scripts, Exec(p)
  PROVE  PidOK'
<1>1. /\ script[p].pc = "exec" /\ script[p].op = "foreground"
      /\ UNCHANGED <<data, wipes>>
  BY DEF Exec, At, IInv, ForkOK, history
<1>2. CASE Goto(p, "failed") /\ UNCHANGED server
  BY <1>1, <1>2, PidKept DEF Goto, PidWork
<1>3. CASE Goto(p, "done") /\ ServerGoto(p, "open")
  <2>1. \A q \in Scripts : /\ script'[q].op = script[q].op
                           /\ script'[q].pc = IF q = p THEN "done" ELSE script[q].pc
    BY <1>3, ScriptGoes DEF IInv
  <2>2. \A q \in Scripts \ {p} : server'[q] = server[q]
    BY <1>3, ServerMoves DEF IInv
  <2>3. \A q \in Scripts : Recorded(q)' => Recorded(q)
    BY <1>1, <2>1, <2>2 DEF Recorded, Alive, ServerAt
  <2> QED
    BY <1>1, <2>1, <2>3 DEF PidOK, PidWork
<1> QED
  BY <1>2, <1>3 DEF Exec

\* After the signal no server is on record any more.
LEMMA StopPid ==
  ASSUME IInv, PidOK, NEW p \in Scripts, Stop(p)
  PROVE  PidOK'
<1>1. script[p].pc = "stop" /\ UNCHANGED <<data, wipes>>
  BY DEF Stop, At, history
<1>2. PICK pc \in {"done", "rm pid"} : Goto(p, pc)
  BY DEF Stop
<1>3. \A q \in Scripts : /\ script'[q].op = script[q].op
                         /\ script'[q].pc = IF q = p THEN pc ELSE script[q].pc
  BY <1>2, ScriptGoes DEF IInv
<1>4. server[p].pc = "none"
  BY <1>1 DEF IInv, ForkOK
<1>5. \A q \in Scripts : Recorded(q) => data.pid = q
  BY DEF PidOK
<1>6. CASE data.pid \in Alive
  <2> DEFINE s == data.pid
  <2>1. s \in Scripts /\ ServerGoto(s, "dying") /\ s # p
    BY <1>4, <1>6 DEF Stop, Alive, ServerGoto
  <2>2. \A q \in Scripts : Recorded(q) => q = s
    BY <1>5
  <2> HIDE DEF s
  <2>3. server'[s].pc = "dying" /\ \A q \in Scripts \ {s} : server'[q] = server[q]
    BY <2>1, ServerMoves DEF IInv
  <2>4. ASSUME NEW q \in Scripts PROVE ~Recorded(q)'
    <3>1. CASE q = s
      BY <2>3, <3>1 DEF Recorded, ServerAt
    <3>2. CASE q = p
      BY <1>4, <2>1, <2>3, <3>2 DEF Recorded, Alive
    <3>3. CASE q # s /\ q # p
      <4>1. /\ script'[q].op = script[q].op /\ script'[q].pc = script[q].pc
            /\ server'[q] = server[q] /\ wipes' = wipes
        BY <1>1, <1>3, <2>3, <3>3
      <4> QED
        BY <2>2, <3>3, <4>1 DEF Recorded, Alive, ServerAt
    <3> QED
      BY <3>1, <3>2, <3>3
  <2> QED
    BY <2>4 DEF PidOK
<1>7. CASE data.pid \notin Alive
  <2>1. UNCHANGED server /\ \A q \in Scripts : ~Recorded(q)
    BY <1>5, <1>7 DEF Stop, Recorded
  <2> QED
    BY <1>1, <1>2, <1>4, <2>1, PidKept DEF Goto, PidWork
<1> QED
  BY <1>6, <1>7

LEMMA RemovePidPid ==
  ASSUME IInv, PidOK, NEW p \in Scripts, RemovePid(p)
  PROVE  PidOK'
<1>1. script[p].pc = "rm pid" /\ Goto(p, "done") /\ UNCHANGED <<server, wipes>>
  BY DEF RemovePid, At, history
<1>2. server[p].pc = "none"
  BY <1>1 DEF IInv, ForkOK
<1>3. \A q \in Scripts : /\ script'[q].op = script[q].op
                         /\ script'[q].pc = IF q = p THEN "done" ELSE script[q].pc
  BY <1>1, ScriptGoes DEF IInv
<1>4. \A q \in Scripts : ~Recorded(q)
  BY <1>1 DEF PidOK, PidWork
<1>5. \A q \in Scripts : ~Recorded(q)'
  BY <1>1, <1>2, <1>3, <1>4 DEF Recorded, Alive, ServerAt
<1> QED
  BY <1>5 DEF PidOK

\* The steps that have nothing to do with the pid file.
LEMMA OtherPid ==
  ASSUME IInv, PidOK, NEW p \in Scripts,
         WipeCerts(p) \/ MakeStep(p) \/ IssueStep(p) \/ Wait(p)
  PROVE  PidOK'
<1>1. UNCHANGED server /\ data'.pid = data.pid
  BY DEF WipeCerts, MakeStep, EnsureCa, InitCA, OpenKey, WriteKey, Chmod, SelfSign,
         IssueStep, EnsureBackend, Issue, OpenServerKey, WriteServerKey,
         RequestCertificate, ReadRequest, Sign, RemoveRequest, Wait, IInv, TypesOK, FilesOK
<1>2. wipes'.data = wipes.data
  BY Numbered DEF WipeCerts, MakeStep, EnsureCa, InitCA, OpenKey, WriteKey, Chmod,
     SelfSign, IssueStep, EnsureBackend, Issue, OpenServerKey, WriteServerKey,
     RequestCertificate, ReadRequest, Sign, RemoveRequest, Wait, IInv, history
<1>3. CASE Wait(p)
  <2>1. \E pc : Goto(p, pc) /\ pc \notin PidWork /\ script[p].pc = "wait"
    BY <1>3 DEF Wait, At, PidWork
  <2> QED
    BY <1>1, <1>2, <2>1, PidKept DEF Goto
<1>4. CASE ~Wait(p)
  <2>1. server[p].pc = "none"
    BY <1>4 DEF WipeCerts, MakeStep, EnsureCa, InitCA, OpenKey, WriteKey, Chmod, SelfSign,
       IssueStep, EnsureBackend, Issue, OpenServerKey, WriteServerKey,
       RequestCertificate, ReadRequest, Sign, RemoveRequest, At, IInv, ForkOK
  <2>2. CASE \E pc \in ScriptPc \ PidWork : Goto(p, pc)
    BY <1>1, <1>2, <2>1, <2>2, PidKept DEF Goto
  <2>3. CASE \E pc \in ScriptPc \ PidWork, cert \in Certificate :
               Move(p, pc, wipes.certs, cert)
    BY <1>1, <1>2, <2>1, <2>3, PidKept
  <2>4. \/ \E pc \in ScriptPc \ PidWork : Goto(p, pc)
        \/ \E pc \in ScriptPc \ PidWork, cert \in Certificate :
             Move(p, pc, wipes.certs, cert)
    <3>1. CASE WipeCerts(p) \/ EnsureCa(p) \/ InitCA(p) \/ WriteKey(p) \/ Chmod(p)
      BY <3>1 DEF WipeCerts, EnsureCa, InitCA, WriteKey, Chmod, PidWork, ScriptPc
    <3>2. CASE SelfSign(p) \/ OpenKey(p) \/ OpenServerKey(p)
      BY <3>2, Certificates DEF SelfSign, OpenKey, OpenServerKey, PidWork, ScriptPc
    <3>3. CASE \/ EnsureBackend(p) \/ Issue(p) \/ WriteServerKey(p)
               \/ RequestCertificate(p) \/ Sign(p) \/ RemoveRequest(p)
      BY <3>3 DEF EnsureBackend, Issue, WriteServerKey, RequestCertificate, Sign,
                  RemoveRequest, PidWork, ScriptPc
    <3>4. CASE ReadRequest(p)
      BY <3>4, Certificates DEF ReadRequest, PidWork, ScriptPc, IInv, TypesOK, FilesOK, File
    <3> QED
      BY <1>4, <3>1, <3>2, <3>3, <3>4 DEF MakeStep, IssueStep
  <2> QED
    BY <2>2, <2>3, <2>4
<1> QED
  BY <1>3, <1>4

LEMMA KillPid ==
  ASSUME IInv, PidOK, NEW p \in Scripts, Kill(p)
  PROVE  PidOK'
<1>1. UNCHANGED <<data, wipes>>
  BY DEF Kill, history
<1>2. CASE ServerGoto(p, "dying") /\ UNCHANGED script
  <2>1. server'[p].pc = "dying" /\ \A q \in Scripts \ {p} : server'[q] = server[q]
    BY <1>2, ServerMoves DEF IInv
  <2> QED
    BY <1>1, <1>2, <2>1, PidServer
<1>3. CASE Goto(p, "failed") /\ UNCHANGED server
  BY <1>1, <1>3, PidKept DEF Goto, PidWork
<1> QED
  BY <1>2, <1>3 DEF Kill

LEMMA StepPid ==
  ASSUME IInv, PidOK, OneRecorder, [Next]_vars
  PROVE  PidOK'
<1>1. ASSUME NEW p \in Scripts, NEW op \in Commands, Begin(p, op)
      PROVE  PidOK'
  <2>1. /\ UNCHANGED <<data, server, wipes>>
        /\ \A q \in Scripts \ {p} : script'[q] = script[q]
        /\ script'[p].pc \notin PidWork \cup {"wait", "started", "done"}
    BY <1>1, ScriptBegins, Firsts DEF IInv, PidWork
  <2>2. \A q \in Scripts : Recorded(q)' => Recorded(q)
    BY <2>1 DEF Recorded, Alive, ServerAt
  <2> QED
    BY <2>1, <2>2 DEF PidOK
<1>2. CASE UNCHANGED vars
  <2>1. UNCHANGED <<script, server, wipes, data>>
    BY <1>2 DEF vars, history
  <2> QED
    BY <2>1 DEF PidOK, Recorded, Alive, ServerAt
<1> QED
  BY <1>1, <1>2, OtherPid, WipeDataPid, FindServerPid, ForkPid, WritePidPid, KillPid,
     ExecPid, StopPid, RemovePidPid, ServerStepPid, Steps DEF RunStep

\* Whatever overlaps and whatever is killed, as long as no two scripts are about
\* to change the pid file at once, a background server that is running and whose
\* data/ has not been wiped is the one in the file, which --stop signals.
THEOREM OneRecorderSuffices == Spec /\ []OneRecorder => []PidReaches
<1>1. Init => PidOK
  <2> SUFFICES ASSUME Init PROVE PidOK
    OBVIOUS
  <2>1. \A p \in Scripts : script[p].pc = "idle"
    BY DEF Init
  <2> QED
    BY <2>1 DEF PidOK, Recorded, PidWork
<1>2. IInv /\ PidOK /\ OneRecorder /\ [Next]_vars => PidOK'
  BY StepPid
<1>3. PidOK => PidReaches
  BY DEF PidOK, PidReaches
<1> QED
  BY <1>1, <1>2, <1>3, Invariance, PTL DEF Spec

-----------------------------------------------------------------------------
(* The key and the certificate of the backend.                             *)

HasDir == "backend" \in dirs

\* Files and writers of certs/issued/backend-server are gone with it.
DirOK ==
  /\ srvkey # Absent \/ csr # Absent => HasDir
  /\ \A p \in Scripts :
       script[p].pc = "write server key" /\ script[p].era = wipes.certs => HasDir

\* A script that issues works on its own key and request, unless its directory is
\* gone, and a setup does so only where there was no certificate.
Chain(p) ==
  /\ HasDir =>
       /\ script[p].pc = "write server key" => script[p].era = wipes.certs
       /\ script[p].pc \in {"server req", "x509", "sign"} => srvkey = p
       /\ script[p].pc = "x509" => csr \in {p, Absent}
       /\ script[p].pc = "sign" => script[p].crt # Absent /\ script[p].crt.key = p
  /\ script[p].pc \in Issuing /\ script[p].op # "issue" => crt = Absent

ChainOK == \A p \in Scripts : Chain(p)

\* Where a hand-run issue is, and where it has not replaced the key, or has
\* written the certificate of it.
Hand == Issuing \cup {"rm csr", "done", "failed"}
Whole == {"issue", "server genrsa", "rm csr", "done"}

HandOK == \A p \in Scripts : script[p].op = "issue" => script[p].pc \in Hand

HandsWhole == \A p \in Scripts : script[p].op = "issue" => script[p].pc \in Whole

PairOK == HandsWhole /\ crt # Absent => crt.key = srvkey

\* What the steps that issue nothing leave alone, and who may take them.
Apart ==
  /\ UNCHANGED <<srvkey, csr, crt>> /\ wipes'.certs = wipes.certs /\ HasDir' = HasDir
  /\ \A q \in Scripts :
       \/ script'[q] = script[q]
       \/ /\ script[q].pc = "idle" /\ script'[q].pc \notin Issuing \ {"issue"}
          /\ script'[q].pc = "issue" <=> script'[q].op = "issue"
       \/ /\ script'[q].op = script[q].op /\ script'[q].pc \notin Issuing
          /\ script[q].pc \notin Hand \/ script'[q].pc = "failed"

LEMMA OtherSteps ==
  ASSUME IInv, [Next]_vars,
         ~\E p \in Scripts : WipeCerts(p) \/ IssueStep(p)
  PROVE  Apart
<1>1. ASSUME NEW p \in Scripts, NEW op \in Commands, Begin(p, op) PROVE Apart
  <2>1. /\ script[p].pc = "idle" /\ script'[p].pc = FirstStep[op] /\ script'[p].op = op
        /\ \A q \in Scripts \ {p} : script'[q] = script[q]
        /\ UNCHANGED <<certs, wipes>>
    BY <1>1, ScriptBegins DEF IInv
  <2>2. /\ FirstStep[op] \notin Issuing \ {"issue"}
        /\ FirstStep[op] = "issue" <=> op = "issue"
    BY Firsts DEF Issuing
  <2>3. UNCHANGED <<srvkey, csr, crt>> /\ dirs' = dirs
    BY <2>1 DEF certs, backend
  <2> QED
    BY <2>1, <2>2, <2>3 DEF Apart, HasDir
<1>2. ASSUME NEW p \in Scripts,
             \/ WipeData(p) \/ MakeStep(p) \/ RunStep(p)
             \/ Kill(p) /\ Goto(p, "failed")
      PROVE  Apart
  <2>1. UNCHANGED <<srvkey, csr, crt>> /\ wipes'.certs = wipes.certs
    <3>1. UNCHANGED <<srvkey, csr, crt>>
      BY <1>2 DEF WipeData, MakeStep, EnsureCa, InitCA, OpenKey, WriteKey, Chmod, SelfSign,
         RunStep, FindServer, Fork, WritePid, Wait, Exec, Stop, RemovePid, Kill, certs,
         backend
    <3>2. wipes'.certs = wipes.certs
      BY <1>2, Numbered DEF WipeData, MakeStep, EnsureCa, InitCA, OpenKey, WriteKey, Chmod,
         SelfSign, RunStep, FindServer, Fork, WritePid, Wait, Exec, Stop, RemovePid, Kill,
         history, IInv
    <3> QED
      BY <3>1, <3>2
  <2>2. HasDir' = HasDir
    <3>1. dirs' = dirs \/ dirs' = dirs \cup {"ca"}
      BY <1>2 DEF WipeData, MakeStep, EnsureCa, InitCA, OpenKey, WriteKey, Chmod, SelfSign,
         RunStep, FindServer, Fork, WritePid, Wait, Exec, Stop, RemovePid, Kill, certs
    <3> QED
      BY <3>1 DEF HasDir
  <2>3. ASSUME NEW pc, /\ script'[p].pc = pc /\ script'[p].op = script[p].op
                       /\ \A q \in Scripts \ {p} : script'[q] = script[q],
               pc \notin Issuing, script[p].pc \notin Hand \/ pc = "failed"
        PROVE  Apart
    BY <2>1, <2>2, <2>3 DEF Apart
  <2>4. CASE OpenKey(p) /\ Move(p, "write key", wipes.certs, Absent)
    <3>1. Move(p, "write key", wipes.certs, Absent) /\ TypesOK
      BY <2>4 DEF IInv
    <3>2. /\ script'[p].pc = "write key" /\ script'[p].op = script[p].op
          /\ \A q \in Scripts \ {p} : script'[q] = script[q]
      BY ONLY <3>1, ScriptMoves
    <3>3. script[p].pc = "genrsa"
      BY <2>4 DEF OpenKey, At
    <3> QED
      BY <2>3, <3>2, <3>3 DEF Hand, Issuing
  <2>5. CASE ~(OpenKey(p) /\ Move(p, "write key", wipes.certs, Absent))
    <3>1. PICK pc : /\ Goto(p, pc) /\ pc \notin Issuing
                    /\ script[p].pc \notin Hand \/ pc = "failed"
      <4>1. CASE WipeData(p) \/ EnsureCa(p) \/ InitCA(p) \/ WriteKey(p) \/ Chmod(p)
        BY <4>1 DEF WipeData, EnsureCa, InitCA, WriteKey, Chmod, At, Hand, Issuing
      <4>2. CASE SelfSign(p)
        BY <4>2 DEF SelfSign, At, Hand, Issuing
      <4>3. CASE FindServer(p) \/ Fork(p) \/ WritePid(p) \/ Wait(p)
        BY <4>3 DEF FindServer, Fork, WritePid, Wait, At, Hand, Issuing
      <4>4. CASE Exec(p) \/ Stop(p) \/ RemovePid(p)
        BY <4>4 DEF Exec, Stop, RemovePid, At, Hand, Issuing
      <4>5. CASE Goto(p, "failed")
        BY <4>5 DEF Issuing
      <4>6. OpenKey(p) => Goto(p, "failed")
        BY <2>5 DEF OpenKey
      <4> QED
        BY <1>2, <4>1, <4>2, <4>3, <4>4, <4>5, <4>6 DEF MakeStep, RunStep
    <3>2. /\ script'[p].pc = pc /\ script'[p].op = script[p].op
          /\ \A q \in Scripts \ {p} : script'[q] = script[q]
      BY <3>1, ScriptGoes DEF IInv
    <3> QED
      BY <2>3, <3>1, <3>2
  <2> QED
    BY <2>4, <2>5
<1>3. CASE UNCHANGED <<srvkey, csr, crt, dirs, script, wipes>>
  <2>1. HasDir' = HasDir
    BY <1>3 DEF HasDir
  <2>2. \A q \in Scripts : script'[q] = script[q]
    BY <1>3
  <2>3. UNCHANGED <<srvkey, csr, crt>> /\ wipes'.certs = wipes.certs
    BY <1>3
  <2> QED
    BY <2>1, <2>2, <2>3 DEF Apart
<1>4. ASSUME NEW p \in Scripts, ServerStep(p) \/ (Kill(p) /\ UNCHANGED script)
      PROVE  UNCHANGED <<srvkey, csr, crt, dirs, script, wipes>>
  BY <1>4 DEF ServerStep, Approach, Redirect, OpenDatabase, ReadCA, Announce, Bind, Load,
              Die, Kill, certs, backend, history
<1>5. ASSUME NEW p \in Scripts, Kill(p)
      PROVE  UNCHANGED script \/ Goto(p, "failed")
  BY <1>5 DEF Kill
<1>6. UNCHANGED vars => UNCHANGED <<srvkey, csr, crt, dirs, script, wipes>>
  BY DEF vars, certs, backend, history
<1>7. ASSUME NEW p \in Scripts, ServerStep(p) \/ Kill(p) PROVE Apart
  BY <1>2, <1>3, <1>4, <1>5, <1>7
<1>8. ASSUME UNCHANGED vars PROVE Apart
  BY <1>3, <1>6, <1>8
<1>9. ASSUME NEW p \in Scripts, WipeData(p) \/ MakeStep(p) \/ RunStep(p) PROVE Apart
  BY <1>2, <1>9
<1> QED
  BY <1>1, <1>7, <1>8, <1>9, Steps

\* A step that issues nothing.
LEMMA ApartKeeps ==
  ASSUME DirOK, ChainOK, HandOK, PairOK, Apart
  PROVE  DirOK' /\ ChainOK' /\ HandOK' /\ PairOK'
<1>1. /\ UNCHANGED <<srvkey, csr, crt>> /\ wipes'.certs = wipes.certs /\ HasDir' = HasDir
  BY DEF Apart
<1>2. ASSUME NEW q \in Scripts
      PROVE  \/ script'[q] = script[q]
             \/ /\ script[q].pc = "idle" /\ script'[q].pc \notin Issuing \ {"issue"}
                /\ script'[q].pc = "issue" <=> script'[q].op = "issue"
             \/ /\ script'[q].op = script[q].op /\ script'[q].pc \notin Issuing
                /\ script[q].pc \notin Hand \/ script'[q].pc = "failed"
  BY DEF Apart
<1>3. DirOK'
  BY <1>1, <1>2 DEF DirOK, Issuing
<1>4. ASSUME NEW q \in Scripts PROVE Chain(q)'
  <2>1. Chain(q)
    BY DEF ChainOK
  <2>2. CASE script'[q] = script[q]
    BY <1>1, <2>1, <2>2 DEF Chain
  <2>3. CASE script'[q] # script[q]
    <3>1. \/ script'[q].pc \notin Issuing
          \/ script'[q].pc = "issue" /\ script'[q].op = "issue"
      BY <1>2, <2>3
    <3> QED
      BY <3>1 DEF Chain, Issuing
  <2> QED
    BY <2>2, <2>3
<1>5. ASSUME NEW q \in Scripts, script'[q].op = "issue"
      PROVE  /\ script'[q].pc \in Hand
             /\ script'[q].pc \in Whole /\ script[q].op = "issue" => script[q].pc \in Whole
  BY <1>2, <1>5 DEF HandOK, Hand, Whole, Issuing
<1>6. HandOK'
  BY <1>5 DEF HandOK
<1>7. HandsWhole' => HandsWhole
  <2>1. ASSUME NEW q \in Scripts, script[q].op = "issue", HandsWhole'
        PROVE  script[q].pc \in Whole
    <3>1. script[q].pc \in Hand
      BY <2>1 DEF HandOK
    <3>2. script'[q] = script[q] \/ script'[q].op = "issue"
      BY <1>2, <2>1, <3>1 DEF Hand, Issuing
    <3>3. script'[q].op = "issue" => script'[q].pc \in Whole
      BY <2>1 DEF HandsWhole
    <3> QED
      BY <1>5, <2>1, <3>2, <3>3
  <2> QED
    BY <2>1 DEF HandsWhole
<1>8. PairOK'
  BY <1>1, <1>7 DEF PairOK
<1> QED
  BY <1>3, <1>4, <1>6, <1>8 DEF ChainOK

\* The wipe takes everything with it.
LEMMA WipeKeeps ==
  ASSUME IInv, HandOK, NEW p \in Scripts, WipeCerts(p)
  PROVE  DirOK' /\ ChainOK' /\ HandOK' /\ PairOK'
<1>1. srvkey' = Absent /\ csr' = Absent /\ crt' = Absent /\ ~HasDir'
  BY DEF WipeCerts, HasDir
<1>2. /\ \A q \in Scripts : /\ script'[q].op = script[q].op
                            /\ script'[q].pc = IF q = p THEN "wipe data" ELSE script[q].pc
      /\ \A q \in Scripts \ {p} : script'[q] = script[q]
  BY ScriptGoes DEF WipeCerts, IInv
<1>3. \A q \in Scripts :
        ~(script'[q].pc = "write server key" /\ script'[q].era = wipes'.certs)
  BY <1>2, Overtaken
<1>4. HandOK'
  BY <1>2 DEF HandOK, Hand, Issuing, WipeCerts, At
<1> QED
  BY <1>1, <1>3, <1>4 DEF DirOK, ChainOK, Chain, PairOK

\* A step that issues, seen from another script.
LEMMA IssueOthers ==
  ASSUME IInv, ChainOK, OneIssuer, NEW p \in Scripts, IssueStep(p),
         NEW q \in Scripts \ {p}
  PROVE  Chain(q)' /\ script'[q] = script[q]
<1>1. script'[q] = script[q]
  <2>1. CASE \E pc : Goto(p, pc)
    BY <2>1, ScriptGoes DEF IInv
  <2>2. CASE \E pc, era, cert : Move(p, pc, era, cert)
    <3>1. TypesOK
      BY DEF IInv
    <3> QED
      BY <2>2, <3>1, ScriptMoves
  <2>3. (\E pc : Goto(p, pc)) \/ (\E pc, era, cert : Move(p, pc, era, cert))
    BY DEF IssueStep, EnsureBackend, Issue, OpenServerKey, WriteServerKey,
           RequestCertificate, ReadRequest, Sign, RemoveRequest
  <2> QED
    BY <2>1, <2>2, <2>3
<1>2. Chain(q)
  BY DEF ChainOK
<1>3. wipes' = wipes
  BY DEF IssueStep, EnsureBackend, Issue, OpenServerKey, WriteServerKey,
         RequestCertificate, ReadRequest, Sign, RemoveRequest, history
<1>4. CASE script[q].pc \notin Issuing
  BY <1>1, <1>4 DEF Chain, Issuing
<1>5. CASE script[q].pc \in Issuing
  <2>1. script[p].pc \notin Issuing
    BY <1>5 DEF OneIssuer
  <2>2. EnsureBackend(p) \/ RemoveRequest(p)
    BY <2>1 DEF IssueStep, Issue, OpenServerKey, WriteServerKey, RequestCertificate,
                ReadRequest, Sign, At, Issuing
  <2>3. /\ UNCHANGED <<srvkey, crt, dirs>>
        /\ csr' = csr \/ csr' = Absent
    BY <2>2 DEF EnsureBackend, RemoveRequest, certs, backend
  <2> QED
    BY <1>1, <1>2, <1>3, <2>3 DEF Chain, HasDir
<1> QED
  BY <1>1, <1>4, <1>5

\* The script that issues.
LEMMA IssueSelf ==
  ASSUME IInv, DirOK, ChainOK, HandOK, NEW p \in Scripts, IssueStep(p)
  PROVE  /\ Chain(p)' /\ DirOK'
         /\ script'[p].op = script[p].op
         /\ script'[p].op = "issue" => script'[p].pc \in Hand
<1> DEFINE c == script[p]
<1>1. Chain(p) /\ (c.op = "issue" => c.pc \in Hand)
  BY DEF ChainOK, HandOK
<1>2. TypesOK /\ wipes' = wipes
  BY DEF IInv, IssueStep, EnsureBackend, Issue, OpenServerKey, WriteServerKey,
         RequestCertificate, ReadRequest, Sign, RemoveRequest, history
<1>3. ASSUME NEW q \in Scripts \ {p} PROVE script'[q] = script[q]
  <2>1. CASE \E pc : Goto(p, pc)
    BY <1>2, <2>1, ScriptGoes
  <2>2. CASE \E pc, era, cert : Move(p, pc, era, cert)
    BY <1>2, <2>2, ScriptMoves
  <2>3. (\E pc : Goto(p, pc)) \/ (\E pc, era, cert : Move(p, pc, era, cert))
    BY DEF IssueStep, EnsureBackend, Issue, OpenServerKey, WriteServerKey,
           RequestCertificate, ReadRequest, Sign, RemoveRequest
  <2> QED
    BY <2>1, <2>2, <2>3
<1>4. ASSUME NEW pc, Goto(p, pc)
      PROVE  script'[p].pc = pc /\ script'[p].op = c.op
  BY <1>2, <1>4, ScriptGoes
<1>5. ASSUME NEW pc, NEW era, NEW cert, Move(p, pc, era, cert)
      PROVE  /\ script'[p].pc = pc /\ script'[p].op = c.op
             /\ script'[p].era = era /\ script'[p].crt = cert
  BY ONLY <1>2, <1>5, ScriptMoves
<1>6. ASSUME script'[p].pc # "write server key",
             srvkey' # Absent \/ csr' # Absent => HasDir',
             HasDir => HasDir'
      PROVE  DirOK'
  BY <1>2, <1>3, <1>6 DEF DirOK
<1> HIDE DEF c
<1>7. CASE EnsureBackend(p)
  <2>1. UNCHANGED <<srvkey, csr, crt, dirs>> /\ c.pc = "ensure backend"
    BY <1>7 DEF EnsureBackend, At, certs, backend, c
  <2>2. c.op # "issue"
    BY <1>1, <2>1 DEF Hand, Issuing
  <2>3. PICK pc \in {"failed", "issue"} : Goto(p, pc) /\ (pc = "issue" => crt = Absent)
    BY <1>7 DEF EnsureBackend
  <2>4. script'[p].pc = pc /\ script'[p].op = c.op
    BY <1>4, <2>3
  <2>5. Chain(p)'
    BY <2>1, <2>3, <2>4 DEF Chain, Issuing
  <2>6. DirOK'
    BY <1>6, <2>1, <2>4 DEF DirOK, HasDir
  <2> QED
    BY <2>2, <2>4, <2>5, <2>6 DEF c
<1>8. CASE Issue(p)
  <2>1. UNCHANGED <<srvkey, csr, crt>> /\ HasDir' /\ c.pc = "issue"
    BY <1>8 DEF Issue, At, backend, c, HasDir
  <2>2. script'[p].pc = "server genrsa" /\ script'[p].op = c.op
    BY <1>4, <1>8 DEF Issue
  <2>3. Chain(p)'
    BY <1>1, <2>1, <2>2 DEF Chain, Issuing, c
  <2>4. DirOK'
    BY <1>6, <2>1, <2>2
  <2> QED
    BY <2>2, <2>3, <2>4 DEF c, Hand, Issuing
<1>9. CASE OpenServerKey(p)
  <2>1. UNCHANGED <<csr, crt, dirs>> /\ HasDir' = HasDir /\ c.pc = "server genrsa"
    BY <1>9 DEF OpenServerKey, At, c, HasDir
  <2>2. CASE HasDir
    <3>1. Move(p, "write server key", wipes.certs, Absent)
      BY <1>9, <2>2 DEF OpenServerKey, HasDir
    <3>2. /\ script'[p].pc = "write server key" /\ script'[p].op = c.op
          /\ script'[p].era = wipes.certs
      BY <1>5, <3>1
    <3>3. Chain(p)'
      BY <1>1, <1>2, <2>1, <3>2 DEF Chain, Issuing, c
    <3>4. DirOK'
      BY <2>1, <2>2 DEF DirOK
    <3> QED
      BY <3>2, <3>3, <3>4 DEF c, Hand, Issuing
  <2>3. CASE ~HasDir
    <3>1. Goto(p, "failed") /\ srvkey' = srvkey
      BY <1>9, <2>3 DEF OpenServerKey, HasDir
    <3>2. script'[p].pc = "failed" /\ script'[p].op = c.op
      BY <1>4, <3>1
    <3>3. Chain(p)'
      BY <3>2 DEF Chain, Issuing
    <3>4. DirOK'
      BY <1>6, <2>1, <3>1, <3>2 DEF DirOK
    <3> QED
      BY <3>2, <3>3, <3>4 DEF c, Hand
  <2> QED
    BY <2>2, <2>3
<1>10. CASE WriteServerKey(p)
  <2>1. /\ UNCHANGED <<csr, crt, dirs>> /\ HasDir' = HasDir /\ c.pc = "write server key"
        /\ srvkey' = IF c.era = wipes.certs THEN p ELSE srvkey
    BY <1>10 DEF WriteServerKey, At, c, HasDir
  <2>2. script'[p].pc = "server req" /\ script'[p].op = c.op
    BY <1>4, <1>10 DEF WriteServerKey
  <2>3. Chain(p)'
    BY <1>1, <2>1, <2>2 DEF Chain, Issuing, c
  <2>4. DirOK'
    BY <1>6, <2>1, <2>2 DEF DirOK, c
  <2> QED
    BY <2>2, <2>3, <2>4 DEF c, Hand, Issuing
<1>11. CASE RequestCertificate(p)
  <2>1. UNCHANGED <<srvkey, crt, dirs>> /\ HasDir' = HasDir /\ c.pc = "server req"
    BY <1>11 DEF RequestCertificate, At, c, HasDir
  <2>2. CASE srvkey \in Scripts
    <3>1. Goto(p, "x509") /\ csr' = srvkey
      BY <1>11, <2>2 DEF RequestCertificate
    <3>2. script'[p].pc = "x509" /\ script'[p].op = c.op
      BY <1>4, <3>1
    <3>3. Chain(p)'
      BY <1>1, <2>1, <3>1, <3>2 DEF Chain, Issuing, c
    <3>4. DirOK'
      BY <1>6, <2>1, <2>2, <3>1, <3>2, Numbers DEF DirOK
    <3> QED
      BY <3>2, <3>3, <3>4 DEF c, Hand, Issuing
  <2>3. CASE srvkey \notin Scripts
    <3>1. Goto(p, "failed") /\ csr' = csr
      BY <1>11, <2>3 DEF RequestCertificate
    <3>2. script'[p].pc = "failed" /\ script'[p].op = c.op
      BY <1>4, <3>1
    <3>3. Chain(p)'
      BY <3>2 DEF Chain, Issuing
    <3>4. DirOK'
      BY <1>6, <2>1, <3>1, <3>2 DEF DirOK
    <3> QED
      BY <3>2, <3>3, <3>4 DEF c, Hand
  <2> QED
    BY <2>2, <2>3
<1>12. CASE ReadRequest(p)
  <2>1. UNCHANGED <<srvkey, csr, crt, dirs>> /\ HasDir' = HasDir /\ c.pc = "x509"
    BY <1>12 DEF ReadRequest, At, c, HasDir, certs, backend
  <2>2. CASE csr \in Scripts /\ root # Absent /\ key = root
    <3> DEFINE cert == [root |-> root, key |-> csr]
    <3>1. Move(p, "sign", wipes.certs, cert)
      BY <1>12, <2>2 DEF ReadRequest
    <3>2. cert # Absent /\ cert.key = csr
      BY <2>2, Certificates DEF IInv, TypesOK, FilesOK, File
    <3> HIDE DEF cert
    <3>3. script'[p].pc = "sign" /\ script'[p].op = c.op /\ script'[p].crt = cert
      BY <1>5, <3>1
    <3>4. HasDir => csr = p
      BY <1>1, <2>1, <2>2, Numbers DEF Chain, c
    <3>5. Chain(p)'
      BY <1>1, <2>1, <3>2, <3>3, <3>4 DEF Chain, Issuing, c
    <3>6. DirOK'
      BY <1>6, <2>1, <3>3 DEF DirOK
    <3> QED
      BY <3>3, <3>5, <3>6 DEF c, Hand, Issuing
  <2>3. CASE ~(csr \in Scripts /\ root # Absent /\ key = root)
    <3>1. Goto(p, "failed")
      BY <1>12, <2>3 DEF ReadRequest
    <3>2. script'[p].pc = "failed" /\ script'[p].op = c.op
      BY <1>4, <3>1
    <3>3. Chain(p)'
      BY <3>2 DEF Chain, Issuing
    <3>4. DirOK'
      BY <1>6, <2>1, <3>2 DEF DirOK
    <3> QED
      BY <3>2, <3>3, <3>4 DEF c, Hand
  <2> QED
    BY <2>2, <2>3
<1>13. CASE Sign(p) \/ RemoveRequest(p)
  <2>1. /\ srvkey' = srvkey /\ HasDir' = HasDir
        /\ csr' = csr \/ csr' = Absent
    BY <1>13 DEF Sign, RemoveRequest, HasDir
  <2>2. PICK pc \in {"rm csr", "failed", "done"} : Goto(p, pc)
    BY <1>13 DEF Sign, RemoveRequest
  <2>3. script'[p].pc = pc /\ script'[p].op = c.op
    BY <1>4, <2>2
  <2>4. Chain(p)'
    BY <2>3 DEF Chain, Issuing
  <2>5. DirOK'
    BY <1>6, <2>1, <2>3 DEF DirOK
  <2> QED
    BY <2>3, <2>4, <2>5 DEF c, Hand
<1> QED
  BY <1>7, <1>8, <1>9, <1>10, <1>11, <1>12, <1>13 DEF IssueStep

\* The certificate is written beside the key it certifies, and no setup replaces
\* a key while there is a certificate.
LEMMA IssuePair ==
  ASSUME IInv, ChainOK, HandOK, PairOK, NEW p \in Scripts, IssueStep(p),
         \A q \in Scripts \ {p} : script'[q] = script[q],
         script'[p].op = script[p].op
  PROVE  PairOK'
<1> SUFFICES ASSUME HandsWhole', crt' # Absent PROVE crt'.key = srvkey'
  BY DEF PairOK
<1>1. Chain(p)
  BY DEF ChainOK
<1>2. ASSUME NEW pc, Goto(p, pc) PROVE script'[p].pc = pc
  BY <1>2, ScriptGoes DEF IInv
<1>3. CASE Sign(p) /\ HasDir
  <2>1. /\ script[p].pc = "sign" /\ crt' = script[p].crt /\ srvkey' = srvkey
    BY <1>3 DEF Sign, At, HasDir
  <2> QED
    BY <1>1, <1>3, <2>1 DEF Chain
<1>4. CASE OpenServerKey(p) \/ WriteServerKey(p)
  <2>1. script[p].pc \in Issuing /\ crt' = crt
    BY <1>4 DEF OpenServerKey, WriteServerKey, At, Issuing
  <2>2. script[p].op = "issue"
    BY <1>1, <2>1 DEF Chain
  <2>3. script'[p].pc \notin Whole
    <3>1. CASE \E pc \in {"failed", "server req"} : Goto(p, pc)
      BY <1>2, <3>1 DEF Whole
    <3>2. CASE Move(p, "write server key", wipes.certs, Absent)
      <4>1. TypesOK
        BY DEF IInv
      <4>2. script'[p].pc = "write server key"
        BY ONLY <3>2, <4>1, ScriptMoves
      <4> QED
        BY <4>2 DEF Whole
    <3> QED
      BY <1>4, <3>1, <3>2 DEF OpenServerKey, WriteServerKey
  <2> QED
    BY <2>2, <2>3 DEF HandsWhole
<1>5. ASSUME crt' = crt, srvkey' = srvkey,
             script[p].op = "issue" /\ script'[p].pc \in Whole => script[p].pc \in Whole
      PROVE  crt'.key = srvkey'
  <2>1. HandsWhole
    BY <1>5 DEF HandsWhole
  <2> QED
    BY <1>5, <2>1 DEF PairOK
<1>6. CASE EnsureBackend(p)
  <2>1. script[p].op # "issue"
    BY <1>6 DEF EnsureBackend, At, HandOK, Hand, Issuing
  <2> QED
    BY <1>5, <1>6, <2>1 DEF EnsureBackend, certs, backend
<1>7. CASE Issue(p) \/ RemoveRequest(p)
  <2>1. script[p].pc \in Whole
    BY <1>7 DEF Issue, RemoveRequest, At, Whole
  <2> QED
    BY <1>5, <1>7, <2>1 DEF Issue, RemoveRequest, backend
<1>8. CASE RequestCertificate(p) \/ (Sign(p) /\ ~HasDir)
  <2>1. PICK pc \in {"x509", "failed"} : Goto(p, pc)
    BY <1>8 DEF RequestCertificate, Sign, HasDir
  <2>2. script'[p].pc \notin Whole
    BY <1>2, <2>1 DEF Whole
  <2> QED
    BY <1>5, <1>8, <2>2 DEF RequestCertificate, Sign, HasDir
<1>9. CASE ReadRequest(p)
  <2>1. script'[p].pc \notin Whole
    <3>1. CASE Goto(p, "failed")
      BY <1>2, <3>1 DEF Whole
    <3>2. CASE Move(p, "sign", wipes.certs, [root |-> root, key |-> csr])
      <4>1. TypesOK
        BY DEF IInv
      <4>2. script'[p].pc = "sign"
        BY ONLY <3>2, <4>1, ScriptMoves
      <4> QED
        BY <4>2 DEF Whole
    <3> QED
      BY <1>9, <3>1, <3>2 DEF ReadRequest
  <2> QED
    BY <1>5, <1>9, <2>1 DEF ReadRequest, certs, backend
<1> QED
  BY <1>3, <1>4, <1>6, <1>7, <1>8, <1>9 DEF IssueStep

LEMMA StepPair ==
  ASSUME IInv, DirOK, ChainOK, HandOK, PairOK, OneIssuer, [Next]_vars
  PROVE  DirOK' /\ ChainOK' /\ HandOK' /\ PairOK'
<1>1. ASSUME NEW p \in Scripts, IssueStep(p)
      PROVE  DirOK' /\ ChainOK' /\ HandOK' /\ PairOK'
  <2>1. /\ Chain(p)' /\ DirOK' /\ script'[p].op = script[p].op
        /\ script'[p].op = "issue" => script'[p].pc \in Hand
    BY <1>1, IssueSelf
  <2>2. \A q \in Scripts \ {p} : Chain(q)' /\ script'[q] = script[q]
    BY <1>1, IssueOthers
  <2>3. HandOK'
    BY <2>1, <2>2 DEF HandOK
  <2>4. ChainOK'
    BY <2>1, <2>2 DEF ChainOK
  <2>5. PairOK'
    BY <1>1, <2>1, <2>2, IssuePair
  <2> QED
    BY <2>1, <2>3, <2>4, <2>5
<1> QED
  BY <1>1, WipeKeeps, OtherSteps, ApartKeeps

LEMMA InitPair == Init => DirOK /\ ChainOK /\ HandOK /\ PairOK
<1> SUFFICES ASSUME Init PROVE DirOK /\ ChainOK /\ HandOK /\ PairOK
  OBVIOUS
<1>1. /\ \A p \in Scripts : script[p].pc = "idle" /\ script[p].op = "none"
      /\ srvkey = Absent /\ csr = Absent /\ crt = Absent
  BY DEF Init
<1> QED
  BY <1>1 DEF DirOK, ChainOK, Chain, HandOK, PairOK, Issuing

\* Whatever overlaps and whatever is killed, as long as no two scripts issue the
\* backend's certificate at once it lies beside the key it certifies, unless a
\* hand-run issue is under way or was cut short.
THEOREM OneIssuerSuffices == Spec /\ []OneIssuer => []Pair
<1>1. IInv /\ DirOK /\ ChainOK /\ HandOK /\ PairOK /\ OneIssuer /\ [Next]_vars
        => DirOK' /\ ChainOK' /\ HandOK' /\ PairOK'
  BY StepPair
<1>2. PairOK => Pair
  BY DEF PairOK, HandsWhole, Whole, Pair
<1> QED
  BY <1>1, <1>2, InitPair, Invariance, PTL DEF Spec

-----------------------------------------------------------------------------
(* One after another.                                                      *)

OneUnderWay == \A p, q \in UnderWay : p = q

\* Nothing has been wiped since the certificate to be written was made.
EraOK == \A p \in Scripts : script[p].pc = "sign" => script[p].era = wipes.certs

\* What holds as long as the scripts run one after another.
AInv ==
  alone => /\ OneUnderWay /\ EraOK /\ CaOK /\ ServersOK /\ PidOK
           /\ DirOK /\ ChainOK /\ HandOK /\ PairOK

\* A script that takes a step is under way, and the others stay where they are.
LEMMA Acting ==
  ASSUME IInv, NEW p \in Scripts,
         WipeCerts(p) \/ WipeData(p) \/ MakeStep(p) \/ IssueStep(p) \/ RunStep(p)
  PROVE  /\ p \in UnderWay /\ alone' = alone
         /\ \A q \in Scripts \ {p} : script'[q] = script[q]
<1>1. p \in UnderWay
  BY DEF WipeCerts, WipeData, MakeStep, EnsureCa, InitCA, OpenKey, WriteKey, Chmod,
         SelfSign, IssueStep, EnsureBackend, Issue, OpenServerKey, WriteServerKey,
         RequestCertificate, ReadRequest, Sign, RemoveRequest, RunStep, FindServer, Fork,
         WritePid, Wait, Exec, Stop, RemovePid, At, UnderWay
<1>2. alone' = alone
  BY DEF WipeCerts, WipeData, MakeStep, EnsureCa, InitCA, OpenKey, WriteKey, Chmod,
         SelfSign, IssueStep, EnsureBackend, Issue, OpenServerKey, WriteServerKey,
         RequestCertificate, ReadRequest, Sign, RemoveRequest, RunStep, FindServer, Fork,
         WritePid, Wait, Exec, Stop, RemovePid, history
<1>3. (\E pc : Goto(p, pc)) \/ (\E pc, era, cert : Move(p, pc, era, cert))
  BY DEF WipeCerts, WipeData, MakeStep, EnsureCa, InitCA, OpenKey, WriteKey, Chmod,
         SelfSign, IssueStep, EnsureBackend, Issue, OpenServerKey, WriteServerKey,
         RequestCertificate, ReadRequest, Sign, RemoveRequest, RunStep, FindServer, Fork,
         WritePid, Wait, Exec, Stop, RemovePid
<1>4. TypesOK
  BY DEF IInv
<1>5. CASE \E pc : Goto(p, pc)
  BY <1>1, <1>2, <1>4, <1>5, ScriptGoes
<1>6. CASE \E pc, era, cert : Move(p, pc, era, cert)
  BY <1>1, <1>2, <1>4, <1>6, ScriptMoves
<1> QED
  BY <1>3, <1>5, <1>6

\* A script begins while no other is under way, or none begins at all.
LEMMA StepAlone ==
  ASSUME IInv, alone => OneUnderWay, [Next]_vars, alone'
  PROVE  alone /\ OneUnderWay'
<1>1. ASSUME NEW p \in Scripts, NEW op \in Commands, Begin(p, op)
      PROVE  alone /\ OneUnderWay'
  <2>1. /\ alone /\ UnderWay = {}
        /\ \A q \in Scripts \ {p} : script'[q] = script[q]
    BY <1>1, ScriptBegins DEF IInv
  <2> QED
    BY <2>1 DEF OneUnderWay, UnderWay
<1>2. ASSUME NEW p \in Scripts, p \in UnderWay, alone' = alone,
             \A q \in Scripts \ {p} : script'[q] = script[q]
      PROVE  alone /\ OneUnderWay'
  BY <1>2 DEF OneUnderWay, UnderWay
<1>3. CASE alone' = alone /\ UNCHANGED script
  BY <1>3 DEF OneUnderWay, UnderWay
<1>4. ASSUME NEW p \in Scripts,
             WipeCerts(p) \/ WipeData(p) \/ MakeStep(p) \/ IssueStep(p) \/ RunStep(p)
      PROVE  alone /\ OneUnderWay'
  BY <1>2, <1>4, Acting
<1>5. ASSUME NEW p \in Scripts, ServerStep(p)
      PROVE  alone' = alone /\ UNCHANGED script
  BY <1>5 DEF ServerStep, Approach, Redirect, OpenDatabase, ReadCA, Announce, Bind, Load,
              Die, history
<1>6. ASSUME NEW p \in Scripts, Kill(p)
      PROVE  alone /\ OneUnderWay'
  <2>1. alone' = alone /\ (UNCHANGED script \/ (p \in UnderWay /\ Goto(p, "failed")))
    BY <1>6 DEF Kill, history
  <2>2. CASE UNCHANGED script
    BY <1>3, <2>1, <2>2
  <2>3. CASE p \in UnderWay /\ Goto(p, "failed")
    <3>1. \A q \in Scripts \ {p} : script'[q] = script[q]
      BY <2>3, ScriptGoes DEF IInv
    <3> QED
      BY <1>2, <2>1, <2>3, <3>1
  <2> QED
    BY <2>1, <2>2, <2>3
<1>7. UNCHANGED vars => alone' = alone /\ UNCHANGED script
  BY DEF vars, history
<1> QED
  BY <1>1, <1>3, <1>4, <1>5, <1>6, <1>7, Steps

LEMMA StepEra ==
  ASSUME IInv, OneUnderWay, EraOK, [Next]_vars
  PROVE  EraOK'
<1>1. ASSUME NEW p \in Scripts, WipeCerts(p) PROVE EraOK'
  <2>1. script'[p].pc = "wipe data" /\ \A q \in Scripts \ {p} : script'[q] = script[q]
    BY <1>1, ScriptGoes DEF WipeCerts, IInv
  <2>2. \A q \in Scripts \ {p} : q \notin UnderWay
    BY <1>1, Acting DEF OneUnderWay
  <2> QED
    BY <2>1, <2>2 DEF EraOK, UnderWay
<1>2. ASSUME Apart PROVE EraOK'
  BY <1>2 DEF Apart, EraOK, Issuing
<1>3. ASSUME NEW p \in Scripts, IssueStep(p) PROVE EraOK'
  <2>1. wipes' = wipes /\ \A q \in Scripts \ {p} : script'[q] = script[q]
    BY <1>3, Acting DEF IssueStep, EnsureBackend, Issue, OpenServerKey, WriteServerKey,
       RequestCertificate, ReadRequest, Sign, RemoveRequest, history
  <2>2. script'[p].pc = "sign" => script'[p].era = wipes.certs
    <3>1. ASSUME NEW pc, NEW cert, Move(p, pc, wipes.certs, cert)
          PROVE  script'[p].era = wipes.certs
      <4>1. TypesOK
        BY DEF IInv
      <4> QED
        BY ONLY <3>1, <4>1, ScriptMoves
    <3>2. CASE \E pc \in ScriptPc \ {"sign"} : Goto(p, pc)
      BY <3>2, ScriptGoes DEF IInv
    <3>3. CASE EnsureBackend(p) \/ Issue(p) \/ WriteServerKey(p) \/ RequestCertificate(p)
      <4>1. \E pc \in ScriptPc \ {"sign"} : Goto(p, pc)
        BY <3>3 DEF EnsureBackend, Issue, WriteServerKey, RequestCertificate, ScriptPc
      <4> QED
        BY <3>2, <4>1
    <3>4. CASE Sign(p) \/ RemoveRequest(p)
      <4>1. \E pc \in ScriptPc \ {"sign"} : Goto(p, pc)
        BY <3>4 DEF Sign, RemoveRequest, ScriptPc
      <4> QED
        BY <3>2, <4>1
    <3>5. CASE OpenServerKey(p) \/ ReadRequest(p)
      <4>1. CASE Goto(p, "failed")
        BY <3>2, <4>1 DEF ScriptPc
      <4>2. CASE ~Goto(p, "failed")
        BY <3>1, <3>5, <4>2 DEF OpenServerKey, ReadRequest
      <4> QED
        BY <4>1, <4>2
    <3> QED
      BY <1>3, <3>3, <3>4, <3>5 DEF IssueStep
  <2> QED
    BY <2>1, <2>2 DEF EraOK
<1> QED
  BY <1>1, <1>2, <1>3, OtherSteps

LEMMA NextAlone == ASSUME IInv, AInv, [Next]_vars PROVE AInv'
<1> SUFFICES ASSUME alone'
             PROVE  /\ OneUnderWay' /\ EraOK' /\ CaOK' /\ ServersOK' /\ PidOK'
                    /\ DirOK' /\ ChainOK' /\ HandOK' /\ PairOK'
  BY DEF AInv
<1>1. alone /\ OneUnderWay'
  BY StepAlone DEF AInv
<1>2. /\ OneUnderWay /\ EraOK /\ CaOK /\ ServersOK /\ PidOK
      /\ DirOK /\ ChainOK /\ HandOK /\ PairOK
  BY <1>1 DEF AInv
<1>3. OneMaker /\ NoneOvertaken /\ OneRecorder /\ OneIssuer
  BY <1>2 DEF OneUnderWay, UnderWay, OneMaker, OneRecorder, OneIssuer, Making, PidWork,
              Issuing, EraOK, NoneOvertaken
<1> QED
  BY <1>1, <1>2, <1>3, StepEra, StepCa, StepServers, StepPid, StepPair

LEMMA InitAlone == Init => AInv
<1> SUFFICES ASSUME Init PROVE AInv
  OBVIOUS
<1>1. /\ \A p \in Scripts : script[p].pc = "idle" /\ server[p].pc = "none"
      /\ root = Absent /\ crt = Absent
  BY DEF Init, Process
<1>2. OneUnderWay /\ EraOK /\ PidOK
  BY <1>1 DEF OneUnderWay, UnderWay, EraOK, PidOK, Recorded, PidWork
<1>3. CaOK /\ ServersOK
  BY <1>1 DEF CaOK, Signs, Making, ServersOK, ServerOK
<1> QED
  BY <1>2, <1>3, InitPair DEF AInv

LEMMA AloneInvariance == Spec => []AInv
<1>1. IInv /\ AInv /\ [Next]_vars => AInv'
  BY NextAlone
<1> QED
  BY <1>1, InitAlone, Invariance, PTL DEF Spec

\* As long as the scripts are run one after another, a root certificate lies
\* beside the key it certifies, however often one of them is killed.
THEOREM RootMatches == Spec => []RootMatchesKey
<1>1. AInv => RootMatchesKey
  BY DEF AInv, CaOK, RootMatchesKey
<1> QED
  BY <1>1, AloneInvariance, PTL

\* And a server that no wipe has overtaken serves with the CA there is.
THEOREM ServesPresent == Spec => []ServesThePresentCA
<1>1. AInv => ServesThePresentCA
  BY DEF AInv, ServersOK, ServerOK, ServesThePresentCA
<1> QED
  BY <1>1, AloneInvariance, PTL

\* And a background server whose data/ is still there is the one in the pid
\* file, which run-server.sh --stop signals.
THEOREM StopReaches == Spec => []StopReachesTheServer
<1>1. AInv => StopReachesTheServer
  BY DEF AInv, PidOK, Recorded, StopReachesTheServer
<1> QED
  BY <1>1, AloneInvariance, PTL

\* And a certificate of the backend lies beside the key it certifies, unless a
\* hand-run issue was cut short.
THEOREM BackendPair == Spec => []BackendIsAPair
<1>1. AInv => BackendIsAPair
  BY DEF AInv, PairOK, HandsWhole, Whole, BackendIsAPair, At
<1> QED
  BY <1>1, AloneInvariance, PTL

-----------------------------------------------------------------------------
(* Whatever overlaps, a start that nothing has disturbed leads to service. *)

Life ==
  {"redirect", "open", "ca", "announce", "bind", "load", "serving", "dying"}
Launching == {"fork", "pid file", "wait", "started"}
AfterKey == {"server req", "x509", "sign", "rm csr"} \cup Ended

\* Whoever's key has been used has written it; no script makes a second one.
Used(k) ==
  \/ srvkey = k \/ csr = k
  \/ crt # Absent /\ crt.key = k
  \/ \E p \in Scripts : script[p].crt # Absent /\ script[p].crt.key = k

UsedOK == \A k \in Scripts : Used(k) => script[k].pc \in AfterKey

\* A certificate of the key that lies there was signed by a CA since the last
\* wipe.
RootOK ==
  /\ crt # Absent /\ crt.key = srvkey => root # Absent
  /\ \A p \in Scripts : script[p].crt # Absent /\ script[p].crt.key = srvkey =>
       root # Absent

\* The port is held from the listen to the end of the process.
PortOK ==
  /\ port # Absent => port \in Scripts /\ server[port].pc \in {"load", "serving", "dying"}
  /\ \A p \in Scripts : server[p].pc \in {"load", "serving"} => port = p

Mismatch == crt.key # srvkey

\* Somebody is there to serve, or a later start is right to fail.
Provided(p) == server[p].pc \in Life \/ port # Absent \/ Mismatch

StartOK ==
  \A p \in Scripts : script[p].pc \in Launching /\ p \notin disturbed =>
    /\ crt # Absent /\ data.made
    /\ script[p].pc # "fork" => Provided(p)

\* The steps of a script: what it takes in hand, and which step it may go to.
Going(p, pc, cert) ==
  /\ \/ cert = Absent
     \/ /\ ReadRequest(p) /\ csr \in Scripts /\ root \in Scripts
        /\ cert = [root |-> root, key |-> csr]
  /\ script[p].pc \notin Ended
  /\ script[p].pc \in AfterKey => pc \in AfterKey
  /\ pc = "fork" => FindServer(p) /\ crt # Absent
  /\ pc = "pid file" => Fork(p)
  /\ pc = "wait" => script[p].pc = "pid file"
  /\ pc = "started" => script[p].pc = "wait"

LEMMA Goings ==
  ASSUME IInv, NEW p \in Scripts,
         \/ WipeCerts(p) \/ WipeData(p) \/ MakeStep(p) \/ IssueStep(p) \/ RunStep(p)
         \/ Kill(p) /\ ~UNCHANGED script
  PROVE  \E pc, era, cert : Move(p, pc, era, cert) /\ Going(p, pc, cert)
<1>1. ASSUME NEW pc, Goto(p, pc), Going(p, pc, Absent)
      PROVE  \E a, era, cert : Move(p, a, era, cert) /\ Going(p, a, cert)
  BY <1>1 DEF Goto
<1>2. CASE WipeCerts(p) \/ WipeData(p) \/ EnsureCa(p) \/ InitCA(p)
  BY <1>1, <1>2 DEF WipeCerts, WipeData, EnsureCa, InitCA, At, Going, AfterKey
<1>3. CASE WriteKey(p) \/ Chmod(p)
  BY <1>1, <1>3 DEF WriteKey, Chmod, At, Going, AfterKey
<1>4. CASE OpenKey(p)
  <2>1. CASE Goto(p, "failed")
    BY <1>1, <1>4, <2>1 DEF OpenKey, At, Going, AfterKey
  <2>2. CASE Move(p, "write key", wipes.certs, Absent)
    <3>1. Going(p, "write key", Absent)
      BY <1>4 DEF OpenKey, At, Going, AfterKey
    <3> QED
      BY <2>2, <3>1
  <2> QED
    BY <1>4, <2>1, <2>2 DEF OpenKey
<1>5. CASE SelfSign(p)
  BY <1>1, <1>5 DEF SelfSign, At, Going, AfterKey
<1>6. CASE EnsureBackend(p) \/ Issue(p) \/ WriteServerKey(p)
  BY <1>1, <1>6 DEF EnsureBackend, Issue, WriteServerKey, At, Going, AfterKey
<1>7. CASE OpenServerKey(p)
  <2>1. CASE Goto(p, "failed")
    BY <1>1, <1>7, <2>1 DEF OpenServerKey, At, Going, AfterKey
  <2>2. CASE Move(p, "write server key", wipes.certs, Absent)
    <3>1. Going(p, "write server key", Absent)
      BY <1>7 DEF OpenServerKey, At, Going, AfterKey
    <3> QED
      BY <2>2, <3>1
  <2> QED
    BY <1>7, <2>1, <2>2 DEF OpenServerKey
<1>8. CASE RequestCertificate(p) \/ Sign(p) \/ RemoveRequest(p)
  BY <1>1, <1>8 DEF RequestCertificate, Sign, RemoveRequest, At, Going, AfterKey
<1>9. CASE ReadRequest(p)
  <2>1. CASE Goto(p, "failed")
    BY <1>1, <1>9, <2>1 DEF ReadRequest, At, Going, AfterKey
  <2>2. CASE /\ csr \in Scripts /\ root # Absent
             /\ Move(p, "sign", wipes.certs, [root |-> root, key |-> csr])
    <3>1. root \in Scripts
      BY <2>2 DEF IInv, TypesOK, FilesOK, File
    <3>2. Going(p, "sign", [root |-> root, key |-> csr])
      BY <1>9, <2>2, <3>1 DEF ReadRequest, At, Going, AfterKey
    <3> QED
      BY <2>2, <3>2
  <2> QED
    BY <1>9, <2>1, <2>2 DEF ReadRequest
<1>10. CASE FindServer(p)
  BY <1>1, <1>10 DEF FindServer, At, Going, AfterKey
<1>11. CASE Fork(p) \/ WritePid(p) \/ Wait(p)
  BY <1>1, <1>11 DEF Fork, WritePid, Wait, At, Going, AfterKey
<1>12. CASE Exec(p) \/ Stop(p) \/ RemovePid(p)
  BY <1>1, <1>12 DEF Exec, Stop, RemovePid, At, Going, AfterKey
<1>13. CASE Kill(p) /\ ~UNCHANGED script
  <2>1. Goto(p, "failed") /\ script[p].pc \notin Ended
    BY <1>13 DEF Kill, UnderWay
  <2> QED
    BY <1>1, <2>1 DEF Going, AfterKey
<1> QED
  BY <1>2, <1>3, <1>4, <1>5, <1>6, <1>7, <1>8, <1>9, <1>10, <1>11, <1>12, <1>13
     DEF MakeStep, IssueStep, RunStep

LEMMA ScriptFrame ==
  ASSUME IInv, [Next]_vars, NEW q \in Scripts
  PROVE  \/ script'[q] = script[q]
         \/ /\ script[q].pc = "idle" /\ script'[q].pc \notin Launching
            /\ script'[q].crt = Absent
         \/ /\ script'[q].op = script[q].op
            /\ Going(q, script'[q].pc, script'[q].crt)
<1> DEFINE Frame == \/ script'[q] = script[q]
                    \/ /\ script[q].pc = "idle" /\ script'[q].pc \notin Launching
                       /\ script'[q].crt = Absent
                    \/ /\ script'[q].op = script[q].op
                       /\ Going(q, script'[q].pc, script'[q].crt)
<1>1. ASSUME NEW p \in Scripts, NEW op \in Commands, Begin(p, op) PROVE Frame
  <2>1. /\ script[p].pc = "idle" /\ script'[p].pc = FirstStep[op] /\ script'[p].crt = Absent
        /\ \A r \in Scripts \ {p} : script'[r] = script[r]
    BY <1>1, ScriptBegins DEF IInv
  <2>2. FirstStep[op] \notin Launching
    BY Firsts DEF Launching
  <2> QED
    BY <2>1, <2>2
<1>2. ASSUME NEW p \in Scripts,
             \/ WipeCerts(p) \/ WipeData(p) \/ MakeStep(p) \/ IssueStep(p) \/ RunStep(p)
             \/ Kill(p) /\ ~UNCHANGED script
      PROVE  Frame
  <2>1. PICK pc, era, cert : Move(p, pc, era, cert) /\ Going(p, pc, cert)
    BY <1>2, Goings
  <2>2. Move(p, pc, era, cert) /\ TypesOK
    BY <2>1 DEF IInv
  <2>3. /\ script'[p].pc = pc /\ script'[p].crt = cert /\ script'[p].op = script[p].op
        /\ \A r \in Scripts \ {p} : script'[r] = script[r]
    BY ONLY <2>2, ScriptMoves
  <2> QED
    BY <2>1, <2>3
<1>3. ASSUME NEW p \in Scripts, ServerStep(p) \/ (Kill(p) /\ UNCHANGED script)
      PROVE  Frame
  BY <1>3 DEF ServerStep, Approach, Redirect, OpenDatabase, ReadCA, Announce, Bind, Load,
              Die
<1>4. CASE UNCHANGED vars
  BY <1>4 DEF vars
<1> QED
  BY <1>1, <1>2, <1>3, <1>4, Steps

\* What becomes of the backend's files and of the root.
LEMMA FilesFrame ==
  ASSUME IInv, [Next]_vars
  PROVE  /\ \/ srvkey' \in {srvkey, Absent, Empty}
            \/ \E p \in Scripts : /\ script[p].pc = "write server key"
                                  /\ script'[p].pc = "server req" /\ srvkey' = p
         /\ csr' \in {csr, Absent, srvkey}
         /\ crt' \in {crt, Absent} \/ \E p \in Scripts : crt' = script[p].crt
         /\ root # Absent => root' # Absent \/ (crt' = Absent /\ srvkey' = Absent)
<1> DEFINE Frame ==
      /\ \/ srvkey' \in {srvkey, Absent, Empty}
         \/ \E p \in Scripts : /\ script[p].pc = "write server key"
                               /\ script'[p].pc = "server req" /\ srvkey' = p
      /\ csr' \in {csr, Absent, srvkey}
      /\ crt' \in {crt, Absent} \/ \E p \in Scripts : crt' = script[p].crt
      /\ root # Absent => root' # Absent \/ (crt' = Absent /\ srvkey' = Absent)
<1>1. CASE UNCHANGED <<srvkey, csr, crt, root>>
  BY <1>1
<1>2. ASSUME NEW p \in Scripts, SelfSign(p) PROVE Frame
  <2>1. UNCHANGED <<srvkey, csr, crt>> /\ root' \in {root, key}
        /\ (root' = root \/ key \in Scripts)
    BY <1>2 DEF SelfSign, backend
  <2> QED
    BY <2>1, Numbers
<1>3. ASSUME NEW p \in Scripts, WipeCerts(p) PROVE Frame
  BY <1>3 DEF WipeCerts
<1>4. ASSUME NEW p \in Scripts, WriteServerKey(p) PROVE Frame
  <2>1. script[p].pc = "write server key" /\ script'[p].pc = "server req"
    BY <1>4, ScriptGoes DEF WriteServerKey, At, IInv
  <2>2. UNCHANGED <<csr, crt, root>> /\ srvkey' \in {p, srvkey}
    BY <1>4 DEF WriteServerKey, ca
  <2> QED
    BY <2>1, <2>2
<1>5. ASSUME NEW p \in Scripts,
             \/ EnsureBackend(p) \/ Issue(p) \/ OpenServerKey(p) \/ RequestCertificate(p)
             \/ ReadRequest(p) \/ Sign(p) \/ RemoveRequest(p)
      PROVE  Frame
  <2>1. root' = root /\ srvkey' \in {srvkey, Empty} /\ csr' \in {csr, Absent, srvkey}
    BY <1>5 DEF EnsureBackend, Issue, OpenServerKey, RequestCertificate, ReadRequest, Sign,
                RemoveRequest, certs, ca, backend
  <2>2. crt' = crt \/ crt' = script[p].crt
    BY <1>5 DEF EnsureBackend, Issue, OpenServerKey, RequestCertificate, ReadRequest, Sign,
                RemoveRequest, certs, backend
  <2> QED
    BY <2>1, <2>2
<1>6. ASSUME NEW p \in Scripts,
             \/ \E op \in Commands : Begin(p, op)
             \/ WipeData(p) \/ EnsureCa(p) \/ InitCA(p) \/ OpenKey(p) \/ WriteKey(p)
             \/ Chmod(p)
      PROVE  UNCHANGED <<srvkey, csr, crt, root>>
  BY <1>6 DEF Begin, WipeData, EnsureCa, InitCA, OpenKey, WriteKey, Chmod, certs, ca,
              backend
<1>7. ASSUME NEW p \in Scripts, RunStep(p) \/ ServerStep(p) \/ Kill(p)
      PROVE  UNCHANGED <<srvkey, csr, crt, root>>
  BY <1>7 DEF RunStep, FindServer, Fork, WritePid, Wait, Exec, Stop, RemovePid, ServerStep,
              Approach, Redirect, OpenDatabase, ReadCA, Announce, Bind, Load, Die, Kill,
              certs, ca, backend
<1>8. UNCHANGED vars => UNCHANGED <<srvkey, csr, crt, root>>
  BY DEF vars, certs, ca, backend
<1> QED
  BY <1>1, <1>2, <1>3, <1>4, <1>5, <1>6, <1>7, <1>8, Steps DEF MakeStep, IssueStep

LEMMA StepUsed ==
  ASSUME IInv, UsedOK, [Next]_vars
  PROVE  UsedOK'
<1> SUFFICES ASSUME NEW k \in Scripts, Used(k)' PROVE script'[k].pc \in AfterKey
  BY DEF UsedOK
<1>1. script[k].pc \in AfterKey => script'[k].pc \in AfterKey
  <2>1. "idle" \notin AfterKey
    BY DEF AfterKey
  <2> QED
    BY <2>1, ScriptFrame DEF Going
<1>2. k # Absent /\ k # Empty
  BY Numbers
<1>3. Used(k) \/ script'[k].pc = "server req"
  <2>1. CASE srvkey' = k
    BY <1>2, <2>1, FilesFrame DEF Used
  <2>2. CASE csr' = k
    BY <1>2, <2>2, FilesFrame DEF Used
  <2>3. CASE crt' # Absent /\ crt'.key = k
    BY <2>3, FilesFrame DEF Used
  <2>4. ASSUME NEW p \in Scripts, script'[p].crt # Absent, script'[p].crt.key = k
        PROVE  Used(k)
    <3>1. \/ script'[p] = script[p]
          \/ csr \in Scripts /\ script'[p].crt = [root |-> root, key |-> csr]
      BY <2>4, ScriptFrame DEF Going
    <3> QED
      BY <2>4, <3>1 DEF Used
  <2> QED
    BY <2>1, <2>2, <2>3, <2>4 DEF Used
<1>4. "server req" \in AfterKey
  BY DEF AfterKey
<1> QED
  BY <1>1, <1>3, <1>4 DEF UsedOK

LEMMA StepRoot ==
  ASSUME IInv, UsedOK, RootOK, [Next]_vars
  PROVE  RootOK'
<1>1. ASSUME NEW c \in Certificate \ {Absent}, c.key = srvkey',
             \/ c = crt \/ \E p \in Scripts : c = script[p].crt
      PROVE  root' # Absent
  <2>1. c.key \in Scripts /\ c.key # Absent /\ c.key # Empty
    BY Certificates, Numbers
  <2>2. Used(c.key)
    BY <1>1 DEF Used
  <2>3. script[c.key].pc # "write server key"
    BY <2>1, <2>2 DEF UsedOK, AfterKey
  <2>4. srvkey' = srvkey
    BY <1>1, <2>1, <2>3, FilesFrame
  <2>5. root # Absent
    BY <1>1, <2>4 DEF RootOK
  <2> QED
    BY <1>1, <2>1, <2>5, FilesFrame
<1>2. /\ crt \in Certificate
      /\ \A p \in Scripts : script[p].crt \in Certificate
  BY DEF IInv, TypesOK, FilesOK, Script
<1>3. crt' # Absent /\ crt'.key = srvkey' => root' # Absent
  BY <1>1, <1>2, FilesFrame
<1>4. ASSUME NEW p \in Scripts, script'[p].crt # Absent, script'[p].crt.key = srvkey'
      PROVE  root' # Absent
  <2>1. CASE script'[p] = script[p]
    BY <1>1, <1>2, <1>4, <2>1
  <2>2. CASE /\ csr \in Scripts /\ root \in Scripts
             /\ script'[p].crt = [root |-> root, key |-> csr]
    <3>1. root # Absent /\ srvkey' # Absent
      BY <1>4, <2>2, Numbers
    <3> QED
      BY <3>1, FilesFrame
  <2> QED
    BY <1>4, <2>1, <2>2, ScriptFrame DEF Going
<1> QED
  BY <1>3, <1>4 DEF RootOK

\* A server step: from where to where, and what it needs for it.
Goes(q) ==
  \/ /\ server[q].pc = "redirect" /\ port' = port
     /\ server'[q].pc = IF data.made THEN "open" ELSE "gone"
  \/ server[q].pc = "open" /\ server'[q].pc = "ca" /\ port' = port
  \/ /\ server[q].pc = "ca" /\ port' = port
     /\ server'[q].pc = IF root = Absent THEN "gone" ELSE "announce"
  \/ server[q].pc = "announce" /\ server'[q].pc = "bind" /\ port' = port
  \/ server[q].pc = "bind" /\ port = Absent /\ server'[q].pc = "load" /\ port' = q
  \/ server[q].pc = "bind" /\ port # Absent /\ server'[q].pc = "gone" /\ port' = port
  \/ /\ server[q].pc = "load" /\ crt # Absent /\ crt.key = srvkey
     /\ server'[q].pc = "serving" /\ port' = port
  \/ /\ server[q].pc = "load" /\ ~(crt # Absent /\ crt.key = srvkey)
     /\ server'[q].pc = "gone" /\ port' = Absent
  \/ /\ server[q].pc = "dying" /\ server'[q].pc = "gone" /\ Disturb
     /\ port' = IF port = q THEN Absent ELSE port

\* Where a server is after a step of somebody else.
Stays(q) ==
  \/ server'[q].pc = server[q].pc
  \/ server[q].pc = "none" /\ server'[q].pc \in {"redirect", "open"}
  \/ server[q].pc \notin Dead /\ server'[q].pc = "dying"

LEMMA ServerPcs ==
  ASSUME IInv, NEW q \in Scripts, ServerStep(q)
  PROVE  Goes(q) /\ \A r \in Scripts \ {q} : server'[r] = server[r]
<1>1. ASSUME NEW pc, ServerGoto(q, pc)
      PROVE  server'[q].pc = pc /\ \A r \in Scripts \ {q} : server'[r] = server[r]
  BY <1>1, ServerMoves DEF IInv
<1>2. Exit(q) => /\ server'[q].pc = "gone"
                 /\ \A r \in Scripts \ {q} : server'[r] = server[r]
  BY ServerEnds DEF IInv
<1>3. CASE Redirect(q)
  <2>1. data.made => server'[q].pc = "open"
    BY <1>3 DEF Redirect, IInv, TypesOK, Server
  <2>2. \A r \in Scripts \ {q} : server'[r] = server[r]
    BY <1>2, <1>3 DEF Redirect, IInv, TypesOK
  <2> QED
    BY <1>2, <1>3, <2>1, <2>2 DEF Redirect, ServerAt, Goes
<1>4. CASE OpenDatabase(q)
  BY <1>1, <1>4 DEF OpenDatabase, ServerAt, Goes
<1>5. CASE ReadCA(q)
  <2>1. root # Absent => server'[q].pc = "announce"
    BY <1>5 DEF ReadCA, IInv, TypesOK, Server
  <2>2. \A r \in Scripts \ {q} : server'[r] = server[r]
    BY <1>2, <1>5 DEF ReadCA, IInv, TypesOK
  <2> QED
    BY <1>2, <1>5, <2>1, <2>2 DEF ReadCA, ServerAt, Goes
<1>6. CASE Announce(q)
  BY <1>1, <1>6 DEF Announce, ServerAt, Goes
<1>7. CASE Bind(q)
  BY <1>1, <1>2, <1>7 DEF Bind, ServerAt, Goes
<1>8. CASE Load(q)
  <2>1. CASE crt # Absent /\ crt.key = srvkey
    <3>1. server'[q].pc = "serving" /\ \A r \in Scripts \ {q} : server'[r] = server[r]
      BY <1>8, <2>1 DEF Load, IInv, TypesOK, Server
    <3> QED
      BY <1>8, <2>1, <3>1 DEF Load, ServerAt, Goes
  <2>2. CASE ~(crt # Absent /\ crt.key = srvkey)
    BY <1>2, <1>8, <2>2 DEF Load, ServerAt, Goes
  <2> QED
    BY <2>1, <2>2
<1>9. CASE Die(q)
  BY <1>2, <1>9 DEF Die, ServerAt, Goes
<1> QED
  BY <1>3, <1>4, <1>5, <1>6, <1>7, <1>8, <1>9 DEF ServerStep, Approach

LEMMA ServerFrame ==
  ASSUME IInv, [Next]_vars
  PROVE  \/ \E q \in Scripts : Goes(q) /\ \A r \in Scripts \ {q} : server'[r] = server[r]
         \/ port' = port /\ \A q \in Scripts : Stays(q)
<1>1. CASE port' = port /\ UNCHANGED server
  BY <1>1 DEF Stays
<1>2. ASSUME NEW p \in Scripts,
             \/ \E op \in Commands : Begin(p, op)
             \/ WipeCerts(p) \/ WipeData(p) \/ MakeStep(p) \/ IssueStep(p)
      PROVE  port' = port /\ UNCHANGED server
  BY <1>2 DEF Begin, WipeCerts, WipeData, MakeStep, EnsureCa, InitCA, OpenKey, WriteKey,
              Chmod, SelfSign, IssueStep, EnsureBackend, Issue, OpenServerKey,
              WriteServerKey, RequestCertificate, ReadRequest, Sign, RemoveRequest
<1>3. ASSUME NEW p \in Scripts, NEW q \in Scripts, NEW pc, port' = port,
             ServerGoto(q, pc),
             \/ server[q].pc = "none" /\ pc \in {"redirect", "open"}
             \/ server[q].pc \notin Dead /\ pc = "dying"
      PROVE  port' = port /\ \A r \in Scripts : Stays(r)
  BY <1>3, ServerMoves DEF IInv, Stays
<1>4. ASSUME NEW p \in Scripts, RunStep(p)
      PROVE  port' = port /\ \A q \in Scripts : Stays(q)
  <2>1. CASE FindServer(p) \/ WritePid(p) \/ Wait(p) \/ RemovePid(p)
    BY <1>1, <2>1 DEF FindServer, WritePid, Wait, RemovePid, Stays
  <2>2. CASE Fork(p)
    <3>1. server[p].pc = "none" /\ port' = port
      BY <2>2 DEF Fork, At, IInv, ForkOK
    <3>2. server'[p].pc = "redirect" /\ \A r \in Scripts \ {p} : server'[r] = server[r]
      BY <2>2 DEF Fork, IInv, TypesOK, Server
    <3> QED
      BY <3>1, <3>2 DEF Stays
  <2>3. CASE Exec(p)
    <3>1. server[p].pc = "none" /\ port' = port
      BY <2>3 DEF Exec, At, IInv, ForkOK
    <3>2. UNCHANGED server \/ ServerGoto(p, "open")
      BY <2>3 DEF Exec
    <3> QED
      BY <1>3, <3>1, <3>2 DEF Stays
  <2>4. CASE Stop(p)
    <3>1. CASE UNCHANGED server
      BY <2>4, <3>1 DEF Stop, Stays
    <3>2. CASE data.pid \in Alive /\ server' = [server EXCEPT ![data.pid].pc = "dying"]
      <4>1. /\ data.pid \in Scripts /\ ServerGoto(data.pid, "dying") /\ port' = port
            /\ server[data.pid].pc \notin Dead
        BY <2>4, <3>2 DEF Stop, Alive, ServerGoto
      <4> QED
        BY <1>3, <4>1
    <3> QED
      BY <2>4, <3>1, <3>2 DEF Stop
  <2> QED
    BY <1>4, <2>1, <2>2, <2>3, <2>4 DEF RunStep
<1>5. ASSUME NEW p \in Scripts, Kill(p)
      PROVE  port' = port /\ \A q \in Scripts : Stays(q)
  <2>1. port' = port /\ (UNCHANGED server \/ (p \in Alive /\ ServerGoto(p, "dying")))
    BY <1>5 DEF Kill
  <2> QED
    BY <1>3, <2>1 DEF Alive, Stays
<1>6. UNCHANGED vars => port' = port /\ UNCHANGED server
  BY DEF vars
<1> QED
  BY <1>1, <1>2, <1>4, <1>5, <1>6, ServerPcs, Steps

LEMMA StepPort ==
  ASSUME IInv, PortOK, [Next]_vars
  PROVE  PortOK'
<1>1. ASSUME NEW q \in Scripts, Goes(q), \A r \in Scripts \ {q} : server'[r] = server[r]
      PROVE  PortOK'
  <2>1. \A r \in Scripts : r # Absent
    BY Numbers
  <2>2. port' \in {port, Absent, q} /\ server[q].pc \notin {"none", "gone", "serving"}
    BY <1>1 DEF Goes
  <2>3. CASE server[q].pc = "bind"
    BY <1>1, <2>1, <2>3 DEF PortOK, Goes
  <2>4. CASE server[q].pc = "load"
    BY <1>1, <2>1, <2>4 DEF PortOK, Goes
  <2>5. CASE server[q].pc = "dying"
    BY <1>1, <2>1, <2>5 DEF PortOK, Goes
  <2>6. CASE server[q].pc \notin {"bind", "load", "dying"}
    <3>1. port' = port /\ server'[q].pc \notin {"load", "serving"} /\ port # q
      BY <1>1, <2>1, <2>6 DEF PortOK, Goes
    <3> QED
      BY <1>1, <3>1 DEF PortOK
  <2> QED
    BY <2>3, <2>4, <2>5, <2>6
<1>2. CASE port' = port /\ \A q \in Scripts : Stays(q)
  BY <1>2 DEF PortOK, Stays
<1> QED
  BY <1>1, <1>2, ServerFrame

LEMMA Made ==
  ASSUME IInv, data.made,
         \/ data' = data \/ data' = [data EXCEPT !.made = TRUE]
         \/ \E f \in File : data' = [data EXCEPT !.pid = f]
         \/ \E b \in BOOLEAN : data' = [data EXCEPT !.log = b]
  PROVE  data'.made
BY DEF IInv, TypesOK, FilesOK

LEMMA Undisturbed ==
  ASSUME IInv, [Next]_vars, ~Disturb
  PROVE  /\ UNCHANGED <<srvkey, crt, disturbed>>
         /\ data.made => data'.made
<1> DEFINE Same == /\ UNCHANGED <<srvkey, crt, disturbed>>
                   /\ data.made => data'.made
<1>1. ASSUME NEW p \in Scripts,
             \/ \E op \in Commands : Begin(p, op)
             \/ WipeCerts(p) \/ WipeData(p) \/ MakeStep(p)
      PROVE  Same
  <2>1. UNCHANGED <<srvkey, crt, disturbed>>
    BY <1>1 DEF Begin, WipeCerts, WipeData, MakeStep, EnsureCa, InitCA, OpenKey, WriteKey,
                Chmod, SelfSign, certs, backend, history
  <2>2. data' = data \/ data' = [data EXCEPT !.made = TRUE]
    BY <1>1 DEF Begin, WipeCerts, WipeData, MakeStep, EnsureCa, InitCA, OpenKey, WriteKey,
                Chmod, SelfSign
  <2> QED
    BY <2>1, <2>2, Made
<1>2. ASSUME NEW p \in Scripts, IssueStep(p) PROVE Same
  <2>1. UNCHANGED <<srvkey, crt, disturbed>>
    BY <1>2 DEF IssueStep, EnsureBackend, Issue, OpenServerKey, WriteServerKey,
                RequestCertificate, ReadRequest, Sign, RemoveRequest, certs, backend, history
  <2>2. data' = data \/ data' = [data EXCEPT !.made = TRUE]
    BY <1>2 DEF IssueStep, EnsureBackend, Issue, OpenServerKey, WriteServerKey,
                RequestCertificate, ReadRequest, Sign, RemoveRequest
  <2> QED
    BY <2>1, <2>2, Made
<1>3. ASSUME NEW p \in Scripts, RunStep(p) PROVE Same
  <2>1. UNCHANGED <<srvkey, crt, disturbed>>
    BY <1>3 DEF RunStep, FindServer, Fork, WritePid, Wait, Exec, Stop, RemovePid, certs,
                backend, history
  <2>2. \/ data' = data \/ data' = [data EXCEPT !.made = TRUE]
        \/ \E f \in File : data' = [data EXCEPT !.pid = f]
    BY <1>3 DEF RunStep, FindServer, Fork, WritePid, Wait, Exec, Stop, RemovePid, File
  <2> QED
    BY <2>1, <2>2, Made
<1>4. ASSUME NEW p \in Scripts, ServerStep(p) \/ Kill(p) PROVE Same
  <2>1. UNCHANGED <<srvkey, crt, disturbed>>
    BY <1>4 DEF ServerStep, Approach, Redirect, OpenDatabase, ReadCA, Announce, Bind, Load,
                Die, Kill, certs, backend, history
  <2>2. \/ data' = data \/ data' = [data EXCEPT !.made = TRUE]
        \/ \E b \in BOOLEAN : data' = [data EXCEPT !.log = b]
    BY <1>4 DEF ServerStep, Approach, Redirect, OpenDatabase, ReadCA, Announce, Bind, Load,
                Die, Kill
  <2> QED
    BY <2>1, <2>2, Made
<1>5. CASE UNCHANGED vars
  BY <1>5 DEF vars, certs, backend, history
<1>6. Same
  BY <1>1, <1>2, <1>3, <1>4, <1>5, Steps
<1> QED
  BY <1>6

\* A provided start stays so.
LEMMA ProvidedKept ==
  ASSUME IInv, RootOK, PortOK, [Next]_vars, ~Disturb, crt # Absent, data.made,
         NEW p \in Scripts, Provided(p)
  PROVE  Provided(p)'
<1>1. UNCHANGED <<srvkey, crt>>
  BY Undisturbed
<1>2. CASE Mismatch
  BY <1>1, <1>2 DEF Mismatch, Provided
<1>3. CASE ~Mismatch
  <2>1. root # Absent /\ crt.key = srvkey
    BY <1>3 DEF RootOK, Mismatch
  <2>2. ASSUME NEW q \in Scripts, Goes(q), \A r \in Scripts \ {q} : server'[r] = server[r]
        PROVE  Provided(p)'
    <3>1. port # Absent => port' # Absent
      BY <2>1, <2>2, Numbers DEF Goes
    <3>2. server[q].pc \in Life => server'[q].pc \in Life \/ port' # Absent
      BY <2>1, <2>2 DEF Goes, Life
    <3> QED
      BY <1>3, <2>2, <3>1, <3>2 DEF Provided
  <2>3. CASE port' = port /\ \A q \in Scripts : Stays(q)
    <3>1. server[p].pc \in Life => server'[p].pc \in Life
      BY <2>3 DEF Stays, Life
    <3> QED
      BY <1>3, <2>3, <3>1 DEF Provided
  <2> QED
    BY <2>2, <2>3, ServerFrame
<1> QED
  BY <1>2, <1>3

LEMMA StepStart ==
  ASSUME IInv, RootOK, PortOK, StartOK, [Next]_vars
  PROVE  StartOK'
<1> SUFFICES ASSUME NEW p \in Scripts, script'[p].pc \in Launching, p \notin disturbed'
             PROVE  /\ crt' # Absent /\ data'.made
                    /\ script'[p].pc # "fork" => Provided(p)'
  BY DEF StartOK
<1>1. \/ script'[p] = script[p]
      \/ script'[p].op = script[p].op /\ Going(p, script'[p].pc, script'[p].crt)
  BY ScriptFrame
<1>2. \/ script[p].pc \in Launching
      \/ script'[p].pc = "fork" /\ FindServer(p) /\ crt # Absent
  BY <1>1 DEF Going, Launching, Fork, At
<1>3. script[p].op = "background"
  BY <1>2 DEF Launching, FindServer, At, IInv, ForkOK, Starting
<1>4. ~Disturb
  BY <1>3 DEF Disturb
<1>5. UNCHANGED <<srvkey, crt, disturbed>> /\ (data.made => data'.made)
  BY <1>4, Undisturbed
<1>6. CASE script[p].pc \in Launching
  <2>1. /\ crt # Absent /\ data.made
        /\ script[p].pc # "fork" => Provided(p)
    BY <1>5, <1>6 DEF StartOK
  <2>2. CASE script[p].pc # "fork"
    BY <1>4, <1>5, <2>1, <2>2, ProvidedKept
  <2>3. CASE script[p].pc = "fork" /\ script'[p].pc # "fork"
    <3>1. Fork(p)
      BY <1>1, <2>3 DEF Going, Launching
    <3>2. server'[p].pc = "redirect"
      BY <3>1 DEF Fork, IInv, TypesOK, Server
    <3> QED
      BY <1>5, <2>1, <3>2 DEF Provided, Life
  <2> QED
    BY <1>5, <2>1, <2>2, <2>3
<1>7. CASE script'[p].pc = "fork" /\ FindServer(p) /\ crt # Absent
  <2>1. data'.made
    BY <1>7, DataMoves DEF FindServer, IInv
  <2> QED
    BY <1>5, <1>7, <2>1
<1> QED
  BY <1>2, <1>6, <1>7

SInv == UsedOK /\ RootOK /\ PortOK /\ StartOK

LEMMA InitService == Init => SInv
<1> SUFFICES ASSUME Init PROVE SInv
  OBVIOUS
<1>1. /\ srvkey = Absent /\ csr = Absent /\ crt = Absent /\ port = Absent
      /\ \A p \in Scripts : /\ script[p].pc = "idle" /\ script[p].crt = Absent
                            /\ server[p].pc = "none"
  BY DEF Init, Process
<1>2. \A p \in Scripts : p # Absent
  BY Numbers
<1> QED
  BY <1>1, <1>2 DEF SInv, UsedOK, Used, RootOK, PortOK, StartOK, Launching

LEMMA ServiceInvariance == Spec => [](IInv /\ SInv)
<1>1. IInv /\ SInv /\ [Next]_vars => SInv'
  BY StepUsed, StepRoot, StepPort, StepStart DEF SInv
<1> QED
  BY <1>1, InitService, Invariance, PTL DEF Spec

Approaching == {"redirect", "open", "ca", "announce", "bind"}
Settling == \E q \in Scripts : server[q].pc \in {"load", "dying"}

\* A process that the fairness is about can take its step: what ENABLED
\* contributes, and a hypothesis of the theorem, ENABLED being out of the
\* prover's reach.
NeverStuck ==
  /\ \A p \in Scripts : server[p].pc \in Approaching => ENABLED <<Approach(p)>>_vars
  /\ Settling => ENABLED <<Settle>>_vars

\* What a start leads to, and where it is before that.
Outcome(p) ==
  \/ \E q \in Scripts : ServerAt(q, "serving")
  \/ p \in disturbed
  \/ crt # Absent /\ crt.key # srvkey

Awaited(p) == At(p, "started") /\ ~Outcome(p)

LEMMA StartedStays ==
  ASSUME IInv, [Next]_vars, NEW p \in Scripts, At(p, "started")
  PROVE  At(p, "started")'
BY ScriptFrame DEF At, Going

\* A step that disturbs the starts settles them all.
LEMMA Awaits ==
  ASSUME IInv, SInv, NEW p \in Scripts, Awaited(p)
  PROVE  /\ data.made /\ root # Absent /\ crt # Absent /\ crt.key = srvkey
         /\ server[p].pc \in Approaching \/ Settling
         /\ port # Absent => Settling
         /\ Disturb => Outcome(p)'
<1>1. script[p].pc = "started" /\ p \notin disturbed
  BY DEF Awaited, At, Outcome
<1>2. script[p].op = "background"
  BY <1>1 DEF IInv, ForkOK, Starting
<1>3. /\ crt # Absent /\ data.made /\ Provided(p)
  BY <1>1 DEF SInv, StartOK, Launching
<1>4. crt.key = srvkey
  BY <1>3 DEF Awaited, Outcome
<1>5. root # Absent
  BY <1>3, <1>4 DEF SInv, RootOK
<1>6. Disturb => Outcome(p)'
  BY <1>2 DEF Disturb, Outcome
<1>7. \A q \in Scripts : server[q].pc # "serving"
  BY DEF Awaited, Outcome, ServerAt
<1>8. port # Absent => Settling
  BY <1>7 DEF SInv, PortOK, Settling
<1>9. server[p].pc \in Life => server[p].pc \in Approaching \/ Settling
  BY <1>7 DEF Life, Approaching, Settling
<1> QED
  BY <1>3, <1>4, <1>5, <1>6, <1>8, <1>9 DEF Provided, Mismatch

\* Whoever holds the port, or ends, goes on doing so until it serves or is gone.
LEMMA SettlingStays ==
  ASSUME IInv, SInv, [Next]_vars, NEW p \in Scripts, Awaited(p), Settling
  PROVE  Settling' \/ Outcome(p)'
<1>1. PICK q \in Scripts : server[q].pc \in {"load", "dying"}
  BY DEF Settling
<1>2. ASSUME NEW r \in Scripts, Goes(r), \A s \in Scripts \ {r} : server'[s] = server[s]
      PROVE  Settling' \/ Outcome(p)'
  <2>1. CASE r # q
    BY <1>1, <1>2, <2>1 DEF Settling
  <2>2. CASE r = q
    <3>1. server'[q].pc = "serving" \/ Disturb
      BY <1>1, <1>2, <2>2, Awaits DEF Goes
    <3> QED
      BY <3>1, Awaits DEF Outcome, ServerAt
  <2> QED
    BY <2>1, <2>2
<1>3. CASE \A r \in Scripts : Stays(r)
  BY <1>1, <1>3 DEF Stays, Settling
<1> QED
  BY <1>2, <1>3, ServerFrame

LEMMA SettleServes ==
  ASSUME IInv, SInv, NEW p \in Scripts, Awaited(p), Settle
  PROVE  Outcome(p)'
<1>1. PICK q \in Scripts : Load(q) \/ Die(q)
  BY DEF Settle
<1>2. Goes(q) /\ server[q].pc \in {"load", "dying"}
  BY <1>1, ServerPcs DEF ServerStep, Load, Die, ServerAt
<1>3. server'[q].pc = "serving" \/ Disturb
  BY <1>2, Awaits DEF Goes
<1> QED
  BY <1>3, Awaits DEF Outcome, ServerAt

\* The server of the start makes its way to the port.
Ahead(p) ==
  \/ server[p].pc = "redirect" /\ server'[p].pc = "open"
  \/ server[p].pc = "open" /\ server'[p].pc = "ca"
  \/ server[p].pc = "ca" /\ server'[p].pc = "announce"
  \/ server[p].pc = "announce" /\ server'[p].pc = "bind"

LEMMA Approaches ==
  ASSUME IInv, SInv, [Next]_vars, NEW p \in Scripts, Awaited(p),
         server[p].pc \in Approaching
  PROVE  /\ server'[p].pc = server[p].pc \/ Ahead(p) \/ Settling' \/ Outcome(p)'
         /\ Approach(p) => server'[p].pc # server[p].pc
<1>1. ASSUME NEW q \in Scripts, Goes(q), \A s \in Scripts \ {q} : server'[s] = server[s]
      PROVE  server'[p].pc = server[p].pc \/ Ahead(p) \/ Settling' \/ Outcome(p)'
  <2>1. CASE q # p
    BY <1>1, <2>1
  <2>2. CASE q = p /\ port # Absent
    BY <2>2, Awaits, SettlingStays
  <2>3. CASE q = p /\ port = Absent
    <3>1. server'[p].pc = "load" => Settling'
      BY DEF Settling
    <3> QED
      BY <1>1, <2>3, <3>1, Awaits DEF Goes, Ahead, Approaching
  <2> QED
    BY <2>1, <2>2, <2>3
<1>2. ASSUME \A q \in Scripts : Stays(q)
      PROVE  server'[p].pc = server[p].pc \/ Settling'
  <2>1. server'[p].pc = server[p].pc \/ server'[p].pc = "dying"
    BY <1>2 DEF Stays, Approaching
  <2>2. server'[p].pc = "dying" => Settling'
    BY DEF Settling
  <2> QED
    BY <2>1, <2>2
<1>3. Approach(p) => server'[p].pc # server[p].pc
  <2>1. Approach(p) => Goes(p)
    BY ServerPcs DEF ServerStep
  <2> QED
    BY <2>1 DEF Goes
<1>4. server'[p].pc = server[p].pc \/ Ahead(p) \/ Settling' \/ Outcome(p)'
  BY <1>1, <1>2, ServerFrame
<1> QED
  BY <1>3, <1>4

\* WF1 at the places where a started server can be, and at the port.
LEMMA StartServed ==
  ASSUME NEW p \in Scripts
  PROVE  Spec /\ []NeverStuck /\ WF_vars(Approach(p)) /\ WF_vars(Settle) =>
           (At(p, "started") ~> Outcome(p))
<1> DEFINE Place(pc) == At(p, "started") /\ ServerAt(p, pc)
           Port == At(p, "started") /\ Settling
           Step == IInv /\ SInv /\ [Next]_vars
           Out == Outcome(p)
<1>1. /\ NeverStuck /\ ServerAt(p, "redirect") => ENABLED <<Approach(p)>>_vars
      /\ NeverStuck /\ ServerAt(p, "open") => ENABLED <<Approach(p)>>_vars
      /\ NeverStuck /\ ServerAt(p, "ca") => ENABLED <<Approach(p)>>_vars
      /\ NeverStuck /\ ServerAt(p, "announce") => ENABLED <<Approach(p)>>_vars
      /\ NeverStuck /\ ServerAt(p, "bind") => ENABLED <<Approach(p)>>_vars
  BY Zenon DEF NeverStuck, ServerAt, Approaching
<1>2. NeverStuck /\ Settling => ENABLED <<Settle>>_vars
  BY DEF NeverStuck
<1>3. IInv /\ SInv /\ At(p, "started") =>
        \/ Out \/ Port \/ Place("redirect") \/ Place("open") \/ Place("ca")
        \/ Place("announce") \/ Place("bind")
  BY Awaits DEF Awaited, Approaching, ServerAt
<1>4. Step /\ Port => Out \/ Port' \/ Out'
  BY StartedStays, SettlingStays DEF Awaited
<1>5. Step /\ Port /\ <<Settle>>_vars => Out \/ Out'
  BY SettleServes DEF Awaited
<1>6. /\ Step /\ At(p, "started") /\ server[p].pc \in Approaching =>
           /\ At(p, "started")'
           /\ \/ server'[p].pc = server[p].pc \/ Ahead(p)
              \/ Settling' \/ Out \/ Out'
      /\ Step /\ At(p, "started") /\ server[p].pc \in Approaching /\ Approach(p) =>
           server'[p].pc # server[p].pc \/ Out
  BY StartedStays, Approaches DEF Awaited
<1>7. /\ Step /\ Place("redirect") =>
           Out \/ Place("redirect")' \/ Place("open")' \/ Port' \/ Out'
      /\ Step /\ Place("open") =>
           Out \/ Place("open")' \/ Place("ca")' \/ Port' \/ Out'
      /\ Step /\ Place("ca") =>
           Out \/ Place("ca")' \/ Place("announce")' \/ Port' \/ Out'
      /\ Step /\ Place("announce") =>
           Out \/ Place("announce")' \/ Place("bind")' \/ Port' \/ Out'
      /\ Step /\ Place("bind") =>
           Out \/ Place("bind")' \/ Port' \/ Out'
  BY <1>6 DEF ServerAt, Approaching, Ahead
<1>8. /\ Step /\ Place("redirect") /\ <<Approach(p)>>_vars =>
           Out \/ Place("open")' \/ Port' \/ Out'
      /\ Step /\ Place("open") /\ <<Approach(p)>>_vars =>
           Out \/ Place("ca")' \/ Port' \/ Out'
      /\ Step /\ Place("ca") /\ <<Approach(p)>>_vars =>
           Out \/ Place("announce")' \/ Port' \/ Out'
      /\ Step /\ Place("announce") /\ <<Approach(p)>>_vars =>
           Out \/ Place("bind")' \/ Port' \/ Out'
      /\ Step /\ Place("bind") /\ <<Approach(p)>>_vars =>
           Out \/ Port' \/ Out'
  BY <1>6 DEF ServerAt, Approaching, Ahead
<1>9. Spec /\ []NeverStuck /\ WF_vars(Approach(p)) /\ WF_vars(Settle) =>
         (Port ~> Out)
  BY <1>2, <1>4, <1>5, ServiceInvariance, PTL DEF Spec
<1>10. Spec /\ []NeverStuck /\ WF_vars(Approach(p)) /\ WF_vars(Settle) =>
         (Place("bind") ~> Port \/ Out)
  BY <1>1, <1>7, <1>8, ServiceInvariance, PTL DEF Spec
<1>11. Spec /\ []NeverStuck /\ WF_vars(Approach(p)) /\ WF_vars(Settle) =>
         (Place("announce") ~> Place("bind") \/ Port \/ Out)
  BY <1>1, <1>7, <1>8, ServiceInvariance, PTL DEF Spec
<1>12. Spec /\ []NeverStuck /\ WF_vars(Approach(p)) /\ WF_vars(Settle) =>
         (Place("ca") ~> Place("announce") \/ Port \/ Out)
  BY <1>1, <1>7, <1>8, ServiceInvariance, PTL DEF Spec
<1>13. Spec /\ []NeverStuck /\ WF_vars(Approach(p)) /\ WF_vars(Settle) =>
         (Place("open") ~> Place("ca") \/ Port \/ Out)
  BY <1>1, <1>7, <1>8, ServiceInvariance, PTL DEF Spec
<1>14. Spec /\ []NeverStuck /\ WF_vars(Approach(p)) /\ WF_vars(Settle) =>
         (Place("redirect") ~> Place("open") \/ Port \/ Out)
  BY <1>1, <1>7, <1>8, ServiceInvariance, PTL DEF Spec
<1> QED
  BY <1>3, <1>9, <1>10, <1>11, <1>12, <1>13, <1>14, ServiceInvariance, PTL

\* Under the fairness of FairSpec, where "Server started" has been printed
\* somebody does serve, or a server was stopped, the backend's files or data/
\* were replaced, or the certificate is not of the key beside it, however many
\* scripts overlap or are killed (pki-common.sh:105-112).  The hypothesis is
\* what ENABLED contributes.
THEOREM StartedIsServed == FairSpec /\ []NeverStuck => StartedLeadsToService
<1> DEFINE Fair(p) == WF_vars(Approach(p))
           Settled == WF_vars(Settle)
           Leads(p) == At(p, "started") ~> Outcome(p)
<1>1. FairSpec => Spec /\ Settled /\ \A p \in Scripts : Fair(p)
  BY PTL DEF FairSpec
<1>2. ASSUME NEW p \in Scripts
      PROVE  Spec /\ []NeverStuck /\ Settled /\ Fair(p) => Leads(p)
  BY StartServed, PTL
<1>3. (\A p \in Scripts : Leads(p)) => StartedLeadsToService
  BY PTL DEF StartedLeadsToService, Outcome
<1> HIDE DEF Fair, Settled, Leads
<1>4. Spec /\ []NeverStuck /\ Settled /\ (\A p \in Scripts : Fair(p)) =>
        \A p \in Scripts : Leads(p)
  BY <1>2, Zenon
<1> QED
  BY <1>1, <1>3, <1>4, PTL
=============================================================================
