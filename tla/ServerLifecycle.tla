-------------------------- MODULE ServerLifecycle ---------------------------
(***************************************************************************)
(* From an empty directory to a running backend and back: certctl init-ca, *)
(* certctl issue backend-server, the part of the setup scripts that        *)
(* changes state, run-server.sh in its three modes and the main of         *)
(* cmd/server, which meet in certs/, data/ and on the port                 *)
(* (scripts/lib/pki-common.sh).                                            *)
(*                                                                         *)
(* A script is one invocation, an invocation that starts a server gives it *)
(* its own number as its pid.  Scripts and servers step side by side; each *)
(* step is one file, one signal or one system call.  A setup that is not   *)
(* killed ends at its "sudo pki_certctl scan": sudo finds no such program  *)
(* and set -e stops the script, so no later line of it is modelled.  The   *)
(* serial and the row of the backend's certificate are left to Issuance.   *)
(*                                                                         *)
(* The operators named Bug... are plausible slips in the definition after  *)
(* them, no part of Next.                                                  *)
(***************************************************************************)
EXTENDS Naturals, FiniteSets

CONSTANTS
  Scripts,  \* bound: the invocations, numbered in the order they begin
  Commands, \* what they may be asked for
  Running,  \* bound: how many of them are under way at a time
  Absent,   \* a file that does not exist
  Empty,    \* a file that has been opened for writing and not written
  Faults    \* what may go wrong besides: a process is killed

\* The step a script begins with: setup-pki.sh and onboard-device.sh without and
\* with --fresh, certctl init-ca, certctl issue backend-server, run-server.sh
\* --background, without an option and --stop.
FirstStep ==
  [setup |-> "ensure ca", fresh |-> "wipe", init |-> "init-ca", issue |-> "issue",
   background |-> "find", foreground |-> "exec", stop |-> "stop"]

Setup == {"setup", "fresh"}

ASSUME LifecycleAssumption ==
  /\ Scripts \subseteq Nat \ {0} /\ IsFiniteSet(Scripts)
  /\ Commands \subseteq DOMAIN FirstStep
  /\ Running \in Nat \ {0}
  /\ Absent \notin Nat /\ Empty \notin Nat /\ Absent # Empty
  /\ Absent \notin [root : Scripts, key : Scripts]
  /\ Faults \subseteq {"kill"}

VARIABLES
  key,      \* certs/ca/ca.key: the script that generated it
  locked,   \* ca.key has mode 0400
  root,     \* certs/ca/ca.crt: the key it certifies
  srvkey,   \* backend-server.key: the script that generated it
  csr,      \* backend-server.csr: the key it asks a certificate for
  crt,      \* backend-server.crt: [root that signed it, key it certifies]
  dirs,     \* which of certs/ca and certs/issued/backend-server there are
  data,     \* data/: [made, pid, log: does server.log hold "listening"]
  port,     \* the server that listens, or Absent
  script,   \* [Scripts -> where the script is, and what it has in hand]
  server,   \* [Scripts -> where the server it has started is]
  wipes,    \* history: how often certs/ and data/ have been removed
  alone,    \* history: no two scripts have ever been under way together
  disturbed \* history: the starts since which the backend's key, certificate
            \* or data/ was replaced or a server was stopped

ca == <<key, locked, root>>
backend == <<srvkey, csr, crt>>
certs == <<ca, backend, dirs>>
history == <<wipes, alone, disturbed>>
vars == <<certs, data, port, script, server, history>>

NoData == [made |-> FALSE, pid |-> Absent, log |-> FALSE]

Ended == {"done", "started", "failed"}
UnderWay == {p \in Scripts : script[p].pc \notin Ended \cup {"idle"}}

\* kill -0: a process that has been signalled is there until it is gone.
Dead == {"none", "gone"}
Alive == {p \in Scripts : server[p].pc \notin Dead}

\* A script goes on with a certificate or a file in hand, opened after so many
\* wipes, or with nothing.
At(p, pc) == script[p].pc = pc
Move(p, pc, era, cert) ==
  script' = [script EXCEPT ![p] = [pc |-> pc, op |-> @.op, era |-> era, crt |-> cert]]
Goto(p, pc) == Move(p, pc, 0, Absent)
ServerAt(p, pc) == server[p].pc = pc
ServerGoto(p, pc) == server' = [server EXCEPT ![p].pc = pc]
Process(pc) == [pc |-> pc, born |-> Absent, log |-> Absent, pool |-> Absent,
                read |-> Absent, cert |-> Absent]
Exit(p) == server' = [server EXCEPT ![p] = Process("gone")]

\* From now on the starts so far are no longer owed a server.
Disturb == disturbed' = disturbed \cup {p \in Scripts : script[p].op = "background"}

Begin(p, op) ==
  /\ At(p, "idle")
  /\ \A q \in Scripts : q < p => ~At(q, "idle")
  /\ Cardinality(UnderWay) < Running
  /\ script' = [script EXCEPT ![p] =
                  [pc |-> FirstStep[op], op |-> op, era |-> 0, crt |-> Absent]]
  /\ alone' = (alone /\ UnderWay = {})
  /\ UNCHANGED <<certs, data, port, server, wipes, disturbed>>

-----------------------------------------------------------------------------
(* The CA: pki_ensure_ca and certctl init-ca.                              *)

\* Mutant: only the CA is removed, and what it has signed is left.
BugWipeCerts(p) ==
  /\ At(p, "wipe")
  /\ key' = Absent /\ root' = Absent /\ locked' = FALSE /\ dirs' = dirs \ {"ca"}
  /\ wipes' = [wipes EXCEPT !.certs = @ + 1]
  /\ Goto(p, "wipe data")
  /\ Disturb
  /\ UNCHANGED <<backend, data, port, server, alone>>

\* Mutant: the root is spared, for the devices that trust it.
BugWipeKeys(p) ==
  /\ At(p, "wipe")
  /\ key' = Absent /\ locked' = FALSE
  /\ srvkey' = Absent /\ csr' = Absent /\ crt' = Absent /\ dirs' = dirs \ {"backend"}
  /\ wipes' = [wipes EXCEPT !.certs = @ + 1]
  /\ Goto(p, "wipe data")
  /\ Disturb
  /\ UNCHANGED <<root, data, port, server, alone>>

\* pki_wipe_state: rm -rf certs data, in that order.
WipeCerts(p) ==
  /\ At(p, "wipe")
  /\ key' = Absent /\ root' = Absent /\ locked' = FALSE
  /\ srvkey' = Absent /\ csr' = Absent /\ crt' = Absent /\ dirs' = {}
  /\ wipes' = [wipes EXCEPT !.certs = @ + 1]
  /\ Goto(p, "wipe data")
  /\ Disturb
  /\ UNCHANGED <<data, port, server, alone>>

WipeData(p) ==
  /\ At(p, "wipe data")
  /\ data' = NoData
  /\ wipes' = [wipes EXCEPT !.data = @ + 1]
  /\ Goto(p, "ensure ca")
  /\ Disturb
  /\ UNCHANGED <<certs, port, server, alone>>

\* The key file decides whether there is a CA.
EnsureCa(p) ==
  /\ At(p, "ensure ca")
  /\ Goto(p, IF key = Absent THEN "init-ca" ELSE "ensure backend")
  /\ UNCHANGED <<certs, data, port, server, history>>

\* main opens the database; os.MkdirAll, os.Stat(keyPath), an existing CA is
\* refused.
InitCA(p) ==
  /\ At(p, "init-ca")
  /\ data' = [data EXCEPT !.made = TRUE]
  /\ dirs' = dirs \cup {"ca"}
  /\ Goto(p, IF key = Absent THEN "genrsa" ELSE "failed")
  /\ UNCHANGED <<ca, backend, port, server, history>>

\* openssl genrsa opens its output first; mode 0400 refuses the owner of the
\* file, not root ...
OpenKey(p) ==
  /\ At(p, "genrsa")
  /\ \/ (locked \/ "ca" \notin dirs) /\ Goto(p, "failed") /\ UNCHANGED key
     \/ "ca" \in dirs /\ Move(p, "write key", wipes.certs, Absent) /\ key' = Empty
  /\ UNCHANGED <<locked, root, backend, dirs, data, port, server, history>>

\* ... and writes the key when it has found one, into the file it has opened,
\* whether a wipe has removed that or not.
WriteKey(p) ==
  /\ At(p, "write key")
  /\ key' = IF script[p].era = wipes.certs THEN p ELSE key
  /\ Goto(p, "chmod")
  /\ UNCHANGED <<locked, root, backend, dirs, data, port, server, history>>

\* os.Chmod(keyPath, 0400), its error ignored.
Chmod(p) ==
  /\ At(p, "chmod")
  /\ locked' = (key # Absent)
  /\ Goto(p, "req")
  /\ UNCHANGED <<key, root, backend, dirs, data, port, server, history>>

\* openssl req -x509, from the key in the file to the root certificate.
SelfSign(p) ==
  /\ At(p, "req")
  /\ IF key \in Scripts
       THEN /\ root' = key
            /\ Goto(p, IF script[p].op \in Setup THEN "ensure backend" ELSE "done")
       ELSE Goto(p, "failed") /\ UNCHANGED root
  /\ UNCHANGED <<key, locked, backend, dirs, data, port, server, history>>

-----------------------------------------------------------------------------
(* The certificate of the backend: pki_ensure_backend_cert and certctl     *)
(* issue backend-server server, which no gate stands before.               *)

\* Mutant: the certificate is issued again by every setup.
BugEnsureBackend(p) ==
  /\ At(p, "ensure backend")
  /\ Goto(p, "issue")
  /\ UNCHANGED <<certs, data, port, server, history>>

\* The certificate file decides; after it "sudo pki_certctl scan" ends a setup.
EnsureBackend(p) ==
  /\ At(p, "ensure backend")
  /\ Goto(p, IF crt # Absent THEN "failed" ELSE "issue")
  /\ UNCHANGED <<certs, data, port, server, history>>

\* main opens the database; os.MkdirAll(outDir).
Issue(p) ==
  /\ At(p, "issue")
  /\ data' = [data EXCEPT !.made = TRUE]
  /\ dirs' = dirs \cup {"backend"}
  /\ Goto(p, "server genrsa")
  /\ UNCHANGED <<ca, backend, port, server, history>>

OpenServerKey(p) ==
  /\ At(p, "server genrsa")
  /\ IF "backend" \in dirs
       THEN srvkey' = Empty /\ Move(p, "write server key", wipes.certs, Absent) /\ Disturb
       ELSE Goto(p, "failed") /\ UNCHANGED <<srvkey, disturbed>>
  /\ UNCHANGED <<ca, csr, crt, dirs, data, port, server, wipes, alone>>

WriteServerKey(p) ==
  /\ At(p, "write server key")
  /\ srvkey' = IF script[p].era = wipes.certs THEN p ELSE srvkey
  /\ Goto(p, "server req")
  /\ Disturb
  /\ UNCHANGED <<ca, csr, crt, dirs, data, port, server, wipes, alone>>

\* openssl req -new, from the key in the file to the request.
RequestCertificate(p) ==
  /\ At(p, "server req")
  /\ IF srvkey \in Scripts THEN csr' = srvkey /\ Goto(p, "x509")
                           ELSE UNCHANGED csr /\ Goto(p, "failed")
  /\ UNCHANGED <<ca, srvkey, crt, dirs, data, port, server, history>>

\* openssl x509 -req: the request that is there, and a root and a key that it
\* refuses when they do not match ...
ReadRequest(p) ==
  /\ At(p, "x509")
  /\ IF csr \in Scripts /\ root # Absent /\ key = root
       THEN Move(p, "sign", wipes.certs, [root |-> root, key |-> csr])
       ELSE Goto(p, "failed")
  /\ UNCHANGED <<certs, data, port, server, history>>

\* ... and the certificate, into the directory that is there by now.
Sign(p) ==
  /\ At(p, "sign")
  /\ IF "backend" \in dirs
       THEN crt' = script[p].crt /\ Goto(p, "rm csr") /\ Disturb
       ELSE Goto(p, "failed") /\ UNCHANGED <<crt, disturbed>>
  /\ UNCHANGED <<ca, srvkey, csr, dirs, data, port, server, wipes, alone>>

\* os.Remove(csrPath), whosever request it is.
RemoveRequest(p) ==
  /\ At(p, "rm csr")
  /\ csr' = Absent
  /\ Goto(p, IF script[p].op \in Setup THEN "failed" ELSE "done")
  /\ UNCHANGED <<ca, srvkey, crt, dirs, data, port, server, history>>

-----------------------------------------------------------------------------
(* run-server.sh.                                                          *)

\* Mutant: the key of the backend is taken for its certificate.
BugStart(p) ==
  /\ At(p, "find")
  /\ data' = [data EXCEPT !.made = TRUE]
  /\ Goto(p, IF data.pid \in Alive THEN "done"
             ELSE IF srvkey = Absent THEN "failed" ELSE "fork")
  /\ UNCHANGED <<certs, port, server, history>>

\* pki_start_server: mkdir -p data; a live pid is a server that runs already.
FindServer(p) ==
  /\ At(p, "find")
  /\ data' = [data EXCEPT !.made = TRUE]
  /\ Goto(p, IF data.pid \in Alive THEN "done"
             ELSE IF crt = Absent THEN "failed" ELSE "fork")
  /\ UNCHANGED <<certs, port, server, history>>

\* nohup ./server >"$log_file" & : a child that has not opened the log yet.
Fork(p) ==
  /\ At(p, "fork")
  /\ server' = [server EXCEPT ![p].pc = "redirect", ![p].born = wipes.data]
  /\ Goto(p, "pid file")
  /\ UNCHANGED <<certs, data, port, history>>

\* Mutant: the pid is written once the server has been heard of.
BugWritePid(p) ==
  /\ At(p, "pid file")
  /\ Goto(p, "wait")
  /\ UNCHANGED <<certs, data, port, server, history>>

\* Mutant: the file is made before there is a pid to put in it.
BugEmptyPid(p) ==
  /\ At(p, "pid file")
  /\ data' = [data EXCEPT !.pid = Empty]
  /\ Goto(p, "wait")
  /\ UNCHANGED <<certs, port, server, history>>

\* echo $! > the pid file, which fails when data/ is gone.
WritePid(p) ==
  /\ At(p, "pid file")
  /\ IF data.made THEN data' = [data EXCEPT !.pid = p] /\ Goto(p, "wait")
                  ELSE UNCHANGED data /\ Goto(p, "failed")
  /\ UNCHANGED <<certs, port, server, history>>

\* curl never gets through, having no client certificate to show; the log is
\* what confirms a start, or ten seconds pass and a warning is printed.
Wait(p) ==
  /\ At(p, "wait")
  /\ \/ data.log /\ Goto(p, "started")
     \/ Goto(p, "done")
  /\ UNCHANGED <<certs, data, port, server, history>>

\* The foreground mode: exec, no pid file and no log file.
Exec(p) ==
  /\ At(p, "exec")
  /\ IF crt = Absent THEN Goto(p, "failed") /\ UNCHANGED server
                         ELSE Goto(p, "done") /\ ServerGoto(p, "open")
  /\ UNCHANGED <<certs, data, port, history>>

\* pki_stop_server: the signal ...
Stop(p) ==
  /\ At(p, "stop")
  /\ IF data.pid \in Alive
       THEN server' = [server EXCEPT ![data.pid].pc = "dying"]
       ELSE UNCHANGED server
  /\ Goto(p, IF data.pid = Absent THEN "done" ELSE "rm pid")
  /\ UNCHANGED <<certs, data, port, history>>

\* ... and rm -f of the pid file, whatever is in it by now.
RemovePid(p) ==
  /\ At(p, "rm pid")
  /\ data' = [data EXCEPT !.pid = Absent]
  /\ Goto(p, "done")
  /\ UNCHANGED <<certs, port, server, history>>

-----------------------------------------------------------------------------
(* cmd/server.                                                             *)

\* The child truncates the log, or dies when data/ is gone.
Redirect(p) ==
  /\ ServerAt(p, "redirect")
  /\ IF data.made
       THEN /\ data' = [data EXCEPT !.log = FALSE]
            /\ server' = [server EXCEPT ![p].pc = "open", ![p].log = wipes.data]
       ELSE Exit(p) /\ UNCHANGED data
  /\ UNCHANGED <<certs, port, script, history>>

\* os.MkdirAll and store.Open: the file that the path names now.
OpenDatabase(p) ==
  /\ ServerAt(p, "open")
  /\ data' = [data EXCEPT !.made = TRUE]
  /\ ServerGoto(p, "ca")
  /\ UNCHANGED <<certs, port, script, history>>

\* The pool of client CAs, for as long as the process lives.
ReadCA(p) ==
  /\ ServerAt(p, "ca")
  /\ IF root = Absent
       THEN Exit(p)
       ELSE server' = [server EXCEPT ![p].pc = "announce", ![p].pool = root,
                                     ![p].read = wipes.certs]
  /\ UNCHANGED <<certs, data, port, script, history>>

\* log.Printf("mTLS backend listening on ..."), before it does.
Announce(p) ==
  /\ ServerAt(p, "announce")
  /\ data' = IF server[p].log = wipes.data THEN [data EXCEPT !.log = TRUE] ELSE data
  /\ ServerGoto(p, "bind")
  /\ UNCHANGED <<certs, port, script, history>>

\* ListenAndServeTLS listens first, log.Fatal when the port is taken ...
Bind(p) ==
  /\ ServerAt(p, "bind")
  /\ IF port # Absent THEN Exit(p) /\ UNCHANGED port
                      ELSE ServerGoto(p, "load") /\ port' = p
  /\ UNCHANGED <<certs, data, script, history>>

\* ... and then loads the certificate and the key, log.Fatal when they are not a
\* pair.
Load(p) ==
  /\ ServerAt(p, "load")
  /\ IF crt # Absent /\ crt.key = srvkey
       THEN /\ server' = [server EXCEPT ![p].pc = "serving", ![p].cert = crt.root]
            /\ UNCHANGED port
       ELSE Exit(p) /\ port' = Absent
  /\ UNCHANGED <<certs, data, script, history>>

\* The process ends at the signal, and its port is free again.
Die(p) ==
  /\ ServerAt(p, "dying")
  /\ Exit(p)
  /\ port' = IF port = p THEN Absent ELSE port
  /\ Disturb
  /\ UNCHANGED <<certs, data, script, wipes, alone>>

Kill(p) ==
  /\ "kill" \in Faults
  /\ \/ /\ p \in UnderWay
        /\ Goto(p, "failed")
        /\ UNCHANGED server
     \/ /\ p \in Alive
        /\ ServerGoto(p, "dying")
        /\ UNCHANGED script
  /\ UNCHANGED <<certs, data, port, history>>

-----------------------------------------------------------------------------

\* A checkout: neither certs/ nor data/.
Init ==
  /\ key = Absent /\ locked = FALSE /\ root = Absent
  /\ srvkey = Absent /\ csr = Absent /\ crt = Absent /\ dirs = {}
  /\ data = NoData
  /\ port = Absent
  /\ script = [p \in Scripts |-> [pc |-> "idle", op |-> "none", era |-> 0, crt |-> Absent]]
  /\ server = [p \in Scripts |-> Process("none")]
  /\ wipes = [certs |-> 0, data |-> 0]
  /\ alone = TRUE
  /\ disturbed = {}

Approach(p) ==
  Redirect(p) \/ OpenDatabase(p) \/ ReadCA(p) \/ Announce(p) \/ Bind(p)
Settle == \E p \in Scripts : Load(p) \/ Die(p)
ServerStep(p) == Approach(p) \/ Load(p) \/ Die(p)

Next ==
  \E p \in Scripts :
    \/ \E op \in Commands : Begin(p, op)
    \/ WipeCerts(p) \/ WipeData(p) \/ EnsureCa(p) \/ InitCA(p) \/ OpenKey(p)
    \/ WriteKey(p) \/ Chmod(p) \/ SelfSign(p)
    \/ EnsureBackend(p) \/ Issue(p) \/ OpenServerKey(p) \/ WriteServerKey(p)
    \/ RequestCertificate(p) \/ ReadRequest(p) \/ Sign(p) \/ RemoveRequest(p)
    \/ FindServer(p) \/ Fork(p) \/ WritePid(p) \/ Wait(p) \/ Exec(p)
    \/ Stop(p) \/ RemovePid(p)
    \/ ServerStep(p) \/ Kill(p)

Spec == Init /\ [][Next]_vars

\* The operating system keeps scheduling the server processes: each on its way to
\* the port, and of those that hold the port or end at a signal some one.
FairSpec ==
  /\ Spec
  /\ \A p \in Scripts : WF_vars(Approach(p))
  /\ WF_vars(Settle)

-----------------------------------------------------------------------------
(* Properties.                                                             *)

File == Scripts \cup {Absent}
Certificate == [root : Scripts, key : Scripts] \cup {Absent}

\* Types of the files, the port, the scripts and the servers.
TypeOK ==
  /\ key \in File \cup {Empty} /\ locked \in BOOLEAN /\ root \in File
  /\ srvkey \in File \cup {Empty} /\ csr \in File /\ crt \in Certificate
  /\ dirs \subseteq {"ca", "backend"}
  /\ data \in [made : BOOLEAN, pid : File, log : BOOLEAN]
  /\ port \in File
  /\ script \in [Scripts ->
       [pc : Ended \cup {"idle", "wipe", "wipe data", "ensure ca", "init-ca",
                         "genrsa", "write key", "chmod", "req", "ensure backend",
                         "issue", "server genrsa", "write server key",
                         "server req", "x509", "sign", "rm csr", "find", "fork",
                         "pid file", "wait", "exec", "stop", "rm pid"},
        op : {"none"} \cup DOMAIN FirstStep,
        era : Nat, crt : Certificate]]
  /\ server \in [Scripts ->
       [pc : Dead \cup {"redirect", "open", "ca", "announce", "bind", "load",
                        "serving", "dying"},
        born : Nat \cup {Absent}, log : Nat \cup {Absent}, pool : File,
        read : Nat \cup {Absent}, cert : File]]
  /\ wipes \in [certs : Nat, data : Nat]
  /\ alone \in BOOLEAN
  /\ disturbed \subseteq Scripts

\* As long as the scripts are run one after another, a root certificate lies
\* beside the key it certifies, whichever of them is killed: init-ca never
\* touches a CA that it finds, finished or not (main.go:139-142).
RootMatchesKey == alone /\ root # Absent => key = root

\* And a server that no wipe has overtaken trusts the present CA and shows a
\* certificate that this CA has signed: a device issued today can connect.
ServesThePresentCA ==
  \A p \in Scripts :
    alone /\ server[p].pc = "serving" /\ server[p].read = wipes.certs =>
      server[p].pool = root /\ server[p].cert = root

\* And a background server that is running, and whose data/ has not been wiped,
\* can be stopped: the pid file names it, unless its script was killed before
\* it wrote the file (pki-common.sh:86-103).
StopReachesTheServer ==
  \A p \in Scripts :
    /\ alone
    /\ script[p].op = "background" /\ script[p].pc \in {"wait", "started", "done"}
    /\ p \in Alive /\ ~ServerAt(p, "dying")
    /\ server[p].born = wipes.data
    => data.pid = p

\* And a certificate of the backend lies beside the key it certifies, whichever
\* setup was killed while it issued one; a hand-run issue that was cut short is
\* the exception, it has replaced the key of a certificate in use
\* (pki-common.sh:61-66, main.go:184-199).
BackendIsAPair ==
  /\ alone
  /\ \A p \in Scripts : script[p].op = "issue" => At(p, "done")
  /\ crt # Absent
  => crt.key = srvkey

\* "Server started" comes before the port is bound, so it is a promise:
\* somebody does serve later, also when starts overlap, setups race and a
\* script is killed anywhere.  Three things break it: since the start a server
\* was stopped or certs/backend-server or data/ was replaced, or the
\* certificate is not of the key beside it (pki-common.sh:105-112).
StartedLeadsToService ==
  \A p \in Scripts :
    At(p, "started") ~> \/ \E q \in Scripts : ServerAt(q, "serving")
                        \/ p \in disturbed
                        \/ crt # Absent /\ crt.key # srvkey
=============================================================================
