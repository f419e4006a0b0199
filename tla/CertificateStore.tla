-------------------------- MODULE CertificateStore --------------------------
(***************************************************************************)
(* The tables of data/pki.db that decide who may connect, and the SQL      *)
(* statements internal/store issues on them (server/internal/store).       *)
(*                                                                         *)
(* database/sql runs every Exec and QueryRow of the package in autocommit  *)
(* mode and no method opens a transaction, so one statement is one atomic  *)
(* step and a method of several statements is not atomic.  An operator     *)
(* below is one statement; the modules that extend this one sequence them. *)
(***************************************************************************)
EXTENDS Naturals

CONSTANTS
  Serials,   \* serial numbers of the certificates the CA has signed
  Names,     \* common names: the device identities
  NoRow,     \* a serial that has no row in certificates
  Blank      \* an event column that holds the empty string

VARIABLES
  certificates,  \* [Serials -> Row, or NoRow while unrecorded]
  blacklist,     \* the common names that have a row in blacklist
  events         \* the rows of events; a row's id and ts are left out

\* The columns of a certificate that CheckAuth and Revoke read.  No statement
\* of the package ever stores the third status, "expired".
Row == [cn : Names, expires : Nat, status : {"issued", "revoked"}]

ASSUME NoRowAssumption == NoRow \notin Row

RowStatus(s) == IF certificates[s] = NoRow THEN "none"
                                           ELSE certificates[s].status

\* Mutant: INSERT OR REPLACE.
BugReplace(s, cn, expires) ==
  certificates' = [certificates EXCEPT ![s] =
    [cn |-> cn, expires |-> expires, status |-> "issued"]]

\* INSERT INTO certificates: serial is the primary key, so it fails on a
\* serial that is already recorded.
InsertCertificate(s, cn, expires) ==
  /\ certificates[s] = NoRow
  /\ certificates' = [certificates EXCEPT ![s] =
       [cn |-> cn, expires |-> expires, status |-> "issued"]]

\* Mutant: RowsAffected is not looked at.
BugAnySerial(s) ==
  certificates' = IF certificates[s] = NoRow
                    THEN certificates
                    ELSE [certificates EXCEPT ![s].status = "revoked"]

\* UPDATE certificates SET status = 'revoked' WHERE serial = s, with a row
\* affected.
SetRevoked(s) ==
  /\ certificates[s] # NoRow
  /\ certificates' = [certificates EXCEPT ![s].status = "revoked"]

\* INSERT INTO events.  "by" identifies the call that wrote the row, as the
\* id does in the table.
LogEvent(type, by, serial, cn) ==
  events' = events \cup
              {[type |-> type, by |-> by, serial |-> serial, cn |-> cn]}
=============================================================================
