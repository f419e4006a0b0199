---------------------------- MODULE AccessPolicy ----------------------------
(***************************************************************************)
(* What the access decision promises, with no database in it: a fleet      *)
(* whose certificates change standing on their own, and requests that are  *)
(* opened and then answered, once, by a verdict that the standings of      *)
(* their certificate since the opening justify.  AccessControl is shown    *)
(* to implement it.                                                        *)
(***************************************************************************)

CONSTANTS
  Serials,   \* certificates
  Requests,  \* requests, each about one certificate
  Nobody,    \* the subject of a request not opened yet
  Failing    \* whether a lookup may fail: in BOOLEAN

VARIABLES
  standing,  \* [Serials -> Standing] now
  phase,     \* [Requests -> "idle", "open", or how the request ended]
  subject,   \* [Requests -> the certificate it is about]
  heard      \* [Requests -> the standings of its subject since it was opened]

vars == <<standing, phase, subject, heard>>

\* record: not recorded yet, in force, or out for good (revoked or expired);
\* barred: the device that holds the certificate is on the blacklist.
Standing == [record : {"none", "in force", "out"}, barred : BOOLEAN]

\* A certificate comes into force at most once and goes out for good; a bar
\* comes and goes.
Forward(old, new) ==
  \/ old.record = new.record
  \/ old.record = "none"
  \/ new.record = "out"

\* Yes needs an instant that was in force and an unbarred one; they are the
\* same instant, or the unbarred one came before the certificate was recorded.
\* Failing lookups lose the bar, never the need of an instant in force.
MayAllow(h) ==
  \/ [record |-> "in force", barred |-> FALSE] \in h
  \/ /\ Failing \/ [record |-> "none", barred |-> FALSE] \in h
     /\ [record |-> "in force", barred |-> TRUE] \in h

\* No needs an instant that was barred or not in force, or a failed lookup.
MayDeny(h) == Failing \/ \E x \in h : x.barred \/ x.record # "in force"

-----------------------------------------------------------------------------

Init ==
  /\ standing \in [Serials -> Standing]
  /\ phase = [r \in Requests |-> "idle"]
  /\ subject = [r \in Requests |-> Nobody]
  /\ heard = [r \in Requests |-> {}]

\* The fleet changes, and the open requests hear of it.
Change ==
  /\ standing' \in [Serials -> Standing]
  /\ \A s \in Serials : Forward(standing[s], standing'[s])
  /\ heard' = [r \in Requests |-> IF phase[r] = "open"
                                    THEN heard[r] \cup {standing'[subject[r]]}
                                    ELSE heard[r]]
  /\ UNCHANGED <<phase, subject>>

Open(r, s) ==
  /\ phase[r] = "idle"
  /\ phase' = [phase EXCEPT ![r] = "open"]
  /\ subject' = [subject EXCEPT ![r] = s]
  /\ heard' = [heard EXCEPT ![r] = {standing[s]}]
  /\ UNCHANGED standing

Answer(r, verdict) ==
  /\ phase[r] = "open"
  /\ IF verdict = "allowed" THEN MayAllow(heard[r]) ELSE MayDeny(heard[r])
  /\ phase' = [phase EXCEPT ![r] = verdict]
  /\ UNCHANGED <<standing, subject, heard>>

\* The open requests are lost together, and none of them is answered later.
Drop ==
  /\ \E r \in Requests : phase[r] = "open"
  /\ phase' = [r \in Requests |-> IF phase[r] = "open" THEN "dropped" ELSE phase[r]]
  /\ UNCHANGED <<standing, subject, heard>>

Next ==
  \/ Change
  \/ \E r \in Requests, s \in Serials : Open(r, s)
  \/ \E r \in Requests, verdict \in {"allowed", "denied"} : Answer(r, verdict)
  \/ Drop

Spec == Init /\ [][Next]_vars
=============================================================================
