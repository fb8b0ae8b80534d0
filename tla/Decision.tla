------------------------------- MODULE Decision -------------------------------
(***************************************************************************)
(* What the approval subsystem promises, without Slack, GitHub, the outbox  *)
(* or any failure: a case has rounds, one after the other; a round that is  *)
(* open is closed once and for good, by one decision; a new round closes    *)
(* the open ones before it; remediation is granted only while the newest    *)
(* round stands approved, and at most once in its name.                     *)
(* Approval.tla is shown to implement this specification.                   *)
(***************************************************************************)
EXTENDS Naturals

CONSTANT Rounds       \* the round numbers, 1..n

VARIABLES newest,     \* the number of the newest round, 0 before the first
          verdict,    \* the decision on each round
          granted     \* the rounds in whose name remediation was granted

Verdict == {"PENDING", "APPROVED", "REJECTED", "EXPIRED", "SUPERSEDED"}

TypeOK ==
    /\ newest \in Rounds \cup {0}
    /\ verdict \in [Rounds -> Verdict \cup {"NONE"}]
    /\ granted \subseteq Rounds

Init ==
    /\ newest = 0
    /\ verdict = [r \in Rounds |-> "NONE"]
    /\ granted = {}

\* A triage result opens a round of its own and closes the rounds before it.
Open(r) ==
    /\ r > newest
    /\ newest' = r
    /\ verdict' = [q \in Rounds |->
                     IF q = r THEN "PENDING"
                     ELSE IF verdict[q] = "PENDING" THEN "SUPERSEDED" ELSE verdict[q]]
    /\ UNCHANGED granted

\* Somebody decides the newest round.
Decide(d) ==
    /\ newest # 0
    /\ verdict[newest] = "PENDING"
    /\ verdict' = [verdict EXCEPT ![newest] = d]
    /\ UNCHANGED <<newest, granted>>

\* Remediation is granted in the name of the newest round.
Grant ==
    /\ newest # 0
    /\ verdict[newest] = "APPROVED"
    /\ newest \notin granted
    /\ granted' = granted \cup {newest}
    /\ UNCHANGED <<newest, verdict>>

Next ==
    \/ \E r \in Rounds : Open(r)
    \/ \E d \in {"APPROVED", "REJECTED", "EXPIRED"} : Decide(d)
    \/ Grant

Spec == Init /\ [][Next]_<<newest, verdict, granted>>
=============================================================================
