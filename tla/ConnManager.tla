---------------------------- MODULE ConnManager ----------------------------
(***************************************************************************)
(* The reconnect policy of the companion application: connection.Manager   *)
(* (go-app/connection/manager.go).  Each operator below is one method; the *)
(* method's body runs under Manager.mu, so each is one atomic update.      *)
(*                                                                         *)
(* nextAttempt is a wall-clock instant in the code.  The only question the *)
(* code ever asks about it is whether it has passed, so the model keeps    *)
(* that answer, due: scheduling a probe makes it FALSE and time makes it   *)
(* TRUE again (DeadlinePasses).  A zero nextAttempt has always passed.     *)
(* attempts is compared with degradedAfterAttempts and with nothing else,  *)
(* so it saturates there.  lastError and the telemetry calls are text and  *)
(* counters for display and are left out.                                  *)
(***************************************************************************)
EXTENDS Naturals

CONSTANT DegradedAfter          \* degradedAfterAttempts, 30 in the code

ASSUME DegradedAssumption == DegradedAfter \in Nat \ {0}

VARIABLES
    state,        \* Manager.state
    attempts,     \* Manager.attempts, saturating at DegradedAfter
    due,          \* the instant Manager.nextAttempt has passed
    recovering    \* Manager.recovering

managerVars == <<state, attempts, due, recovering>>

\* Discovering is a state of the type only: BeginDiscovery has no caller
\* outside the tests, so the running program never enters it.
States == {"Detached", "Opening", "Handshaking", "Ready", "Degraded", "Reconnecting"}

ManagerTypeOK ==
    /\ state \in States
    /\ attempts \in 0..DegradedAfter
    /\ due \in BOOLEAN
    /\ recovering \in BOOLEAN

ManagerInit ==
    /\ state = "Detached"
    /\ attempts = 0
    /\ due = TRUE
    /\ recovering = FALSE

\* A recovery probe may be taken: CanAttempt, and the guard of BeginAttempt.
Retrying == state \in {"Reconnecting", "Degraded"}
CanAttempt == Retrying /\ due

BeginOpen ==
    /\ state' = "Opening"
    /\ UNCHANGED <<attempts, due, recovering>>

BeginHandshake ==
    /\ state' = "Handshaking"
    /\ UNCHANGED <<attempts, due, recovering>>

MarkReady ==
    /\ state' = "Ready"
    /\ attempts' = 0
    /\ due' = TRUE
    /\ recovering' = FALSE

MarkLost ==
    /\ state' = "Reconnecting"
    /\ attempts' = 0
    /\ due' = FALSE
    /\ recovering' = TRUE

BeginAttempt ==
    /\ CanAttempt
    /\ state' = "Opening"
    /\ UNCHANGED <<attempts, due, recovering>>

\* Mutant: the legacy policy, which stops after the last fast attempt.
MarkAttemptFailedGivesUp ==
    /\ attempts' = IF attempts < DegradedAfter THEN attempts + 1 ELSE attempts
    /\ state' = IF attempts' >= DegradedAfter THEN "Detached" ELSE "Reconnecting"
    /\ recovering' = TRUE
    /\ due' = FALSE

\* Mutant: Degraded is entered one failure late (> instead of >=).
MarkAttemptFailedLate ==
    /\ attempts' = IF attempts <= DegradedAfter THEN attempts + 1 ELSE attempts
    /\ state' = IF attempts' > DegradedAfter THEN "Degraded" ELSE "Reconnecting"
    /\ recovering' = TRUE
    /\ due' = FALSE

MarkAttemptFailed ==
    /\ recovering' = TRUE
    /\ attempts' = IF attempts < DegradedAfter THEN attempts + 1 ELSE attempts
    /\ state' = IF attempts' >= DegradedAfter THEN "Degraded" ELSE "Reconnecting"
    /\ due' = FALSE

MarkDetached ==
    /\ state' = "Detached"
    /\ attempts' = 0
    /\ due' = TRUE
    /\ recovering' = FALSE

\* Time reaches nextAttempt (250 ms to 2 s ahead, 5 s when Degraded).
DeadlinePasses ==
    /\ ~due
    /\ due' = TRUE
    /\ UNCHANGED <<state, attempts, recovering>>
=============================================================================
