-------------------------- MODULE HealthMonitorProofs --------------------------
(***************************************************************************)
(* Proofs of the properties of HealthMonitor for every timeout, interval,  *)
(* set of executions and length of observation.                            *)
(*                                                                         *)
(* A check skips rows that are marked as unresponsive, so that an overdue  *)
(* execution is found only if the mark says that it was recovered (Marked);*)
(* and what is in running unnoticed came into sight at most one interval   *)
(* before the next check (Unnoticed).                                      *)
(***************************************************************************)
EXTENDS HealthMonitor, TLAPS

\* What is marked as unresponsive was recovered.
Marked ==
  \A e \in Execs : health[e] = "unresponsive" =>
    e \in recoveries /\ (e \in LastAttempts => status[e] = "dead_lettered")

\* Found before, with attempts left: recoverExecution() threw.
FoundBefore(e) == e \in recoveries \ LastAttempts

\* The next check is at most an interval after a running execution comes into sight.
Unnoticed == \A e \in Running : FoundBefore(e) \/ nextCheck <= InSight(e) + Interval

HInv == TypeOK /\ (faults = 0 => Marked /\ Unnoticed)

USE HealthAssumption

-------------------------------------------------------------------------------

\* What a check does with one row: one it recovers is overdue, and dead-lettered
\* if it was the last attempt; the status of others stays.
LEMMA RecoverEffect ==
  ASSUME TypeOK, NEW D \in SUBSET Running, Recover(D)
  PROVE  /\ status' \in [Execs -> Statuses]
         /\ \A e \in Execs : status'[e] = IF e \in D /\ e \in LastAttempts
                                            THEN "dead_lettered" ELSE status[e]
<1>1. ~Valid("running", "retry_scheduled")
  BY DEF Valid, VALID_TRANSITIONS
<1>2. \A e \in D : status[e] = "running"
  BY DEF Running
<1>3. \A e \in Execs : status'[e] = IF e \in D /\ e \in LastAttempts
                                      THEN "dead_lettered" ELSE status[e]
  BY <1>1, <1>2 DEF Recover
<1> QED
  BY <1>3 DEF Recover, TypeOK, Statuses

\* A status is changed by a check only in rows that are overdue.
LEMMA DetectedIsOverdue ==
  ASSUME NEW R \in SUBSET Running
  PROVE  Detected(R) \in SUBSET Running /\ \A e \in Detected(R) : Overdue(e)
BY DEF Detected

\* Every step keeps the types.
LEMMA TypeStep == TypeOK /\ [Next]_vars => TypeOK'
<1> SUFFICES ASSUME TypeOK, [Next]_vars PROVE TypeOK'
  OBVIOUS
<1>1. ASSUME NEW e \in Execs, StartExecution(e) PROVE TypeOK'
  BY <1>1 DEF StartExecution, TypeOK, Statuses
<1>2. ASSUME NEW e \in Execs, RequestInput(e) PROVE TypeOK'
  BY <1>2 DEF RequestInput, TypeOK, Statuses
<1>3. ASSUME NEW e \in Execs, ProvideInput(e) PROVE TypeOK'
  BY <1>3 DEF ProvideInput, TypeOK, Statuses
<1>4. ASSUME NEW e \in Execs, Complete(e) PROVE TypeOK'
  BY <1>4 DEF Complete, TypeOK, Statuses
<1>5. ASSUME NEW e \in Execs, Die(e) \/ Heartbeat(e) PROVE TypeOK'
  BY <1>5 DEF Die, Heartbeat, TypeOK, Statuses
<1>6. ASSUME NEW R \in SUBSET Running, NEW D \in SUBSET Detected(R), Due, Mark(R), Recover(D),
             recoveries' = recoveries \cup D, UNCHANGED <<now, startedAt, alive, watched>>,
             faults' \in 0..MaxFaults
      PROVE  TypeOK'
  <2>1. D \in SUBSET Running /\ D \subseteq Execs
    BY <1>6, DetectedIsOverdue DEF Running
  <2>2. /\ status' \in [Execs -> Statuses]
        /\ \A e \in Execs : status'[e] = "assigned" => status[e] = "assigned"
    BY <1>6, <2>1, RecoverEffect
  <2>3. health' \in [Execs -> {"healthy", "slow", "unresponsive"}]
    BY <1>6 DEF Mark, TypeOK
  <2>4. now' = now /\ nextCheck' = now + Interval /\ now \in Nat
    BY <1>6 DEF Due, TypeOK
  <2> QED
    BY <1>6, <2>1, <2>2, <2>3, <2>4 DEF TypeOK
<1>7. CASE Check
  BY <1>6, <1>7, DetectedIsOverdue DEF Check, TypeOK
<1>8. CASE CheckCut
  <2>1. faults' \in 0..MaxFaults
    BY <1>8 DEF CheckCut, TypeOK
  <2> QED
    BY <1>6, <1>8, <2>1 DEF CheckCut
<1>9. CASE RestartServer
  BY <1>9 DEF RestartServer, TypeOK
<1>10. CASE Tick
  BY <1>10 DEF Tick, TypeOK
<1>11. CASE UNCHANGED vars
  BY <1>11 DEF vars, TypeOK
<1> QED
  BY <1>1, <1>2, <1>3, <1>4, <1>5, <1>7, <1>8, <1>9, <1>10, <1>11 DEF Next

\* Steps of executions, of their runners and of the clock.
LEMMA OtherSteps ==
  ASSUME TypeOK, faults = 0 => Marked /\ Unnoticed, [Next]_vars, ~Check, faults' = 0
  PROVE  Marked' /\ Unnoticed'
<1>0. faults = 0 /\ Marked /\ Unnoticed /\ now <= nextCheck /\ nextCheck <= now + Interval
      /\ now \in Nat /\ nextCheck \in Nat
      /\ status \in [Execs -> Statuses] /\ startedAt \in [Execs -> Nat] /\ watched \in [Execs -> Nat]
      /\ health \in [Execs -> {"healthy", "slow", "unresponsive"}]
  <2>1. faults' = faults \/ faults' = faults + 1
    BY DEF Next, StartExecution, RequestInput, ProvideInput, Complete, Die, Heartbeat, Check,
           CheckCut, RestartServer, Tick, vars
  <2>2. faults = 0
    BY <2>1 DEF TypeOK
  <2> QED
    BY <2>2 DEF TypeOK
<1>1. ASSUME NEW e \in Execs, StartExecution(e) PROVE Marked' /\ Unnoticed'
  <2>1. Marked'
    BY <1>0, <1>1 DEF StartExecution, Marked
  <2>2. Unnoticed'
    BY <1>0, <1>1 DEF StartExecution, Unnoticed, Running, FoundBefore, InSight
  <2> QED
    BY <2>1, <2>2
<1>2. ASSUME NEW e \in Execs, ProvideInput(e) PROVE Marked' /\ Unnoticed'
  <2>1. Marked'
    BY <1>0, <1>2 DEF ProvideInput, Marked
  <2>2. Unnoticed'
    BY <1>0, <1>2 DEF ProvideInput, Unnoticed, Running, FoundBefore, InSight
  <2> QED
    BY <2>1, <2>2
<1>3. ASSUME NEW e \in Execs, RequestInput(e) \/ Complete(e) \/ Die(e) \/ Heartbeat(e)
      PROVE  Marked' /\ Unnoticed'
  <2>1. Marked'
    BY <1>0, <1>3 DEF RequestInput, Complete, Die, Heartbeat, Marked
  <2>2. Unnoticed'
    BY <1>0, <1>3 DEF RequestInput, Complete, Die, Heartbeat, Unnoticed, Running, FoundBefore, InSight
  <2> QED
    BY <2>1, <2>2
<1>4. CASE CheckCut \/ RestartServer
  BY <1>0, <1>4 DEF CheckCut, RestartServer
<1>5. CASE Tick \/ UNCHANGED vars
  BY <1>0, <1>5 DEF Tick, vars, Marked, Unnoticed, Running, FoundBefore, InSight
<1> QED
  BY <1>1, <1>2, <1>3, <1>4, <1>5 DEF Next

\* A check finds every running execution that is overdue and was not found before.
LEMMA CheckStep ==
  ASSUME TypeOK, Marked, Unnoticed, Check
  PROVE  Marked' /\ Unnoticed'
<1>0. /\ now \in Nat /\ nextCheck' = now + Interval /\ UNCHANGED <<now, startedAt, watched>>
      /\ startedAt \in [Execs -> Nat] /\ watched \in [Execs -> Nat]
      /\ recoveries' = recoveries \cup Detected(Running)
      /\ \A e \in Execs : health'[e] = IF e \in Detected(Running) THEN "unresponsive"
                                       ELSE IF e \in Slow(Running) THEN "slow" ELSE health[e]
  BY DEF Check, Due, Mark, TypeOK
<1>1. \A e \in Execs : status'[e] = IF e \in Detected(Running) /\ e \in LastAttempts
                                      THEN "dead_lettered" ELSE status[e]
  BY DetectedIsOverdue, RecoverEffect DEF Check
<1>2. Marked'
  BY <1>0, <1>1 DEF Marked
<1>3. ASSUME NEW e \in Running' PROVE FoundBefore(e)' \/ nextCheck' <= InSight(e)' + Interval
  <2>1. e \in Execs /\ status'[e] = "running" /\ e \in Running
    BY <1>1, <1>3 DEF Running
  <2>2. CASE e \in Detected(Running)
    BY <1>0, <1>1, <2>1, <2>2 DEF FoundBefore
  <2>3. CASE ~Overdue(e)
    BY <1>0, <2>1, <2>3 DEF Overdue, Elapsed, InSight
  <2>4. CASE Overdue(e) /\ health[e] = "unresponsive"
    BY <1>0, <2>1, <2>4 DEF Marked, FoundBefore, Running
  <2> QED
    BY <2>1, <2>2, <2>3, <2>4 DEF Detected
<1> QED
  BY <1>2, <1>3 DEF Unnoticed

\* The invariant holds in every reachable state.
THEOREM Invariance == Spec => []HInv
<1>1. Init => HInv
  BY DEF Init, HInv, TypeOK, Statuses, Marked, Unnoticed, Running
<1>2. HInv /\ [Next]_vars => HInv'
  <2> SUFFICES ASSUME HInv, [Next]_vars PROVE HInv'
    OBVIOUS
  <2>1. TypeOK /\ TypeOK'
    BY TypeStep DEF HInv
  <2>2. ASSUME faults' = 0, Check PROVE Marked' /\ Unnoticed'
    BY <2>1, <2>2, CheckStep DEF Check, HInv
  <2> QED
    BY <2>1, <2>2, OtherSteps DEF HInv
<1> QED
  BY <1>1, <1>2, PTL DEF Spec

(* OverdueIsFound: as long as no check raised and the server was not         *)
(* restarted, an execution is in running at most one interval beyond its     *)
(* timeout before it is recovered, and its last attempt is dead-lettered     *)
(* (check).                                                                  *)
THEOREM FoundInTime == Spec => []OverdueIsFound
<1>1. HInv => OverdueIsFound
  BY DEF HInv, TypeOK, Unnoticed, FoundBefore, OverdueIsFound, Running, InSight
<1> QED
  BY <1>1, Invariance, PTL

(* PunctualIsLeftAlone: faults or not, the monitor ends no execution that is *)
(* within its timeout (check, recoverExecution).                             *)
THEOREM LeftAlone == Spec => PunctualIsLeftAlone
<1> DEFINE A == \A e \in Execs : status'[e] = "dead_lettered" /\ status[e] # "dead_lettered" =>
                  now - startedAt[e] > Timeout
<1>1. HInv /\ [Next]_vars => [A]_vars
  <2> SUFFICES ASSUME HInv, Next, NEW e \in Execs,
                      status'[e] = "dead_lettered", status[e] # "dead_lettered"
               PROVE  Overdue(e)
    BY DEF Overdue, Elapsed
  <2>1. TypeOK
    BY DEF HInv
  <2>2. ASSUME NEW R \in SUBSET Running, NEW D \in SUBSET Detected(R), Recover(D) PROVE Overdue(e)
    BY <2>1, <2>2, DetectedIsOverdue, RecoverEffect
  <2>3. CASE Check
    BY <2>2, <2>3 DEF Check
  <2>4. CASE CheckCut
    BY <2>2, <2>4 DEF CheckCut
  <2>5. \A x \in Execs : ~(StartExecution(x) \/ RequestInput(x) \/ ProvideInput(x) \/ Complete(x)
                           \/ Die(x) \/ Heartbeat(x))
    BY <2>1 DEF TypeOK, StartExecution, RequestInput, ProvideInput, Complete, Die, Heartbeat
  <2>6. ~RestartServer /\ ~Tick
    BY DEF RestartServer, Tick
  <2> QED
    BY <2>3, <2>4, <2>5, <2>6 DEF Next
<1> QED
  BY <1>1, Invariance, PTL DEF Spec, PunctualIsLeftAlone

=============================================================================
