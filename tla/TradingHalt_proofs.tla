-------------------------- MODULE TradingHalt_proofs --------------------------
(***************************************************************************)
(* Types, the halt, the gate and the first drawdown breach, for every      *)
(* number of dates.                                                        *)
(***************************************************************************)
EXTENDS TradingHalt, TLAPS

USE DEF NoDate, KillEngaged, Await, None

(* A date or none. *)
DatesOK ==
    /\ date \in Nat
    /\ now.date \in Nat
    /\ lastMidnight \in Nat
    /\ inputDate \in Nat
    /\ lastMidnight <= date

(* Input of this date, or of a later one, or one no midnight could reset. *)
Answered(d) == inputDate >= d \/ firstDate = d

(* An iteration runs on the date of its midnight check ...                 *)
IterationDate == pc # "top" => now.date = lastMidnight

(* ... an input that is still remembered was given since that date ...     *)
InputSinceMidnight == elder => Answered(lastMidnight)

(* ... and an open gate was opened by such an input.                       *)
GateHeld ==
    now.hour = "gate" /\ ~flushed =>
        /\ pc \in {"monitor", "health", "engage", "readGatekeeper"} =>
              gatekeeper \in Blocking \/ Answered(now.date)
        /\ pc \in {"readHalted", "scan"} => Answered(now.date)

GateInv == DatesOK /\ IterationDate /\ InputSinceMidnight /\ GateHeld

(* Once a first breach is seen, the iteration holds a kill switch nobody   *)
(* but the 06:00 reset can take away before the iteration is over.         *)
BreachInv ==
    breach = "first" /\ ~flushed =>
        \/ pc = "engage"
        \/ gatekeeper = KillEngaged /\ pc \in {"readGatekeeper", "sync", "top"}

------------------------------------------------------------------------------

LEMMA GateInit == Init => GateInv
  BY DEF Init, GateInv, DatesOK, IterationDate, InputSinceMidnight, GateHeld,
         Answered

(* One step per action; the loop's actions are the ones that move pc.      *)
LEMMA GateStep == GateInv /\ [Next]_vars => GateInv'
<1> SUFFICES ASSUME GateInv, [Next]_vars PROVE GateInv'
  OBVIOUS
<1> USE DEF GateInv, DatesOK, IterationDate, InputSinceMidnight, GateHeld,
            Answered, Blocking, memory, clock, history, Goto, Lift, Undo
<1>1. CASE Tick
  BY <1>1 DEF Tick
<1>2. CASE CronReset
  BY <1>2 DEF CronReset
<1>3. CASE Begin
  <2>1. DatesOK' /\ IterationDate' /\ GateHeld'
    BY <1>3 DEF Begin
  <2>2. CASE lastMidnight \notin {NoDate, date}
    BY <2>1, <2>2, <1>3 DEF Begin
  <2>3. CASE lastMidnight = NoDate
    BY <2>1, <2>3, <1>3 DEF Begin
  <2>4. CASE lastMidnight = date
    BY <2>1, <2>4, <1>3 DEF Begin
  <2> QED
    BY <2>2, <2>3, <2>4
<1>4. CASE Gatekeeper
  BY <1>4 DEF Gatekeeper
<1>5. CASE Monitor
  BY <1>5 DEF Monitor
<1>6. CASE CheckHealth
  BY <1>6 DEF CheckHealth, FirstBreach
<1>7. CASE EngageKillSwitch
  BY <1>7 DEF EngageKillSwitch
<1>8. CASE ReadGatekeeper
  BY <1>8 DEF ReadGatekeeper
<1>9. CASE ReadHalted
  BY <1>9 DEF ReadHalted
<1>10. CASE Scan
  BY <1>10 DEF Scan
<1>11. CASE CheckBrokerSession
  BY <1>11 DEF CheckBrokerSession
<1>12. CASE Pause \/ Kill
  BY <1>12 DEF Pause, Kill, Halt
<1>13. CASE KillEngage
  BY <1>13 DEF KillEngage
<1>14. CASE KillAcknowledge
  BY <1>14 DEF KillAcknowledge
<1>15. CASE Resume
  BY <1>15 DEF Resume
<1>16. CASE Input
  BY <1>16 DEF Input
<1>17. CASE Revoke
  BY <1>17 DEF Revoke
<1>18. CASE StopAndStart
  BY <1>18 DEF StopAndStart
<1>19. CASE Restart
  BY <1>19 DEF Restart
<1>20. CASE UNCHANGED vars
  BY <1>20 DEF vars
<1> QED
  BY <1>1, <1>2, <1>3, <1>4, <1>5, <1>6, <1>7, <1>8, <1>9, <1>10, <1>11,
     <1>12, <1>13, <1>14, <1>15, <1>16, <1>17, <1>18, <1>19, <1>20
     DEF Next, Loop

(* Between 06:00 and 09:00 the loop scans on the commander's input of that *)
(* date only (or after the 06:00 reset, or on the process's first date).   *)
THEOREM ScanNeedsInputHolds == Spec => []ScanNeedsInput
<1>1. GateInv => ScanNeedsInput
  BY DEF GateInv, GateHeld, Answered, ScanNeedsInput
<1> QED
  BY GateInit, GateStep, <1>1, PTL DEF Spec

------------------------------------------------------------------------------

LEMMA BreachInit == Init => BreachInv
  BY DEF Init, BreachInv

LEMMA BreachStep == BreachInv /\ [Next]_vars => BreachInv'
<1> SUFFICES ASSUME BreachInv, [Next]_vars PROVE BreachInv'
  OBVIOUS
<1> USE DEF BreachInv, memory, clock, history, Goto
<1>1. CASE Tick
  BY <1>1 DEF Tick
<1>2. CASE CronReset
  BY <1>2 DEF CronReset
<1>3. CASE Begin
  BY <1>3 DEF Begin
<1>4. CASE Gatekeeper \/ Monitor
  BY <1>4 DEF Gatekeeper, Monitor
<1>5. CASE CheckHealth
  BY <1>5 DEF CheckHealth, FirstBreach
<1>6. CASE EngageKillSwitch
  BY <1>6 DEF EngageKillSwitch
<1>7. CASE ReadGatekeeper
  BY <1>7 DEF ReadGatekeeper, Blocking
<1>8. CASE ReadHalted \/ Scan
  BY <1>8 DEF ReadHalted, Scan
<1>9. CASE CheckBrokerSession
  BY <1>9 DEF CheckBrokerSession
<1>10. CASE Pause \/ Kill \/ KillEngage \/ KillAcknowledge
  BY <1>10 DEF Pause, Kill, Halt, KillEngage, KillAcknowledge
<1>11. CASE Resume \/ Input \/ Revoke
  BY <1>11 DEF Resume, Input, Revoke
<1>12. CASE StopAndStart \/ Restart
  BY <1>12 DEF StopAndStart, Restart
<1>13. CASE UNCHANGED vars
  BY <1>13 DEF vars
<1> QED
  BY <1>1, <1>2, <1>3, <1>4, <1>5, <1>6, <1>7, <1>8, <1>9, <1>10, <1>11,
     <1>12, <1>13 DEF Next, Loop

(* The first breach of a process keeps its iteration out of the scan,      *)
(* whatever the commander does meanwhile.                                  *)
THEOREM FirstBreachHolds == Spec => []FirstBreachStopsScan
<1>1. BreachInv => FirstBreachStopsScan
  BY DEF BreachInv, FirstBreachStopsScan
<1> QED
  BY BreachInit, BreachStep, <1>1, PTL DEF Spec

------------------------------------------------------------------------------

LEMMA TypeInit == Init => TypeOK
<1> SUFFICES ASSUME Init PROVE TypeOK
  OBVIOUS
<1>1. date \in Dates
  BY MaxDateAssumption DEF Init, Dates
<1>2. now \in [hour : Hours, date : Dates]
  BY <1>1 DEF Init
<1> QED
  BY <1>1, <1>2 DEF Init, TypeOK, LoopSteps, Hours

(* The loop's steps: each reads the clock or moves one field.              *)
LEMMA TypeLoop == TypeOK /\ Loop => TypeOK'
<1> SUFFICES ASSUME TypeOK, Loop PROVE TypeOK'
  OBVIOUS
<1> USE DEF TypeOK, Hours, Dates, LoopSteps, Blocking, memory, clock, history,
            Goto, Lift, Undo, OrderHalt
<1>1. CASE Begin
  <2>1. now' \in [hour : Hours, date : Dates]
    BY <1>1 DEF Begin
  <2>2. firstDate' \in {NoDate} \cup Dates /\ lastMidnight' \in {NoDate} \cup Dates
    BY <1>1 DEF Begin
  <2>3. halted' \in BOOLEAN /\ elder' \in BOOLEAN
        /\ gatekeeper' \in {None} \cup Blocking
    BY <1>1 DEF Begin
  <2> QED
    BY <2>1, <2>2, <2>3, <1>1 DEF Begin
<1>2. CASE Gatekeeper \/ Monitor
  BY <1>2 DEF Gatekeeper, Monitor
<1>3. CASE CheckHealth
  BY <1>3 DEF CheckHealth, FirstBreach
<1>4. CASE EngageKillSwitch
  BY <1>4 DEF EngageKillSwitch
<1>5. CASE ReadGatekeeper \/ ReadHalted \/ Scan
  BY <1>5 DEF ReadGatekeeper, ReadHalted, Scan
<1>6. CASE CheckBrokerSession
  <2>1. alerted' \in {NoDate} \cup Dates
    BY <1>6 DEF CheckBrokerSession
  <2>2. halted' \in BOOLEAN /\ standing' \in {NoDate} \cup Dates
    BY <1>6 DEF CheckBrokerSession
  <2> QED
    BY <2>1, <2>2, <1>6 DEF CheckBrokerSession
<1> QED
  BY <1>1, <1>2, <1>3, <1>4, <1>5, <1>6 DEF Loop

LEMMA TypeStep == TypeOK /\ [Next]_vars => TypeOK'
<1> SUFFICES ASSUME TypeOK, [Next]_vars PROVE TypeOK'
  OBVIOUS
<1> USE DEF TypeOK, Hours, Dates, LoopSteps, Blocking, memory, clock, history, Lift, Undo
<1>1. CASE Tick
  BY <1>1, MaxDateAssumption DEF Tick
<1>2. CASE CronReset
  BY <1>2 DEF CronReset
<1>3. CASE Loop
  BY <1>3, TypeLoop
<1>4. CASE Pause \/ Kill
  BY <1>4 DEF Pause, Kill, Halt, OrderHalt
<1>5. CASE KillEngage \/ KillAcknowledge
  BY <1>5, ZenonT(40) DEF KillEngage, KillAcknowledge
<1>6. CASE Resume \/ Input \/ Revoke
  BY <1>6, ZenonT(40) DEF Resume, Input, Revoke
<1>7. CASE StopAndStart \/ Restart
  BY <1>7 DEF StopAndStart, Restart
<1>8. CASE UNCHANGED vars
  BY <1>8 DEF vars
<1> QED
  BY <1>1, <1>2, <1>3, <1>4, <1>5, <1>6, <1>7, <1>8 DEF Next

(* Every variable keeps its type, whatever the number of dates.            *)
THEOREM TypeCorrect == Spec => []TypeOK
  BY TypeInit, TypeStep, PTL DEF Spec

------------------------------------------------------------------------------
(* A halt that stands is latched, and both resets of its date are behind   *)
(* it; neither comes again on that date, as no later date is stored.       *)
HaltInv ==
    /\ date \in Nat /\ standing \in Nat /\ standing <= date
    /\ date # NoDate
    /\ standing = date => halted /\ lastReset = date /\ lastMidnight = date

LEMMA HaltStep == HaltInv /\ [Next]_vars => HaltInv'
<1> SUFFICES ASSUME HaltInv, [Next]_vars PROVE HaltInv'
  OBVIOUS
<1> USE DEF HaltInv, memory, clock, history, Lift, Undo
<1>1. CASE Tick
  BY <1>1 DEF Tick
<1>2. CASE CronReset
  BY <1>2 DEF CronReset
<1>3. CASE Begin
  BY <1>3 DEF Begin
<1>4. CASE Gatekeeper \/ Monitor
  BY <1>4 DEF Gatekeeper, Monitor
<1>5. CASE CheckHealth
  BY <1>5 DEF CheckHealth, FirstBreach, OrderHalt
<1>6. CASE EngageKillSwitch \/ ReadGatekeeper \/ ReadHalted \/ Scan
  BY <1>6 DEF EngageKillSwitch, ReadGatekeeper, ReadHalted, Scan
<1>7. CASE CheckBrokerSession
  BY <1>7 DEF CheckBrokerSession, OrderHalt
<1>8. CASE Pause \/ Kill
  BY <1>8 DEF Pause, Kill, Halt, OrderHalt
<1>9. CASE KillEngage \/ KillAcknowledge \/ Input
  BY <1>9 DEF KillEngage, KillAcknowledge, Input
<1>10. CASE Resume \/ Revoke
  BY <1>10 DEF Resume, Revoke
<1>11. CASE StopAndStart \/ Restart
  BY <1>11 DEF StopAndStart, Restart
<1>12. CASE UNCHANGED vars
  BY <1>12 DEF vars
<1> QED
  BY <1>1, <1>2, <1>3, <1>4, <1>5, <1>6, <1>7, <1>8, <1>9, <1>10, <1>11, <1>12
     DEF Next, Loop

(* Only the loop's own read of halted leads into the scan.                 *)
LEMMA ScanFollowsRead == [Next]_vars /\ pc # "scan" /\ pc' = "scan" => ReadHalted
<1> SUFFICES ASSUME [Next]_vars, pc # "scan", pc' = "scan" PROVE ReadHalted
  OBVIOUS
<1>1. CASE Tick \/ CronReset \/ Pause \/ Kill \/ KillEngage \/ KillAcknowledge
           \/ Resume \/ Input \/ Revoke \/ StopAndStart
  BY <1>1 DEF Tick, CronReset, Pause, Kill, Halt, KillEngage, KillAcknowledge,
              Resume, Input, Revoke, StopAndStart
<1>2. CASE Begin \/ Gatekeeper \/ Monitor \/ CheckHealth \/ EngageKillSwitch
           \/ ReadGatekeeper \/ Scan \/ CheckBrokerSession \/ Restart
  BY <1>2 DEF Begin, Gatekeeper, Monitor, CheckHealth, FirstBreach, EngageKillSwitch,
              ReadGatekeeper, Scan, CheckBrokerSession, Restart, Goto
<1>3. CASE UNCHANGED vars
  BY <1>3 DEF vars
<1> QED
  BY <1>1, <1>2, <1>3 DEF Next, Loop

(* A halt ordered after both resets of a date keeps the loop out of every  *)
(* scan until the date ends or the commander undoes it: neither reset      *)
(* comes a second time, whatever the loop and the scheduler do meanwhile.  *)
THEOREM HaltStands == Spec => HaltStandsAllDay
<1>1. Init => HaltInv
  BY DEF Init, HaltInv
<1>2. HaltInv /\ [Next]_vars => [pc # "scan" /\ pc' = "scan" => standing # date]_vars
  BY ScanFollowsRead DEF HaltInv, ReadHalted, Goto
<1> QED
  BY <1>1, <1>2, HaltStep, PTL DEF Spec, HaltStandsAllDay
=============================================================================
