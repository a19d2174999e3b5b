----------------------------- MODULE TradingHalt -----------------------------
(***************************************************************************)
(* Who may stop the bot from entering trades, and what lifts the stop.     *)
(*                                                                         *)
(* AutonomousBot keeps three fields without a lock: halted (a key of       *)
(* intraday_override), gatekeeper_state and elder_manual_input_received.   *)
(* The loop thread, the 06:00 CronScheduler, the Telegram thread and the   *)
(* command router write them.  Two accesses of one field by one thread are *)
(* separate steps wherever another thread's access between them matters.   *)
(* A scan is one of the loop: RUN_SCAN scans on the command worker without *)
(* a look at the three fields.                                             *)
(*                                                                         *)
(* The clock has the three parts of the day the code tells apart: night    *)
(* (00:00-06:00), gate (06:00-09:00) and day (09:00-24:00).                *)
(***************************************************************************)
EXTENDS Naturals

CONSTANT MaxDate   \* bound: number of dates

ASSUME MaxDateAssumption == MaxDate \in Nat \ {0}

VARIABLES
    hour, date,     \* the wall clock
    halted,         \* intraday_override["halted"]
    gatekeeper,     \* gatekeeper_state
    elder,          \* elder_manual_input_received
    lastMidnight,   \* _last_midnight_reset_date
    killed,         \* RiskManager._killed
    alerted,        \* _last_token_alert_date
    lastReset,      \* CronScheduler's last_reset_date
    pc,             \* the loop thread's next step
    now,            \* the clock as this iteration read it
    telegram,       \* the Telegram thread's next step
    standing,       \* last date whose resets had both run when a halt was
                    \* ordered that the commander has not undone (history)
    killAcked,      \* /kill was acknowledged to the commander (history)
    inputDate,      \* date of the commander's last input (history)
    firstDate,      \* date of the process's first iteration (history)
    flushed,        \* 06:00 reset since this iteration began (history)
    breach          \* what this iteration's drawdown check saw: no breach,
                    \* the process's first, or one after it (history)

clock == <<hour, date>>
memory == <<halted, gatekeeper, elder, lastMidnight, killed, alerted>>
history == <<standing, killAcked, inputDate, firstDate, flushed, breach>>
vars == <<clock, memory, lastReset, pc, now, telegram, history>>

Hours == {"night", "gate", "day"}
NoDate == 0
Dates == 1..MaxDate

KillEngaged == "KILL_SWITCH_ENGAGED"
Await == "Await_Elder_Command"
None == "None"
Blocking == {KillEngaged, Await}

LoopSteps == {"top", "gate", "monitor", "health", "engage", "readGatekeeper",
              "readHalted", "scan", "sync"}

Init ==
    /\ hour \in Hours
    /\ date = 1
    /\ now = [hour |-> hour, date |-> date]
    /\ halted = FALSE
    /\ gatekeeper = None
    /\ elder = FALSE
    /\ lastMidnight = NoDate
    /\ killed = FALSE
    /\ alerted = NoDate
    /\ lastReset = NoDate
    /\ pc = "top"
    /\ telegram = "idle"
    /\ standing = NoDate
    /\ killAcked = FALSE
    /\ inputDate = NoDate
    /\ firstDate = NoDate
    /\ flushed = FALSE
    /\ breach = "no"

------------------------------------------------------------------------------
(* The clock, and the resets the dates drive *)

Tick ==
    /\ \/ /\ hour = "night"
          /\ hour' = "gate"
          /\ date' = date
       \/ /\ hour = "gate"
          /\ hour' = "day"
          /\ date' = date
       \/ /\ hour = "day"
          /\ date < MaxDate
          /\ hour' = "night"
          /\ date' = date + 1
    /\ UNCHANGED <<memory, lastReset, pc, now, telegram, history>>

(* What intraday_override.clear() and pop("halted") do. *)
Lift == halted' = FALSE

(* The commander, or whoever starts the bot anew, undoes a halt. *)
Undo == standing' = NoDate

(* Mutant: it stores the date of the next reset. *)
CronResetNextDate ==
    /\ hour # "night"
    /\ lastReset # date
    /\ lastReset' = date + 1
    /\ Lift
    /\ elder' = FALSE
    /\ gatekeeper' = None
    /\ flushed' = TRUE
    /\ UNCHANGED <<clock, lastMidnight, killed, alerted, pc, now, telegram,
                   standing, killAcked, inputDate, firstDate, breach>>

(* Mutant: it resets at every poll. *)
CronResetEveryPoll ==
    /\ hour # "night"
    /\ lastReset' = date
    /\ Lift
    /\ elder' = FALSE
    /\ gatekeeper' = None
    /\ flushed' = TRUE
    /\ UNCHANGED <<clock, lastMidnight, killed, alerted, pc, now, telegram,
                   standing, killAcked, inputDate, firstDate, breach>>

(* CronScheduler.run, once per date from 06:00 on, and at once when the    *)
(* process starts later in the day.                                        *)
CronReset ==
    /\ hour # "night"
    /\ lastReset # date
    /\ lastReset' = date
    /\ Lift
    /\ elder' = FALSE
    /\ gatekeeper' = None
    /\ flushed' = TRUE
    /\ UNCHANGED <<clock, lastMidnight, killed, alerted, pc, now, telegram,
                   standing, killAcked, inputDate, firstDate, breach>>

------------------------------------------------------------------------------
(* One iteration of AutonomousBot._run_loop *)

Goto(step) == pc' = step

(* Mutant: the midnight reset forgets elder_manual_input_received. *)
BeginKeepsInput ==
    /\ pc = "top"
    /\ now' = [hour |-> hour, date |-> date]
    /\ lastMidnight' = date
    /\ firstDate' = IF lastMidnight = NoDate THEN date ELSE firstDate
    /\ IF lastMidnight \notin {NoDate, date}
       THEN Lift /\ gatekeeper' = None
       ELSE UNCHANGED <<halted, gatekeeper>>
    /\ flushed' = FALSE
    /\ breach' = "no"
    /\ Goto("gate")
    /\ UNCHANGED <<clock, elder, killed, alerted, lastReset, telegram,
                   standing, killAcked, inputDate>>


(* Reads the clock once, then the midnight reset. *)
Begin ==
    /\ pc = "top"
    /\ now' = [hour |-> hour, date |-> date]
    /\ lastMidnight' = date
    /\ firstDate' = IF lastMidnight = NoDate THEN date ELSE firstDate
    /\ IF lastMidnight \notin {NoDate, date}
       THEN Lift /\ elder' = FALSE /\ gatekeeper' = None
       ELSE UNCHANGED <<halted, elder, gatekeeper>>
    /\ flushed' = FALSE
    /\ breach' = "no"
    /\ Goto("gate")
    /\ UNCHANGED <<clock, killed, alerted, lastReset, telegram, standing,
                   killAcked, inputDate>>

(* Mutant: no branch lifts the gate. *)
GatekeeperNeverLifts ==
    /\ pc = "gate"
    /\ gatekeeper' = IF now.hour = "gate" /\ ~elder THEN Await ELSE gatekeeper
    /\ Goto("monitor")
    /\ UNCHANGED <<clock, halted, elder, lastMidnight, killed, alerted,
                   lastReset, now, telegram, history>>

Gatekeeper ==
    /\ pc = "gate"
    /\ gatekeeper' = IF now.hour = "gate" /\ ~elder THEN Await ELSE None
    /\ Goto("monitor")
    /\ UNCHANGED <<clock, halted, elder, lastMidnight, killed, alerted,
                   lastReset, now, telegram, history>>

(* The exit monitor may raise: the rest of the iteration is skipped. *)
Monitor ==
    /\ pc = "monitor"
    /\ Goto("health") \/ Goto("top")
    /\ UNCHANGED <<clock, memory, lastReset, now, telegram, history>>

(* A halt is ordered, by whomever.  The two resets of the date lift it     *)
(* unless they have run: even an iteration that began before midnight      *)
(* makes its reset after a /kill or /pause of the new date.                *)
OrderHalt ==
    /\ halted' = TRUE
    /\ standing' = IF lastReset = date /\ lastMidnight = date THEN date ELSE standing

(* RiskManager.check_portfolio_health acts on the first breach only; of    *)
(* the two fields it writes, halted is the first.  Computing the metrics   *)
(* may raise.                                                              *)
FirstBreach ==
    /\ ~killed
    /\ breach' = "first"
    /\ OrderHalt
    /\ Goto("engage")

CheckHealth ==
    /\ pc = "health"
    /\ \/ FirstBreach
       \/ /\ \/ breach' = "no" /\ (Goto("readGatekeeper") \/ Goto("top"))
             \/ killed /\ breach' = "again" /\ Goto("readGatekeeper")
          /\ UNCHANGED <<halted, standing>>
    /\ UNCHANGED <<clock, gatekeeper, elder, lastMidnight, killed, alerted,
                   lastReset, now, telegram, killAcked, inputDate, firstDate,
                   flushed>>

(* Mutant: it latches without engaging the gatekeeper. *)
EngageLatchOnly ==
    /\ pc = "engage"
    /\ killed' = TRUE
    /\ Goto("readGatekeeper")
    /\ UNCHANGED <<clock, halted, gatekeeper, elder, lastMidnight, alerted,
                   lastReset, now, telegram, history>>

EngageKillSwitch ==
    /\ pc = "engage"
    /\ gatekeeper' = KillEngaged
    /\ killed' = TRUE
    /\ Goto("readGatekeeper")
    /\ UNCHANGED <<clock, halted, elder, lastMidnight, alerted, lastReset, now,
                   telegram, history>>

(* The scan runs on a new 15-minute bar only. *)
ReadGatekeeper ==
    /\ pc = "readGatekeeper"
    /\ \/ gatekeeper \notin Blocking /\ Goto("readHalted")
       \/ Goto("sync")
    /\ UNCHANGED <<clock, memory, lastReset, now, telegram, history>>

ReadHalted ==
    /\ pc = "readHalted"
    /\ Goto(IF halted THEN "sync" ELSE "scan")
    /\ UNCHANGED <<clock, memory, lastReset, now, telegram, history>>

(* The scan places its orders without looking at the three fields again.   *)
Scan ==
    /\ pc = "scan"
    /\ Goto("sync") \/ Goto("top")
    /\ UNCHANGED <<clock, memory, lastReset, now, telegram, history>>

(* Every 180 s, in LIVE mode: a venue that refuses the session halts       *)
(* entries, once per date.                                                 *)
CheckBrokerSession ==
    /\ pc = "sync"
    /\ \/ /\ alerted # date
          /\ alerted' = date
          /\ OrderHalt
       \/ UNCHANGED <<alerted, halted, standing>>
    /\ Goto("top")
    /\ UNCHANGED <<clock, gatekeeper, elder, lastMidnight, killed, lastReset,
                   now, telegram, killAcked, inputDate, firstDate, flushed,
                   breach>>

Loop ==
    \/ Begin
    \/ Gatekeeper
    \/ Monitor
    \/ CheckHealth
    \/ EngageKillSwitch
    \/ ReadGatekeeper
    \/ ReadHalted
    \/ Scan
    \/ CheckBrokerSession

------------------------------------------------------------------------------
(* The commander *)

Halt ==
    /\ telegram = "idle"
    /\ OrderHalt
    /\ UNCHANGED <<clock, gatekeeper, elder, lastMidnight, killed, alerted,
                   lastReset, pc, now, killAcked, inputDate, firstDate, flushed,
                   breach>>

Pause == Halt /\ UNCHANGED telegram

(* /kill: halted, then gatekeeper_state, then the liquidation and the      *)
(* acknowledgement.                                                        *)
Kill == Halt /\ telegram' = "engage"

KillEngage ==
    /\ telegram = "engage"
    /\ gatekeeper' = KillEngaged
    /\ telegram' = "liquidate"
    /\ UNCHANGED <<clock, halted, elder, lastMidnight, killed, alerted,
                   lastReset, pc, now, history>>

(* Listing the tracked positions to liquidate may raise: no answer then.   *)
KillAcknowledge ==
    /\ telegram = "liquidate"
    /\ telegram' = "idle"
    /\ killAcked' \in {killAcked, TRUE}
    /\ UNCHANGED <<clock, memory, lastReset, pc, now, standing, inputDate,
                   firstDate, flushed, breach>>

Resume ==
    /\ telegram = "idle"
    /\ gatekeeper # KillEngaged
    /\ Lift
    /\ Undo
    /\ UNCHANGED <<clock, gatekeeper, elder, lastMidnight, killed, alerted,
                   lastReset, pc, now, telegram, killAcked, inputDate, firstDate,
                   flushed, breach>>

(* Any command line counts as the commander's input (handle_command) ...   *)
Input ==
    /\ elder' = TRUE
    /\ inputDate' = date
    /\ UNCHANGED <<clock, halted, gatekeeper, lastMidnight, killed, alerted,
                   lastReset, pc, now, telegram, standing, killAcked, firstDate,
                   flushed, breach>>

(* ... and "override revoke" clears the halt with the other overrides.     *)
Revoke ==
    /\ elder' = TRUE
    /\ inputDate' = date
    /\ Lift
    /\ Undo
    /\ UNCHANGED <<clock, gatekeeper, lastMidnight, killed, alerted, lastReset,
                   pc, now, telegram, killAcked, firstDate, flushed, breach>>

------------------------------------------------------------------------------
(* STOP_AUTONOMOUS then START_AUTONOMOUS: the bot keeps its fields and     *)
(* gets a new CronScheduler, which has reset nothing yet.                  *)
StopAndStart ==
    /\ pc = "top"
    /\ telegram = "idle"
    /\ lastReset' = NoDate
    /\ Undo
    /\ UNCHANGED <<clock, memory, pc, now, telegram, killAcked, inputDate, firstDate,
                   flushed, breach>>

(* A new process. *)
Restart ==
    /\ halted' = FALSE
    /\ gatekeeper' = None
    /\ elder' = FALSE
    /\ lastMidnight' = NoDate
    /\ killed' = FALSE
    /\ alerted' = NoDate
    /\ lastReset' = NoDate
    /\ pc' = "top"
    /\ telegram' = "idle"
    /\ Undo
    /\ killAcked' = FALSE
    /\ inputDate' = NoDate
    /\ firstDate' = NoDate
    /\ flushed' = FALSE
    /\ breach' = "no"
    /\ UNCHANGED <<clock, now>>

Next ==
    \/ Tick
    \/ CronReset
    \/ Loop
    \/ Pause
    \/ Kill
    \/ KillEngage
    \/ KillAcknowledge
    \/ Resume
    \/ Input
    \/ Revoke
    \/ StopAndStart
    \/ Restart

(* The loop's steps return (each is bounded by its own timeouts) and time  *)
(* passes.  Nothing is assumed of the commander or of the cron thread.     *)
Spec == Init /\ [][Next]_vars /\ WF_vars(Loop) /\ WF_vars(Tick)

------------------------------------------------------------------------------
(* Every variable has its type. *)
TypeOK ==
    /\ hour \in Hours /\ date \in Dates
    /\ halted \in BOOLEAN
    /\ gatekeeper \in {None} \cup Blocking
    /\ {elder, killed, killAcked, flushed} \subseteq BOOLEAN
    /\ breach \in {"no", "first", "again"}
    /\ {lastMidnight, alerted, lastReset, standing, inputDate, firstDate}
          \subseteq {NoDate} \cup Dates
    /\ pc \in LoopSteps
    /\ now \in [hour : Hours, date : Dates]
    /\ telegram \in {"idle", "engage", "liquidate"}

(* Once the midnight and the 06:00 reset of a date have both run, a halt   *)
(* ordered by the commander, the drawdown check or a broker refusal keeps  *)
(* the loop out of every scan until that date ends: nothing but a resume,  *)
(* a revoke or starting the bot anew undoes it, though the scheduler polls *)
(* on, the loop passes its midnight check and rewrites gatekeeper_state in *)
(* every iteration.                                                        *)
HaltStandsAllDay == [][pc # "scan" /\ pc' = "scan" => standing # date]_vars


(* Between 06:00 and 09:00 the loop scans only after the commander's input *)
(* of that date (or later), unless the 06:00 reset fell into the iteration *)
(* or the process first looped on that date: it then had no midnight to    *)
(* compare with.  Otherwise yesterday's input never opens today's gate.    *)
ScanNeedsInput ==
    pc = "scan" /\ now.hour = "gate"
      => inputDate >= now.date \/ flushed \/ firstDate = now.date

(* The first drawdown breach of a process keeps that iteration from        *)
(* scanning, even if a resume or a revoke falls between the two fields the *)
(* kill switch writes; only the 06:00 reset, which clears both, undoes it. *)
FirstBreachStopsScan == breach = "first" /\ ~flushed => pc # "scan"

(* Waiting for the commander ends by itself: 09:00 comes and the loop      *)
(* lifts the gate.                                                         *)
AwaitIsLifted == gatekeeper = Await ~> gatekeeper # Await

(* autonomous_bot.py:3261: "Kill switch is engaged - /resume refused.      *)
(* Restart the system to clear it."  A /resume after the acknowledgement   *)
(* of a /kill leaves the halt in place.                                    *)
KillRefusesResume == [][killAcked /\ halted /\ Resume => halted']_vars

(* capital_preservation.py:117: "Checks if drawdown is breached. If so,    *)
(* halts trading and liquidates."  No scan follows a check that saw the    *)
(* drawdown breached once more.                                            *)
BreachHalts == breach = "again" => pc # "scan"
=============================================================================
