--------------------------- MODULE PositionMonitor ---------------------------
(***************************************************************************)
(* The exit monitor of AutonomousTradingBot and the tracking dictionary it *)
(* rebuilds on every pass: stops, targets, strategy and underlying of each *)
(* open position, keyed by contract symbol, saved to active_positions.json.*)
(*                                                                         *)
(* The loop thread runs passes and scans.  Commander threads (Telegram     *)
(* uplink, dashboard requests, command worker) open a position themselves, *)
(* run a scan, or register forced exits and run a monitor pass.  Nothing   *)
(* is locked: an order checks the account, loads it and saves it back, and *)
(* so does the mark-to-market at the end of a pass.                        *)
(*                                                                         *)
(* A tracking record is "full" when an entry wrote it and "bare" when the  *)
(* monitor made it up for a position it found untracked: a bare one has    *)
(* neither strategy nor underlying.  Positions are trades, numbered in the *)
(* order they open; all have the same quantity.  An order that fills only  *)
(* in part leaves its position open.                                       *)
(***************************************************************************)
EXTENDS Naturals

CONSTANTS
    Contracts, Underlyings, Accounts,
    UnderlyingOf,   \* contract -> underlying
    AccountOf,      \* contract -> account of its league
    SubstringsOf,   \* contract -> names its symbol contains
    Commanders,     \* threads that serve the commander
    MaxTrades,      \* bound: positions opened; one more is not followed
    MaxCalls,       \* bound: calls of commanders
    Faults,         \* kinds of fault the environment may inject
    MaxFaults       \* bound: number of faults

FaultKinds == {"unread", "refused", "raise", "partial", "unsaved", "crash"}

Names == Contracts \cup Underlyings

ASSUME ConstantsAssumption ==
    /\ UnderlyingOf \in [Contracts -> Underlyings]
    /\ AccountOf \in [Contracts -> Accounts]
    /\ SubstringsOf \in [Contracts -> SUBSET Names]
    /\ \A c \in Contracts : {c, UnderlyingOf[c]} \subseteq SubstringsOf[c]
    /\ "none" \notin Contracts /\ "loop" \notin Commanders
    /\ MaxTrades \in Nat /\ MaxCalls \in Nat /\ MaxFaults \in Nat
    /\ Faults \subseteq FaultKinds

Threads == {"loop"} \cup Commanders
Trades == 1..MaxTrades
Records == {"none", "bare", "full"}
Untracked == [c \in Contracts |-> "none"]

VARIABLES
    contract,   \* trade -> contract, or "none" for one not opened yet
    short,      \* trades on the selling side: an exit opened them
    open,       \* trades the stored accounts hold open
    copy,       \* thread -> account it has loaded: [account, lots]
    tracking,   \* _active_positions_tracking
    saved,      \* active_positions.json
    forced,     \* _forced_exits
    credited,   \* trade -> outcomes booked on its strategy
    pc,         \* thread -> next step
    unread,     \* thread -> accounts this pass has still to read
    todo,       \* thread -> positions this pass has read and not evaluated
    rebuilt,    \* thread -> updated_tracking of this pass
    marks,      \* thread -> accounts this pass has still to mark to market
    exiting,    \* thread -> [trade, rec] of the exit in progress
    added,      \* thread -> names this request put into forced
    calls,      \* number of calls of commanders so far
    asked,      \* thread -> open trades this request wants closed
    scanning,   \* threads inside a scan
    targets,    \* thread -> underlyings its scan may still enter
    entering,   \* thread -> [contract, trade] of the entry in progress
    faults,     \* number of faults so far
    shaken,     \* trades whose record a fault or a race may cost (history)
    torn,       \* trades whose exits and book do not match (history): filled
                \* in part, exited when already closed, or changed by the save
                \* of an account loaded before
    raced,      \* trades entered beside another entry check (history)
    claimed     \* trades a request reported as closed (history)

venue == <<contract, short, open, copy>>
memory == <<tracking, forced>>
disk == <<saved, credited>>
pass == <<unread, todo, rebuilt, marks, exiting>>
request == <<added, asked, calls>>
entry == <<scanning, targets, entering>>
history == <<shaken, torn, raced, claimed>>
vars == <<venue, memory, disk, pc, pass, request, entry, faults, history>>

Lots(c) == {n \in open : contract[n] = c}

Oldest(S) == CHOOSE n \in S : \A m \in S : n <= m

NoExit == [trade |-> 0, rec |-> "none"]

InPass(t) == pc[t] \in {"read", "decide", "exit", "fill", "settle", "book"}

NoEntry == [contract |-> "none", trade |-> 0]

(* Trades opened by entries that have not written their record yet. *)
InFlight == {entering[t].trade : t \in Threads} \ {0}

Goto(t, step) == pc' = [pc EXCEPT ![t] = step]

(* The account of a trade, and what a thread's copy of it has missed. *)
OpenIn(a) == {n \in open : AccountOf[contract[n]] = a}

NoCopy == [account |-> "none", lots |-> {}]

Outdated(t) ==
    LET now == OpenIn(copy[t].account)
    IN  (copy[t].lots \ now) \cup (now \ copy[t].lots)

(* load_account and save_account: the whole account, whoever wrote last. *)
Load(t, a) == copy' = [copy EXCEPT ![t] = [account |-> a, lots |-> OpenIn(a)]]

Store(t, lots) ==
    /\ open' = (open \ OpenIn(copy[t].account)) \cup lots
    /\ copy' = [copy EXCEPT ![t] = NoCopy]

(* The number of the next trade, unless the bound is reached. *)
Unused ==
    {n \in Trades : contract[n] = "none" /\ \A m \in 1..(n - 1) : contract[m] # "none"}

(* Lots of S on the contract and the side of trade n. *)
SameSide(S, n) == {m \in S : contract[m] = contract[n] /\ (m \in short <=> n \in short)}

Fault(kind) ==
    /\ kind \in Faults
    /\ faults < MaxFaults
    /\ faults' = faults + 1

Call ==
    /\ calls < MaxCalls
    /\ calls' = calls + 1

Init ==
    /\ contract = [n \in Trades |-> "none"]
    /\ short = {}
    /\ open = {}
    /\ copy = [t \in Threads |-> NoCopy]
    /\ tracking = Untracked
    /\ saved = Untracked
    /\ forced = {}
    /\ credited = [n \in Trades |-> 0]
    /\ pc = [t \in Threads |-> "idle"]
    /\ unread = [t \in Threads |-> {}]
    /\ todo = [t \in Threads |-> {}]
    /\ rebuilt = [t \in Threads |-> Untracked]
    /\ marks = [t \in Threads |-> {}]
    /\ exiting = [t \in Threads |-> NoExit]
    /\ added = [t \in Threads |-> {}]
    /\ asked = [t \in Threads |-> {}]
    /\ calls = 0
    /\ scanning = {}
    /\ targets = [t \in Threads |-> {}]
    /\ entering = [t \in Threads |-> NoEntry]
    /\ faults = 0
    /\ shaken = {}
    /\ torn = {}
    /\ raced = {}
    /\ claimed = {}

------------------------------------------------------------------------------
(* A monitor pass: _monitor_and_exit_positions *)

BeginPass(t) ==
    /\ unread' = [unread EXCEPT ![t] = Accounts]
    /\ Goto(t, "read")

LoopMonitors ==
    /\ pc["loop"] = "idle"
    /\ BeginPass("loop")
    /\ UNCHANGED <<venue, memory, disk, todo, rebuilt, marks, exiting, request, entry,
                   faults, history>>

(* venue.get_positions(): of several lots of one symbol a pass keeps one,  *)
(* which depends on their order and on the record's venue.  An account     *)
(* that raises is skipped.                                                 *)
OnePerSymbol(seen, lots) ==
    /\ \A n \in lots : \E m \in seen : contract[m] = contract[n]
    /\ \A m, n \in seen : contract[m] = contract[n] => m = n

ReadAccount(t) ==
    /\ pc[t] = "read"
    /\ \E a \in unread[t] :
          /\ unread' = [unread EXCEPT ![t] = @ \ {a}]
          /\ \/ /\ \E seen \in SUBSET OpenIn(a) :
                       /\ OnePerSymbol(seen, OpenIn(a))
                       /\ todo' = [todo EXCEPT ![t] = @ \cup seen]
                /\ marks' = [marks EXCEPT ![t] = IF OpenIn(a) = {} THEN @ ELSE @ \cup {a}]
                /\ shaken' = shaken \cup (OpenIn(a) \cap InFlight)
                /\ UNCHANGED faults
             \/ /\ Fault("unread")
                /\ shaken' = shaken \cup OpenIn(a)
                /\ UNCHANGED <<todo, marks>>
          /\ IF unread'[t] = {} THEN Goto(t, "decide") ELSE UNCHANGED pc
    /\ UNCHANGED <<venue, memory, disk, rebuilt, exiting, request, entry, torn, raced,
                   claimed>>

(* The record the ladder works on: a bare one is made up for none. *)
RecordFor(c) == IF tracking[c] = "none" THEN "bare" ELSE tracking[c]

IsForced(c, rec) == c \in forced \/ (rec = "full" /\ UnderlyingOf[c] \in forced)

(* _evaluate_cascading_exits.  What the rungs below the forced exit decide *)
(* is the subject of module ExitLadder; here they may decide either way.   *)
Decide(t) ==
    /\ pc[t] = "decide"
    /\ \E n \in todo[t] :
          LET c == contract[n]
              rec == RecordFor(c)
          IN  /\ todo' = [todo EXCEPT ![t] = @ \ {n}]
              /\ \/ /\ exiting' = [exiting EXCEPT ![t] = [trade |-> n, rec |-> rec]]
                    /\ Goto(t, "exit")
                    /\ UNCHANGED rebuilt
                 \/ /\ ~IsForced(c, rec)
                    /\ rebuilt' = [rebuilt EXCEPT ![t][c] = rec]
                    /\ UNCHANGED <<exiting, pc>>
    /\ UNCHANGED <<venue, memory, disk, unread, marks, request, entry, faults, history>>

(* Mutant: the response of the order is not looked at. *)
SendExitBlind(t) ==
    /\ pc[t] = "exit"
    /\ \/ /\ SameSide(open, exiting[t].trade) # {}
          /\ Goto(t, "fill")
          /\ UNCHANGED <<faults, shaken>>
       \/ /\ \/ SameSide(open, exiting[t].trade) = {} /\ UNCHANGED faults
             \/ Fault("refused")
          /\ shaken' = shaken \cup Lots(contract[exiting[t].trade])
          /\ Goto(t, "book")
    /\ UNCHANGED <<venue, memory, disk, pass, request, entry, torn, raced, claimed>>

(* The exit order is reduce-only: it is refused when nothing is open on    *)
(* the position's side.  A refusal leaves the position out of              *)
(* updated_tracking.                                                       *)
SendExit(t) ==
    /\ pc[t] = "exit"
    /\ \/ /\ SameSide(open, exiting[t].trade) # {}
          /\ Goto(t, "fill")
          /\ UNCHANGED <<exiting, faults, shaken>>
       \/ /\ \/ SameSide(open, exiting[t].trade) = {} /\ UNCHANGED faults
             \/ Fault("refused")
          /\ shaken' = shaken \cup Lots(contract[exiting[t].trade])
          /\ exiting' = [exiting EXCEPT ![t] = NoExit]
          /\ Goto(t, "decide")
    /\ UNCHANGED <<venue, memory, disk, unread, todo, rebuilt, marks, request, entry,
                   torn, raced, claimed>>

(* Mutant: an exception of the order drops the record. *)
ExitRaisesDrops(t) ==
    /\ pc[t] \in {"exit", "fill", "settle"}
    /\ Fault("raise")
    /\ copy' = [copy EXCEPT ![t] = NoCopy]
    /\ exiting' = [exiting EXCEPT ![t] = NoExit]
    /\ Goto(t, "decide")
    /\ UNCHANGED <<contract, short, open, memory, disk, unread, todo, rebuilt, marks,
                   request, entry, history>>

(* The quote, the trade row or the account may raise, nothing is booked in *)
(* the account then: the record is kept.                                   *)
ExitRaises(t) ==
    /\ pc[t] \in {"exit", "fill", "settle"}
    /\ Fault("raise")
    /\ copy' = [copy EXCEPT ![t] = NoCopy]
    /\ rebuilt' = [rebuilt EXCEPT ![t][contract[exiting[t].trade]] = exiting[t].rec]
    /\ exiting' = [exiting EXCEPT ![t] = NoExit]
    /\ Goto(t, "decide")
    /\ UNCHANGED <<contract, short, open, memory, disk, unread, todo, marks, request,
                   entry, history>>

(* The order is executed, then the account loaded ... *)
FillExit(t) ==
    /\ pc[t] = "fill"
    /\ Load(t, AccountOf[contract[exiting[t].trade]])
    /\ Goto(t, "settle")
    /\ UNCHANGED <<contract, short, open, memory, disk, pass, request, entry, faults,
                   history>>

(* ... and the trade applied to it: the oldest lot on the position's side  *)
(* is closed, or reduced, *)
Reduce(t, n) ==
    LET lots == SameSide(copy[t].lots, n)
        k == Oldest(lots)
    IN  /\ lots # {}
        /\ \/ /\ Store(t, copy[t].lots \ {k})
              /\ torn' = torn \cup Outdated(t)
              /\ UNCHANGED faults
           \/ /\ Fault("partial")
              /\ Store(t, copy[t].lots)
              /\ torn' = torn \cup Outdated(t) \cup {k}
        /\ exiting' = [exiting EXCEPT ![t].trade = k]
        /\ shaken' = shaken \cup ({k} \ {n})
        /\ UNCHANGED <<contract, short>>

(* or, when another exit has closed it since the check, the same quantity  *)
(* opened on the other side.                                               *)
Overrun(t, n) ==
    /\ SameSide(copy[t].lots, n) = {}
    /\ contract' = [k \in Trades |-> IF k \in Unused THEN contract[n] ELSE contract[k]]
    /\ short' = IF n \in short THEN short ELSE short \cup Unused
    /\ Store(t, copy[t].lots \cup Unused)
    /\ torn' = torn \cup Outdated(t) \cup Unused \cup {n}
    /\ shaken' = shaken \cup {m \in copy[t].lots : contract[m] = contract[n]}
    /\ UNCHANGED <<exiting, faults>>

SettleExit(t) ==
    /\ pc[t] = "settle"
    /\ Reduce(t, exiting[t].trade) \/ Overrun(t, exiting[t].trade)
    /\ Goto(t, "book")
    /\ UNCHANGED <<memory, disk, unread, todo, rebuilt, marks, request, entry, raced,
                   claimed>>

Credit(n) == credited' = [credited EXCEPT ![n] = @ + 1]

(* The bookkeeping of a fill.  The strategy of a bare record is unknown    *)
(* and nobody is credited.  An exception before or after the credit keeps  *)
(* the closed position's record.                                           *)
Book(t) ==
    /\ pc[t] = "book"
    /\ LET n == exiting[t].trade
           rec == exiting[t].rec
       IN  \/ /\ IF rec = "full" THEN Credit(n) ELSE UNCHANGED credited
              /\ UNCHANGED <<rebuilt, faults, shaken>>
           \/ /\ Fault("raise")
              /\ \/ rec = "full" /\ Credit(n)
                 \/ UNCHANGED credited
              /\ shaken' = shaken \cup {n}
              /\ rebuilt' = [rebuilt EXCEPT ![t][contract[n]] = rec]
    /\ exiting' = [exiting EXCEPT ![t] = NoExit]
    /\ Goto(t, "decide")
    /\ UNCHANGED <<venue, memory, saved, unread, todo, marks, request, entry, torn,
                   raced, claimed>>

(* Mutant: it is updated with the rebuilt one. *)
ReplaceMerges(t) ==
    /\ pc[t] = "decide"
    /\ todo[t] = {}
    /\ tracking' = [c \in Contracts |-> IF rebuilt[t][c] = "none" THEN tracking[c]
                                      ELSE rebuilt[t][c]]
    /\ rebuilt' = [rebuilt EXCEPT ![t] = Untracked]
    /\ Goto(t, "save")
    /\ UNCHANGED <<venue, forced, disk, unread, todo, marks, exiting, request, entry,
                   faults, history>>

(* The tracking dictionary is replaced by the rebuilt one. *)
Replace(t) ==
    /\ pc[t] = "decide"
    /\ todo[t] = {}
    /\ tracking' = rebuilt[t]
    /\ rebuilt' = [rebuilt EXCEPT ![t] = Untracked]
    /\ Goto(t, "save")
    /\ UNCHANGED <<venue, forced, disk, unread, todo, marks, exiting, request, entry,
                   faults, history>>

(* A scan goes on with its next target, a request is done. *)
AfterEntry(t) == IF t \in scanning THEN "enter" ELSE "idle"

(* Mutant: an entry does not save. *)
SaveNotEntry(t) ==
    /\ pc[t] \in {"save", "saveEntry"}
    /\ \/ saved' = (IF pc[t] = "save" THEN tracking ELSE saved) /\ UNCHANGED <<faults, shaken>>
       \/ Fault("unsaved") /\ shaken' = shaken \cup open /\ UNCHANGED saved
    /\ Goto(t, IF pc[t] = "save" THEN "mark" ELSE AfterEntry(t))
    /\ UNCHANGED <<venue, memory, credited, pass, request, entry, torn, raced, claimed>>

(* _save_positions_tracking, of a pass or of an entry.  A save that fails  *)
(* costs the new copy.                                                     *)
Save(t) ==
    /\ pc[t] \in {"save", "saveEntry"}
    /\ \/ saved' = tracking /\ UNCHANGED <<faults, shaken>>
       \/ Fault("unsaved") /\ shaken' = shaken \cup open /\ UNCHANGED saved
    /\ Goto(t, IF pc[t] = "save" THEN "mark" ELSE AfterEntry(t))
    /\ UNCHANGED <<venue, memory, credited, pass, request, entry, torn, raced, claimed>>

(* The mark-to-market loads each account the pass saw positions in and     *)
(* saves it back with new prices, unless there is no price or an account   *)
(* raises, which ends it.                                                  *)
MarkAccount(t) ==
    /\ pc[t] = "mark"
    /\ \E a \in marks[t] :
          /\ marks' = [marks EXCEPT ![t] = @ \ {a}]
          /\ \/ OpenIn(a) # {} /\ Load(t, a) /\ Goto(t, "write")
             \/ UNCHANGED <<copy, pc>>
    /\ UNCHANGED <<contract, short, open, memory, disk, unread, todo, rebuilt, exiting,
                   request, entry, faults, history>>

WriteMarks(t) ==
    /\ pc[t] = "write"
    /\ Store(t, copy[t].lots)
    /\ torn' = torn \cup Outdated(t)
    /\ Goto(t, "mark")
    /\ UNCHANGED <<contract, short, memory, disk, pass, request, entry, faults, shaken,
                   raced, claimed>>

(* After its pass the loop may scan and a request answers. *)
EndPass(t) ==
    /\ pc[t] = "mark"
    /\ marks[t] = {}
    /\ Goto(t, IF t = "loop" THEN "scan" ELSE "answer")
    /\ UNCHANGED <<venue, memory, disk, pass, request, entry, faults, history>>

------------------------------------------------------------------------------
(* Entries *)

(* Mutant: the contract symbols instead. *)
TrackedContracts == {c \in Contracts : tracking[c] = "full"}

(* Underlyings of the records that name one. *)
TrackedUnderlyings == {UnderlyingOf[c] : c \in {d \in Contracts : tracking[d] = "full"}}

(* A scan lists what it may enter once, before it evaluates anything.  The *)
(* loop scans after its pass; RUN_SCAN has the command worker do so.       *)
BeginScan(t) ==
    /\ pc[t] = IF t = "loop" THEN "scan" ELSE "idle"
    /\ scanning' = scanning \cup {t}
    /\ targets' = [targets EXCEPT ![t] = Underlyings \ TrackedUnderlyings]
    /\ Goto(t, "enter")
    /\ IF t = "loop" THEN UNCHANGED calls ELSE Call
    /\ UNCHANGED <<venue, memory, disk, pass, added, asked, entering, faults, history>>

(* ... and takes the underlyings one by one; the gates may reject each. *)
ScanEnters(t) ==
    /\ pc[t] = "enter"
    /\ \E c \in Contracts :
          /\ UnderlyingOf[c] \in targets[t]
          /\ targets' = [targets EXCEPT ![t] = @ \ {UnderlyingOf[c]}]
          /\ entering' = [entering EXCEPT ![t] = [contract |-> c, trade |-> 0]]
    /\ Goto(t, "place")
    /\ UNCHANGED <<venue, memory, disk, pass, request, scanning, faults, history>>

EndScan(t) ==
    /\ pc[t] = "enter"
    /\ scanning' = scanning \ {t}
    /\ targets' = [targets EXCEPT ![t] = {}]
    /\ Goto(t, "idle")
    /\ UNCHANGED <<venue, memory, disk, pass, request, entering, faults, history>>

(* request_force_entry up to the order. *)
ForceEntry(t) ==
    /\ pc[t] = "idle"
    /\ \E c \in Contracts :
          /\ UnderlyingOf[c] \notin TrackedUnderlyings
          /\ entering' = [entering EXCEPT ![t] = [contract |-> c, trade |-> 0]]
    /\ Goto(t, "place")
    /\ Call
    /\ UNCHANGED <<venue, memory, disk, pass, added, asked, scanning, targets, faults,
                   history>>

GiveUp(t) ==
    /\ entering' = [entering EXCEPT ![t] = NoEntry]
    /\ Goto(t, AfterEntry(t))

(* The entry order: rejected, or raised before the account was saved, and  *)
(* given up; or executed and the account loaded.  The index scan takes an  *)
(* order that raised for one to be tracked as unconfirmed.                 *)
PlaceEntry(t) ==
    /\ pc[t] = "place"
    /\ \/ /\ GiveUp(t)
          /\ UNCHANGED <<copy, faults>>
       \/ /\ t \in scanning /\ Fault("raise")
          /\ Goto(t, "track")
          /\ UNCHANGED <<copy, entering>>
       \/ /\ Load(t, AccountOf[entering[t].contract])
          /\ Goto(t, "settleEntry")
          /\ UNCHANGED <<entering, faults>>
    /\ UNCHANGED <<contract, short, open, memory, disk, pass, request, scanning, targets,
                   history>>

(* The trade is applied: a buy reduces a short lot of its contract first.  *)
(* Two lots of one contract share one record.                              *)
SettleEntry(t) ==
    LET c == entering[t].contract
        beside == {m \in copy[t].lots : contract[m] = c}
    IN  /\ pc[t] = "settleEntry"
        /\ torn' = torn \cup Outdated(t)
        /\ \/ /\ beside \cap short # {}
              /\ \E sold \in SUBSET {Oldest(beside \cap short)} : Store(t, copy[t].lots \ sold)
              /\ UNCHANGED <<contract, entering, shaken>>
           \/ /\ beside \cap short = {}
              /\ \E n \in Unused :
                    /\ contract' = [contract EXCEPT ![n] = c]
                    /\ Store(t, copy[t].lots \cup {n})
                    /\ entering' = [entering EXCEPT ![t].trade = n]
                    /\ shaken' = IF beside = {} THEN shaken ELSE shaken \cup beside \cup {n}
        /\ Goto(t, "track")
        /\ UNCHANGED <<short, memory, disk, pass, request, scanning, targets, faults, raced,
                       claimed>>

(* Bound: an entry beyond MaxTrades is given up. *)
NoMoreTrades(t) ==
    /\ pc[t] = "settleEntry"
    /\ Unused = {}
    /\ GiveUp(t)
    /\ copy' = [copy EXCEPT ![t] = NoCopy]
    /\ UNCHANGED <<contract, short, open, memory, disk, pass, request, scanning, targets,
                   faults, history>>

(* Another thread has passed its check for underlying u and not entered it *)
(* yet, or not tracked it.                                                 *)
OtherEntry(t, u) ==
    \E s \in Threads \ {t} :
        \/ u \in targets[s]
        \/ pc[s] \in {"place", "settleEntry", "track"} /\ UnderlyingOf[entering[s].contract] = u

(* The entry's record is written, or lost to an exception after the fill.  *)
TrackEntry(t) ==
    /\ pc[t] = "track"
    /\ LET c == entering[t].contract
           filled == {entering[t].trade} \ {0}
       IN  /\ \/ /\ tracking' = [tracking EXCEPT ![c] = "full"]
                 /\ shaken' = IF \E s \in Threads : InPass(s) THEN shaken \cup filled
                              ELSE shaken
                 /\ Goto(t, "saveEntry")
                 /\ UNCHANGED faults
              \/ /\ Fault("raise")
                 /\ shaken' = shaken \cup filled
                 /\ Goto(t, AfterEntry(t))
                 /\ UNCHANGED tracking
           /\ raced' = IF OtherEntry(t, UnderlyingOf[c]) THEN raced \cup filled ELSE raced
    /\ entering' = [entering EXCEPT ![t] = NoEntry]
    /\ UNCHANGED <<venue, forced, disk, pass, request, scanning, targets, torn, claimed>>

------------------------------------------------------------------------------
(* Forced exits *)

(* Mutant: a record without underlying registers the empty name. *)
RequestExitsBlank(t, matches) ==
    /\ pc[t] = "idle"
    /\ matches # {}
    /\ LET names == matches \cup
                     {IF tracking[c] = "full" THEN UnderlyingOf[c] ELSE "none" : c \in matches}
       IN  /\ forced' = forced \cup names
           /\ added' = [added EXCEPT ![t] = names]
    /\ asked' = [asked EXCEPT ![t] = {n \in open : contract[n] \in matches}]
    /\ BeginPass(t)
    /\ Call
    /\ UNCHANGED <<venue, tracking, disk, todo, rebuilt, marks, exiting, entry, faults,
                   history>>

(* request_force_exit and _close_all_positions up to their monitor pass. *)
RequestExits(t, matches) ==
    /\ pc[t] = "idle"
    /\ matches # {}
    /\ LET names == matches \cup
                     {UnderlyingOf[c] : c \in {d \in matches : tracking[d] = "full"}}
       IN  /\ forced' = forced \cup names
           /\ added' = [added EXCEPT ![t] = names]
    /\ asked' = [asked EXCEPT ![t] = {n \in open : contract[n] \in matches}]
    /\ BeginPass(t)
    /\ Call
    /\ UNCHANGED <<venue, tracking, disk, todo, rebuilt, marks, exiting, entry, faults,
                   history>>

Tracked == {c \in Contracts : tracking[c] # "none"}

ForceExit(t) ==
    \E name \in Names : RequestExits(t, {c \in Tracked : name \in SubstringsOf[c]})

CloseAll(t) == RequestExits(t, Tracked)

(* The request withdraws its names and reports what is no longer tracked. *)
Answer(t) ==
    /\ pc[t] = "answer"
    /\ forced' = forced \ added[t]
    /\ claimed' = claimed \cup {n \in asked[t] : tracking[contract[n]] = "none"}
    /\ added' = [added EXCEPT ![t] = {}]
    /\ asked' = [asked EXCEPT ![t] = {}]
    /\ Goto(t, "idle")
    /\ UNCHANGED <<venue, tracking, disk, pass, calls, entry, faults, shaken, torn, raced>>

------------------------------------------------------------------------------
(* The process dies and a new one loads the file.  The history remembers   *)
(* whose record or credit was on its way.                                  *)
Crash ==
    /\ Fault("crash")
    /\ tracking' = saved
    /\ forced' = {}
    /\ copy' = [t \in Threads |-> NoCopy]
    /\ pc' = [t \in Threads |-> "idle"]
    /\ unread' = [t \in Threads |-> {}]
    /\ todo' = [t \in Threads |-> {}]
    /\ rebuilt' = [t \in Threads |-> Untracked]
    /\ marks' = [t \in Threads |-> {}]
    /\ exiting' = [t \in Threads |-> NoExit]
    /\ added' = [t \in Threads |-> {}]
    /\ asked' = [t \in Threads |-> {}]
    /\ scanning' = {}
    /\ targets' = [t \in Threads |-> {}]
    /\ entering' = [t \in Threads |-> NoEntry]
    /\ shaken' = shaken \cup InFlight
                 \cup {exiting[t].trade : t \in {s \in Threads : pc[s] = "book"}}
                 \cup (IF \E t \in Threads : pc[t] = "saveEntry" THEN open ELSE {})
    /\ UNCHANGED <<contract, short, open, disk, calls, torn, raced, claimed>>

PassStep(t) ==
    \/ ReadAccount(t) \/ Decide(t)
    \/ SendExit(t) \/ ExitRaises(t) \/ FillExit(t) \/ SettleExit(t) \/ Book(t)
    \/ Replace(t) \/ Save(t)
    \/ MarkAccount(t) \/ WriteMarks(t) \/ EndPass(t)

EntryStep(t) ==
    \/ ScanEnters(t) \/ EndScan(t)
    \/ PlaceEntry(t) \/ SettleEntry(t) \/ NoMoreTrades(t) \/ TrackEntry(t)

LoopStep == LoopMonitors \/ BeginScan("loop") \/ PassStep("loop") \/ EntryStep("loop")

CommanderStep(t) == PassStep(t) \/ EntryStep(t) \/ Answer(t)

Next ==
    \/ LoopStep
    \/ \E t \in Commanders :
          \/ CommanderStep(t)
          \/ BeginScan(t)
          \/ ForceEntry(t)
          \/ ForceExit(t)
          \/ CloseAll(t)
    \/ Crash

(* The loop runs and a request once begun is served; the commander may     *)
(* never make one.                                                         *)
Spec ==
    /\ Init /\ [][Next]_vars
    /\ WF_vars(LoopStep)
    /\ \A t \in Commanders : WF_vars(CommanderStep(t))

------------------------------------------------------------------------------
(* Every variable has its type. *)
TypeOK ==
    /\ contract \in [Trades -> Contracts \cup {"none"}]
    /\ open \subseteq {n \in Trades : contract[n] # "none"}
    /\ short \subseteq Trades
    /\ copy \in [Threads -> [account : Accounts \cup {"none"}, lots : SUBSET Trades]]
    /\ {tracking, saved} \subseteq [Contracts -> Records]
    /\ forced \subseteq Names
    /\ credited \in [Trades -> Nat]
    /\ pc \in [Threads -> {"idle", "read", "decide", "exit", "fill", "settle", "book",
                           "save", "mark", "write", "scan", "enter", "place",
                           "settleEntry", "track", "saveEntry", "answer"}]
    /\ unread \in [Threads -> SUBSET Accounts]
    /\ todo \in [Threads -> SUBSET Trades]
    /\ rebuilt \in [Threads -> [Contracts -> Records]]
    /\ marks \in [Threads -> SUBSET Accounts]
    /\ exiting \in [Threads -> [trade : Trades \cup {0}, rec : Records]]
    /\ added \in [Threads -> SUBSET Names]
    /\ asked \in [Threads -> SUBSET Trades]
    /\ scanning \subseteq Threads
    /\ targets \in [Threads -> SUBSET Underlyings]
    /\ entering \in [Threads -> [contract : Contracts \cup {"none"}, trade : Trades \cup {0}]]
    /\ faults \in 0..MaxFaults /\ calls \in 0..MaxCalls
    /\ {shaken, torn, raced, claimed} \subseteq SUBSET Trades

(* An open position keeps the record its entry wrote, through any number   *)
(* of passes, restarts and forced exits of other positions, unless one of  *)
(* the known causes touched it: an unread account, a refused exit, an      *)
(* exception, a failed save, an entry during a pass, a shared contract     *)
(* (shaken), or an exit filled in part, an exit of what was closed already *)
(* and an account saved over newer trades (torn).                          *)
OpenKeepsRecord ==
    \A n \in open \ (shaken \cup torn \cup InFlight) : tracking[contract[n]] = "full"

(* However many passes evaluate a position and send exits for it, its      *)
(* outcome is booked on its strategy once, when it closes and never        *)
(* before, unless exits and book fell apart: an exit filled in part, a     *)
(* second exit that found nothing left and opened the other side, or a     *)
(* stale account saved over the close.                                     *)
CreditedOnce ==
    \A n \in Trades \ torn :
        /\ credited[n] <= 1
        /\ credited[n] = 1 => contract[n] # "none" /\ n \notin open
        /\ contract[n] # "none" /\ n \notin open \cup shaken
              /\ (\A t \in Threads : ~(pc[t] = "book" /\ exiting[t].trade = n))
            => credited[n] = 1

(* "Closed immediately" is true of a position unless a known cause cost it *)
(* its record, or its exit and the book fell apart.                        *)
ReportedClosedIsClosed == claimed \cap open \subseteq shaken \cup torn

(* Two open positions on one underlying come from a record lost to a known *)
(* cause, from an exit that opened a position or a save that reopened one, *)
(* or from two entries that both passed their check, of the loop's scan,   *)
(* of a scan on the command worker, or of the commander.                   *)
OneTradePerUnderlying ==
    \A m, n \in open :
        m < n /\ UnderlyingOf[contract[m]] = UnderlyingOf[contract[n]]
          => m \in shaken \/ {m, n} \cap (torn \cup raced \cup InFlight) # {}

(* The monitor heals what faults and races leave behind: an open position  *)
(* without a record is adopted, a record without a position is dropped.    *)
TrackingFollowsBook ==
    \A c \in Contracts :
        (Lots(c) # {}) # (tracking[c] # "none") ~> (Lots(c) # {}) = (tracking[c] # "none")
=============================================================================
