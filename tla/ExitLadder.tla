------------------------------ MODULE ExitLadder ------------------------------
(***************************************************************************)
(* The exit ladder of one open position: _evaluate_cascading_exits and, for*)
(* a bought option, _evaluate_option_exit_ladder.  Every monitor pass      *)
(* evaluates the position once, first match wins, and updates the tracking *)
(* record the rungs read: peak, stop, scale-out stage.                     *)
(*                                                                         *)
(* Prices are written as gains: the distance from the entry price in the   *)
(* position's favour.  The code mirrors every comparison for shorts, so    *)
(* one formula stands for both sides.  Prices are naturals in one unit.    *)
(***************************************************************************)
EXTENDS Integers

CONSTANTS
    Kinds,          \* kinds of position: option, long, short
    Entry,          \* entry price (premium of an option)
    Rupee,          \* price units per rupee
    Quantity,       \* quantity bought or sold
    Gains,          \* gains a quote may show
    Atrs,           \* 14-bar ATRs the generic ladder may be given
    Adverse,        \* underlying moves against the option, in 1/4 ATR
    ThesisQuarters, \* the strategy's thesis stop distance, in 1/4 ATR
    UnderlyingAtr,  \* the option's entry-time ATR of the underlying
    MaxBars,        \* bars from entry to the square-off
    RawMove,        \* bars left -> premium the market can still move
    MaxLoss,        \* the generic ladder's rupee backstop, in price units
    MaxFailures     \* bound: orders that fail, records that are lost

ASSUME ConstantsAssumption ==
    /\ Kinds \subseteq {"option", "long", "short"}
    /\ Entry \in Nat \ {0} /\ Rupee \in Nat \ {0} /\ Quantity \in Nat \ {0}
    /\ Gains \subseteq Int /\ 0 \in Gains
    /\ Atrs \subseteq Nat \ {0}
    /\ Adverse \subseteq Int
    /\ ThesisQuarters \in Nat /\ UnderlyingAtr \in Nat
    /\ MaxBars \in Nat /\ RawMove \in [0..MaxBars -> Nat]
    /\ MaxLoss \in Nat /\ MaxFailures \in Nat

(* A stop 1.5 ATR away from the entry is still a price. *)
ASSUME AtrAssumption == \A atr \in Atrs : 3 * atr < 2 * Entry

VARIABLES
    kind,       \* the kind of this position
    held,       \* quantity the venue holds
    rec,        \* the tracking record, or NoRecord
    bars,       \* bars left before the square-off
    context,    \* the entry knew the underlying's price and ATR
    failures,   \* orders failed and records lost so far
    best,       \* best gain evaluated on this record (history)
    shaken,     \* a record was lost or an exit order failed (history)
    last        \* the last evaluation: how it ended, and its gain (history)

vars == <<kind, held, rec, bars, context, failures, best, shaken, last>>

(* A missing stop_price reads as price zero. *)
NoStop == -Entry

NoRecord == [peak |-> 0, stop |-> NoStop, stage |-> 0, initial |-> 0, context |-> FALSE]

Larger(a, b) == IF a >= b THEN a ELSE b
Smaller(a, b) == IF a <= b THEN a ELSE b

------------------------------------------------------------------------------
(* What the option ladder computes from the entry *)

(* _OPTION_BACKSTOP_TIERS: a cheap option gets more room. *)
BackstopPct ==
    CASE Entry >= 500 * Rupee -> 12
      [] Entry >= 200 * Rupee /\ Entry < 500 * Rupee -> 20
      [] Entry >= 100 * Rupee /\ Entry < 200 * Rupee -> 28
      [] Entry < 100 * Rupee -> 40

BackstopLoss == (Entry * BackstopPct) \div 100

(* The thesis stop's underlying move through the at-the-money delta 0.45. *)
ThesisLoss == (ThesisQuarters * UnderlyingAtr * 45) \div 400

(* _risk_pct_for: whichever stop bites first. *)
RiskLoss == Smaller(BackstopLoss, ThesisLoss)

(* _adaptive_premium_target with b bars left, for an entry with context:   *)
(* the move still to be expected, at least 1.5 times the risk, at most 60% *)
(* of the premium unless the risk asks for more.                           *)
Target(b) ==
    LET floor == (3 * RiskLoss) \div 2
    IN  Smaller(Larger(RawMove[b], floor), Larger((60 * Entry) \div 100, floor))

(* TRAIL_LOCK arms at 5% and gives back 10% of the peak, never the entry. *)
Armed(peak) == 100 * peak >= 5 * Entry

(* Mutant: the floor of the trail alone, below entry for a small winner. *)
TrailAlone(peak) == (9 * (Entry + peak)) \div 10 - Entry

Protective(peak) == Larger((9 * (Entry + peak)) \div 10 - Entry, 0)

(* Mutant: the stored stop, armed or not. *)
StoredStop(r) == Larger(r.stop, -BackstopLoss)

(* _effective_premium_floor: the level shown to the commander. *)
ShownFloor(r) ==
    IF Armed(r.peak) THEN Larger(r.stop, -BackstopLoss) ELSE -BackstopLoss

------------------------------------------------------------------------------
(* Every entry path seeds the stop 5% below the entry PRICE, whichever     *)
(* side it trades: for a short that is a gain.                             *)
Seed == [peak |-> 0, stop |-> (IF kind = "short" THEN 1 ELSE -1) * ((5 * Entry) \div 100),
         stage |-> 0, initial |-> Quantity, context |-> context]

(* The record made up for an untracked position. *)
Bare(g) == [peak |-> Larger(0, g), stop |-> NoStop, stage |-> 0, initial |-> held,
            context |-> FALSE]

Init ==
    /\ kind \in Kinds
    /\ held = Quantity
    /\ context \in BOOLEAN
    /\ rec = Seed
    /\ bars = MaxBars
    /\ failures = 0
    /\ best = 0
    /\ shaken = FALSE
    /\ last = [exit |-> "none", gain |-> 0]

Fails ==
    /\ failures < MaxFailures
    /\ failures' = failures + 1
    /\ shaken' = TRUE

Note(reason, g) == last' = [exit |-> reason, gain |-> g]

(* No rung fired. *)
Keep(r, g) ==
    /\ Note("none", g)
    /\ rec' = r
    /\ best' = Larger(best, g)

(* A rung fired: the whole position is sold, or the order is refused and   *)
(* the record dropped, or it raises and the record is kept.                *)
Exit(r, reason, g) ==
    /\ Note(reason, g)
    /\ \/ /\ held' = 0
          /\ rec' = NoRecord
          /\ best' = 0
          /\ UNCHANGED <<failures, shaken>>
       \/ /\ Fails
          /\ \/ rec' = NoRecord /\ best' = 0
             \/ rec' = r /\ best' = Larger(best, g)
          /\ UNCHANGED held

(* Mutant: the peak is the latest price. *)
FreshLatest(g) ==
    LET r == IF rec = NoRecord THEN Bare(g) ELSE rec
    IN  [r EXCEPT !.peak = g]

(* The record an evaluation works on, with the new peak. *)
Fresh(g) ==
    LET r == IF rec = NoRecord THEN Bare(g) ELSE rec
    IN  [r EXCEPT !.peak = Larger(@, g)]

------------------------------------------------------------------------------
(* The rungs every position has: the commander's exit and the square-off *)

CommanderExit(g) == Exit(Fresh(g), "forced", g)

(* Mutant: options are left to their own ladder. *)
SquareOffGeneric(g) ==
    /\ kind # "option"
    /\ bars = 0
    /\ Exit(Fresh(g), "square-off", g)

SquareOff(g) ==
    /\ bars = 0
    /\ Exit(Fresh(g), "square-off", g)

(* The ladder of a bought option.  A missing quote of the underlying skips *)
(* the thesis stop, as a move of zero does.                                *)
OptionTick(g) ==
    /\ kind = "option"
    /\ bars > 0
    /\ \E a \in Adverse :
          LET fresh == Fresh(g)
              r == IF Armed(fresh.peak)
                   THEN [fresh EXCEPT !.stop = Larger(@, Protective(fresh.peak))]
                   ELSE fresh
              backstop == g <= -BackstopLoss
              thesis == fresh.context /\ a >= ThesisQuarters
              target == fresh.context /\ g >= Target(bars)
              trail == Armed(fresh.peak) /\ g <= r.stop
          IN  \/ backstop /\ Exit(fresh, "backstop", g)
              \/ ~backstop /\ thesis /\ Exit(fresh, "thesis", g)
              \/ ~backstop /\ ~thesis /\ target /\ Exit(fresh, "target", g)
              \/ ~backstop /\ ~thesis /\ ~target /\ trail /\ Exit(r, "trail", g)
              \/ /\ ~(backstop \/ thesis \/ target \/ trail)
                 /\ Keep(r, g)
                 /\ UNCHANGED <<held, failures, shaken>>

(* A third of the position, at least one unit; round() of n/3. *)
ScaleQuantity(initial) == Larger(1, (2 * initial + 3) \div 6)

(* The scale-out order sells its part or fails; its answer is ignored. *)
ScaleOut(initial) ==
    \/ held' = held - Smaller(held, ScaleQuantity(initial)) /\ UNCHANGED <<failures, shaken>>
    \/ Fails /\ UNCHANGED held

First(r, g, atr) == r.stage = 0 /\ 2 * g >= 3 * atr

Second(r, g, atr) == r.stage = 1 /\ g >= 3 * atr

(* Mutant: the first target does not move the stop. *)
AdvanceKeepsStop(r, g, atr) ==
    CASE First(r, g, atr) -> [r EXCEPT !.stage = 1]
      [] Second(r, g, atr) -> [r EXCEPT !.stage = 2, !.stop = (3 * atr) \div 2]
      [] r.stage = 2 -> [r EXCEPT !.stop = Larger(@, r.peak - (3 * atr) \div 2)]
      [] OTHER -> r

(* Mutant: the trailing stop follows the ATR down. *)
AdvanceLoosens(r, g, atr) ==
    CASE First(r, g, atr) -> [r EXCEPT !.stage = 1, !.stop = 0]
      [] Second(r, g, atr) -> [r EXCEPT !.stage = 2, !.stop = (3 * atr) \div 2]
      [] r.stage = 2 -> [r EXCEPT !.stop = r.peak - (3 * atr) \div 2]
      [] OTHER -> r

(* Stage and stop after a tick at gain g: break-even at the first target,  *)
(* the first target at the second one, then 1.5 ATR behind the peak.       *)
Advance(r, g, atr) ==
    CASE First(r, g, atr) -> [r EXCEPT !.stage = 1, !.stop = 0]
      [] Second(r, g, atr) -> [r EXCEPT !.stage = 2, !.stop = (3 * atr) \div 2]
      [] r.stage = 2 -> [r EXCEPT !.stop = Larger(@, r.peak - (3 * atr) \div 2)]
      [] OTHER -> r

(* The ladder of everything else: rupee backstop, two scale-outs, stop.    *)
(* The ATR is read anew at every tick.                                     *)
GenericTick(g) ==
    /\ kind # "option"
    /\ bars > 0
    /\ \E atr \in Atrs :
          LET fresh == Fresh(g)
              based == IF fresh.stop = NoStop THEN [fresh EXCEPT !.stop = -((3 * atr) \div 2)]
                       ELSE fresh
              r == Advance(based, g, atr)
          IN  \/ /\ g * held <= -MaxLoss
                 /\ Exit(fresh, "rupee backstop", g)
              \/ /\ g * held > -MaxLoss
                 /\ g <= r.stop
                 /\ Exit(r, IF based.stage = 0 THEN "assassin" ELSE "trail", g)
              \/ /\ g * held > -MaxLoss
                 /\ g > r.stop
                 /\ Keep(r, g)
                 /\ IF r.stage # based.stage THEN ScaleOut(r.initial)
                    ELSE UNCHANGED <<held, failures, shaken>>

(* One pass evaluates a live quote or, when there is none, the price the   *)
(* book was last marked at: some gain in either case.                      *)
Monitor ==
    /\ held > 0
    /\ \E g \in Gains : SquareOff(g) \/ OptionTick(g) \/ GenericTick(g)
    /\ UNCHANGED <<kind, bars, context>>

Commander ==
    /\ held > 0
    /\ \E g \in Gains : CommanderExit(g)
    /\ UNCHANGED <<kind, bars, context>>

(* The record is lost: see module PositionMonitor. *)
LoseRecord ==
    /\ held > 0
    /\ rec # NoRecord
    /\ Fails
    /\ rec' = NoRecord
    /\ best' = 0
    /\ UNCHANGED <<kind, held, bars, context, last>>

Clock ==
    /\ bars > 0
    /\ bars' = bars - 1
    /\ UNCHANGED <<kind, held, rec, context, failures, best, shaken, last>>

Next == Monitor \/ Commander \/ LoseRecord \/ Clock

(* The loop runs its monitor passes and time passes; the commander need    *)
(* not act.                                                                *)
Spec == Init /\ [][Next]_vars /\ WF_vars(Monitor) /\ WF_vars(Clock)

------------------------------------------------------------------------------
Reasons == {"none", "forced", "square-off", "backstop", "thesis", "target", "trail",
            "rupee backstop", "assassin"}

(* Every variable has its type. *)
TypeOK ==
    /\ kind \in Kinds
    /\ held \in 0..Quantity
    /\ rec \in [peak : Nat, stop : Int, stage : 0..2, initial : 0..Quantity, context : BOOLEAN]
    /\ bars \in 0..MaxBars
    /\ context \in BOOLEAN
    /\ failures \in 0..MaxFailures
    /\ best \in Nat
    /\ shaken \in BOOLEAN
    /\ last \in [exit : Reasons, gain : Gains]

Open == held > 0 /\ ~shaken

(* A stop never moves against the position while its record lives; only    *)
(* the stop an entry seeds on the winning side of a short is taken back.   *)
StopNeverLoosens ==
    [][rec # NoRecord /\ rec' # NoRecord /\ rec'.stop < rec.stop
          => kind = "short" /\ rec.stop = Seed.stop]_vars

(* In profit must not become a loss: an option that was ever 5% up is held *)
(* only above its entry and above 90% of its best premium, whatever quotes *)
(* were missing and however the peak and the falls were spread over ticks. *)
WinnerHeldAboveFloor ==
    kind = "option" /\ Open /\ Armed(best)
      => last.gain > 0 /\ 10 * (Entry + last.gain) > 9 * (Entry + best)

(* The level shown to the commander is the one that ends the position: a   *)
(* premium at or below it always exits, and no premium stop exits above it.*)
ShownFloorIsEnforced ==
    [][Monitor /\ kind = "option" /\ Open /\ ~shaken' =>
         /\ last'.gain <= ShownFloor(rec) => held' = 0
         /\ last'.exit \in {"backstop", "trail"} => last'.gain <= ShownFloor(rec)]_vars

(* A position whose first scale-out was reached is never held at its entry *)
(* price or below, even if the scale-out orders failed (an exit order that *)
(* failed shows in last).                                                  *)
BreakevenAfterTarget ==
    kind # "option" /\ held > 0 /\ rec.stage > 0 /\ last.exit = "none" => last.gain > 0

(* Every position is squared off by the end of its session. *)
SquaredOff == <>(held = 0)
=============================================================================
