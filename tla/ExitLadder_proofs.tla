--------------------------- MODULE ExitLadder_proofs ---------------------------
(***************************************************************************)
(* What the exit ladder guarantees for every entry, every series of quotes *)
(* and ATRs, and whatever orders fail or records are lost on the way.      *)
(***************************************************************************)
EXTENDS ExitLadder, TLAPS

USE ConstantsAssumption, AtrAssumption

Records == [peak : Nat, stop : Int, stage : 0..2, initial : 0..Quantity, context : BOOLEAN]

(* What every record the ladder leaves behind satisfies: a scaled-out      *)
(* position has its stop at the entry or better, and before that a stop is *)
(* at or below the entry, or the one a short was seeded with.              *)
RecordOK(r) ==
    /\ r \in Records
    /\ kind = "option" => r.stage = 0
    /\ kind # "option" /\ r.stage = 0 =>
          r.stop <= 0 \/ (kind = "short" /\ r.stop = Seed.stop)
    /\ r.stage = 1 => r.stop = 0
    /\ r.stage = 2 => r.stop >= 0

(* The option's stop: behind an armed peak the floor of the trail.         *)
Trailed(r) == IF Armed(r.peak) THEN r.stop >= Protective(r.peak) ELSE r.stop <= 0

(* As long as no record was lost and no exit failed, the record remembers  *)
(* the whole life of the position.                                         *)
Remembered ==
    Open => /\ rec.initial > 0
            /\ rec.peak = best
            /\ kind = "option" => /\ Trailed(rec)
                                  /\ Armed(best) => last.gain > rec.stop

(* The inductive invariant. *)
LadderInv ==
    /\ TypeOK
    /\ RecordOK(rec)
    /\ Remembered
    /\ BreakevenAfterTarget

(* The arithmetic of the trail: a premium above its floor is above 90% of  *)
(* the peak, and a new peak is always above the floor it sets.             *)
LEMMA TrailFloor ==
    ASSUME NEW p \in Nat, NEW g \in Int
    PROVE  /\ Protective(p) \in Int /\ Protective(p) >= 0
           /\ g > Protective(p) => g > 0 /\ 10 * (Entry + g) > 9 * (Entry + p)
           /\ p > 0 => Protective(p) < p
  <1> DEFINE q == (9 * (Entry + p)) \div 10
  <1>1. q \in Int /\ 10 * q <= 9 * (Entry + p) /\ 9 * (Entry + p) < 10 * q + 10
    OBVIOUS
  <1>2. Protective(p) = IF q - Entry >= 0 THEN q - Entry ELSE 0
    BY DEF Protective, Larger
  <1> HIDE DEF q
  <1> QED
    BY <1>1, <1>2

LEMMA SeedOK ==
    /\ (5 * Entry) \div 100 \in Nat
    /\ Seed.stop \in Int
    /\ kind # "short" => Seed.stop <= 0
    /\ Seed.peak = 0 /\ Seed.stage = 0 /\ Seed.initial = Quantity /\ Seed.context = context
    /\ NoStop < 0 /\ NoStop \in Int
    /\ Seed # NoRecord
  <1> DEFINE q == (5 * Entry) \div 100
  <1>1. q \in Nat
    OBVIOUS
  <1>2. Seed.stop = q \/ Seed.stop = -q
    BY <1>1 DEF Seed
  <1>3. kind # "short" => Seed.stop = -q
    BY <1>1 DEF Seed
  <1>4. Seed.initial = Quantity /\ NoRecord.initial = 0
    BY DEF Seed, NoRecord
  <1> QED
    BY <1>1, <1>2, <1>3, <1>4 DEF Seed, NoStop

LEMMA AtrStop ==
    ASSUME NEW atr \in Atrs
    PROVE  (3 * atr) \div 2 \in Nat /\ -((3 * atr) \div 2) > NoStop
  BY DEF NoStop

LEMMA Backstop == BackstopLoss \in Int
  <1>1. BackstopPct \in {12, 20, 28, 40}
    BY DEF BackstopPct
  <1> QED
    BY <1>1 DEF BackstopLoss

LEMMA NoRecordOK == RecordOK(NoRecord)
  <1>1. NoRecord \in Records
    BY DEF NoRecord, Records, NoStop
  <1>2. NoRecord.stage = 0 /\ NoRecord.stop <= 0
    BY DEF NoRecord, NoStop
  <1> QED
    BY <1>1, <1>2 DEF RecordOK

LEMMA InitOK == Init => LadderInv
  <1> SUFFICES ASSUME Init PROVE LadderInv
    OBVIOUS
  <1>1. Seed \in Records
    BY SeedOK DEF Init, Seed, Records
  <1>2. TypeOK
    <2>1. last \in [exit : Reasons, gain : Gains]
      BY DEF Init, Reasons
    <2>2. held \in 0..Quantity /\ bars \in 0..MaxBars /\ failures \in 0..MaxFailures
      BY DEF Init
    <2> QED
      BY <1>1, <2>1, <2>2 DEF Init, TypeOK, Records
  <1>3. RecordOK(rec)
    BY <1>1, SeedOK DEF Init, RecordOK
  <1>4. Remembered
    BY SeedOK DEF Init, Remembered, Trailed, Armed
  <1>5. BreakevenAfterTarget
    BY SeedOK DEF Init, BreakevenAfterTarget
  <1> QED
    BY <1>2, <1>3, <1>4, <1>5 DEF LadderInv

(* The record an evaluation starts from keeps stop, stage and context, or  *)
(* is the one made up for an untracked position.                           *)
LEMMA FreshOK ==
    ASSUME LadderInv, NEW g \in Gains
    PROVE  /\ RecordOK(Fresh(g))
           /\ rec # NoRecord => /\ Fresh(g).stop = rec.stop /\ Fresh(g).stage = rec.stage
                                /\ Fresh(g).initial = rec.initial
                                /\ Fresh(g).peak = Larger(rec.peak, g)
           /\ rec = NoRecord => Fresh(g).stop = NoStop /\ Fresh(g).stage = 0
  <1>1. Bare(g) \in Records
    BY DEF LadderInv, TypeOK, Bare, Records, NoStop, Larger
  <1>2. CASE rec = NoRecord
    <2>1. Fresh(g) = [Bare(g) EXCEPT !.peak = Larger(@, g)]
      BY <1>2 DEF Fresh
    <2>2. Fresh(g) \in Records /\ Fresh(g).stop = NoStop /\ Fresh(g).stage = 0
      BY <1>1, <2>1 DEF Bare, Records, Larger
    <2>3. Fresh(g).stop <= 0
      BY <2>2 DEF NoStop
    <2> QED
      BY <1>2, <2>2, <2>3 DEF RecordOK
  <1>3. CASE rec # NoRecord
    <2>1. Fresh(g) = [rec EXCEPT !.peak = Larger(@, g)]
      BY <1>3 DEF Fresh
    <2>2. rec \in Records /\ rec.peak \in Nat
      BY DEF LadderInv, RecordOK, Records
    <2>3. Larger(rec.peak, g) \in Nat
      BY <2>2 DEF Larger
    <2>4. /\ Fresh(g) \in Records /\ Fresh(g).stop = rec.stop /\ Fresh(g).stage = rec.stage
          /\ Fresh(g).initial = rec.initial /\ Fresh(g).peak = Larger(rec.peak, g)
      BY <2>1, <2>2, <2>3 DEF Records
    <2> QED
      BY <1>3, <2>4 DEF LadderInv, RecordOK
  <1> QED
    BY <1>2, <1>3

(* A rung that fires leaves the invariant, whatever becomes of the order.  *)
LEMMA ExitOK ==
    ASSUME LadderInv, held > 0, UNCHANGED <<kind, bars, context>>,
           NEW r, RecordOK(r), NEW reason \in Reasons, reason # "none",
           NEW g \in Gains, Exit(r, reason, g)
    PROVE  /\ LadderInv' /\ last'.gain = g /\ last'.exit = reason
           /\ held' = 0 \/ shaken'
           /\ rec' = NoRecord \/ rec' = r
  <1>1. rec' = NoRecord \/ rec' = r
    BY DEF Exit
  <1>2. RecordOK(rec')
    BY <1>1, NoRecordOK
  <1>3. RecordOK(rec)'
    BY <1>2 DEF RecordOK, Seed
  <1>4. last' = [exit |-> reason, gain |-> g]
    BY DEF Exit, Note
  <1>5. TypeOK'
    <2>1. rec' \in Records
      BY <1>2 DEF RecordOK
    <2>2. best' \in Nat
      BY DEF LadderInv, TypeOK, Exit, Larger
    <2>3. held' \in 0..Quantity
      BY DEF LadderInv, TypeOK, Exit
    <2>4. failures' \in 0..MaxFailures
      BY DEF LadderInv, TypeOK, Exit, Fails
    <2>5. shaken' \in BOOLEAN
      BY Zenon DEF LadderInv, TypeOK, Exit, Fails
    <2> QED
      BY <2>1, <2>2, <2>3, <2>4, <2>5, <1>4 DEF LadderInv, TypeOK, Records
  <1>6. held' = 0 \/ shaken'
    BY DEF Exit, Fails
  <1>7. Remembered'
    BY <1>6 DEF Remembered, Open
  <1>8. BreakevenAfterTarget'
    BY <1>4 DEF BreakevenAfterTarget
  <1> QED
    BY <1>1, <1>3, <1>4, <1>5, <1>6, <1>7, <1>8 DEF LadderInv

(* No rung fired and the record became r: what r and the gain must satisfy.*)
LEMMA KeepOK ==
    ASSUME LadderInv, held > 0, UNCHANGED <<kind, bars, context>>,
           NEW g \in Gains, NEW r, RecordOK(r), Keep(r, g),
           rec # NoRecord => r.initial = rec.initial /\ r.peak = Larger(rec.peak, g),
           kind = "option" /\ Open => Trailed(r) /\ (Armed(r.peak) => g > r.stop),
           kind # "option" /\ r.stage > 0 => g > 0,
           held' \in 0..Quantity, failures' \in 0..MaxFailures,
           shaken' \in BOOLEAN, shaken => shaken'
    PROVE  LadderInv'
  <1>1. rec' = r /\ best' = Larger(best, g) /\ last' = [exit |-> "none", gain |-> g]
    BY DEF Keep, Note
  <1>2. TypeOK'
    <2>1. rec' \in Records
      BY <1>1 DEF RecordOK
    <2>2. best' \in Nat
      BY <1>1 DEF LadderInv, TypeOK, Larger
    <2>3. last' \in [exit : Reasons, gain : Gains]
      BY <1>1 DEF Reasons
    <2> QED
      BY <2>1, <2>2, <2>3 DEF LadderInv, TypeOK, Records
  <1>3. RecordOK(rec)'
    BY <1>1 DEF RecordOK, Seed
  <1>4. Remembered'
    <2> SUFFICES ASSUME Open'
                 PROVE  /\ r.initial > 0 /\ r.peak = Larger(best, g)
                        /\ kind = "option" =>
                              Trailed(r) /\ (Armed(r.peak) => g > r.stop)
      BY <1>1 DEF Remembered, Trailed
    <2>1. Open
      BY DEF Open
    <2>2. rec.initial > 0 /\ rec.peak = best
      BY <2>1 DEF LadderInv, Remembered
    <2>3. rec # NoRecord
      BY <2>2 DEF NoRecord
    <2> QED
      BY <2>1, <2>2, <2>3
  <1>5. BreakevenAfterTarget'
    BY <1>1 DEF BreakevenAfterTarget
  <1> QED
    BY <1>2, <1>3, <1>4, <1>5 DEF LadderInv

(* The option ladder's stop: it follows an armed peak and never loosens.   *)
OptionRecord(g) ==
    IF Armed(Fresh(g).peak)
    THEN [Fresh(g) EXCEPT !.stop = Larger(@, Protective(Fresh(g).peak))]
    ELSE Fresh(g)

LEMMA OptionRecordOK ==
    ASSUME LadderInv, kind = "option", NEW g \in Gains
    PROVE  LET r == OptionRecord(g)
           IN  /\ RecordOK(r)
               /\ r.stop >= Fresh(g).stop /\ r.peak = Fresh(g).peak
               /\ r.initial = Fresh(g).initial
               /\ Open => Trailed(r)
  <1> DEFINE f == Fresh(g)
             r == OptionRecord(g)
  <1>1. f \in Records /\ f.stage = 0
    BY FreshOK DEF RecordOK
  <1>2. Protective(f.peak) \in Int /\ Protective(f.peak) >= 0
    BY <1>1, TrailFloor DEF Records
  <1>3. CASE Armed(f.peak)
    <2>1. r = [f EXCEPT !.stop = Larger(f.stop, Protective(f.peak))]
      BY <1>1, <1>3 DEF OptionRecord, Records
    <2>2. f.stop \in Int
      BY <1>1 DEF Records
    <2>3. /\ Larger(f.stop, Protective(f.peak)) \in Int
          /\ Larger(f.stop, Protective(f.peak)) >= f.stop
          /\ Larger(f.stop, Protective(f.peak)) >= Protective(f.peak)
      BY <1>2, <2>2 DEF Larger
    <2>4. /\ r \in Records /\ r.stage = 0 /\ r.peak = f.peak /\ r.initial = f.initial
          /\ r.stop = Larger(f.stop, Protective(f.peak))
      BY <1>1, <2>1, <2>3 DEF Records
    <2> QED
      BY <1>3, <2>3, <2>4 DEF RecordOK, Trailed
  <1>4. CASE ~Armed(f.peak)
    <2>1. r = f
      BY <1>4 DEF OptionRecord
    <2>2. Open => f.stop <= 0
      <3> SUFFICES ASSUME Open PROVE f.stop <= 0
        OBVIOUS
      <3>1. rec.initial > 0 /\ Trailed(rec)
        BY DEF LadderInv, Remembered
      <3>2. rec # NoRecord
        BY <3>1 DEF NoRecord
      <3>3. f.stop = rec.stop /\ f.peak = Larger(rec.peak, g)
        BY <3>2, FreshOK
      <3>4. rec.peak \in Nat /\ f.peak >= rec.peak
        BY <3>3 DEF LadderInv, RecordOK, Records, Larger
      <3>5. ~Armed(rec.peak)
        BY <1>1, <1>4, <3>4 DEF Armed, Records
      <3> QED
        BY <3>1, <3>3, <3>5 DEF Trailed
    <2>3. f.stop \in Int
      BY <1>1 DEF Records
    <2> QED
      BY <1>1, <1>4, <2>1, <2>2, <2>3, FreshOK DEF Trailed
  <1> QED
    BY <1>3, <1>4

(* What a step may do to the stop. *)
NoLoosening ==
    rec # NoRecord /\ rec' # NoRecord /\ rec'.stop < rec.stop
        => kind = "short" /\ rec.stop = Seed.stop

(* The premium levels the trail can be armed at or fired from, seen from   *)
(* the record before the step: both are the level shown for that record.   *)
LEMMA FloorBefore ==
    ASSUME LadderInv, Open, kind = "option", NEW g \in Gains
    PROVE  LET r == OptionRecord(g)
               trail == Armed(Fresh(g).peak) /\ g <= r.stop
           IN  /\ g <= ShownFloor(rec) => g <= -BackstopLoss \/ trail
               /\ g <= -BackstopLoss \/ trail => g <= ShownFloor(rec)
  <1> DEFINE f == Fresh(g)
             r == OptionRecord(g)
             floor == Larger(rec.stop, -BackstopLoss)
  <1>1. rec.initial > 0 /\ Trailed(rec) /\ rec.peak \in Nat /\ rec.stop \in Int
    BY DEF LadderInv, Remembered, RecordOK, Records
  <1>2. rec # NoRecord
    BY <1>1 DEF NoRecord
  <1>3. f.stop = rec.stop /\ f.peak = Larger(rec.peak, g) /\ f \in Records
    BY <1>2, FreshOK DEF RecordOK
  <1>4. BackstopLoss \in Int
    BY Backstop
  <1>5. CASE Armed(rec.peak)
    <2>1. f.peak \in Nat /\ f.peak >= rec.peak /\ Armed(f.peak)
      BY <1>1, <1>3, <1>5 DEF Larger, Armed
    <2>2. ShownFloor(rec) = floor /\ floor \in Int
          /\ (g <= floor <=> g <= rec.stop \/ g <= -BackstopLoss)
      BY <1>1, <1>4, <1>5 DEF ShownFloor, Larger
    <2>3. r = [f EXCEPT !.stop = Larger(@, Protective(f.peak))]
      BY <2>1 DEF OptionRecord
    <2>4. r.stop = Larger(rec.stop, Protective(f.peak))
      BY <1>3, <2>3 DEF Records
    <2>5. Protective(f.peak) \in Int /\ (f.peak > 0 => Protective(f.peak) < f.peak)
      BY <2>1, TrailFloor
    <2>6. f.peak > 0
      BY <2>1 DEF Armed
    <2>7. g <= r.stop <=> g <= rec.stop
      <3>1. CASE f.peak = rec.peak
        BY <1>1, <1>5, <2>4, <2>5, <3>1 DEF Trailed, Larger
      <3>2. CASE f.peak = g
        BY <1>1, <2>4, <2>5, <2>6, <3>2 DEF Larger
      <3> QED
        BY <1>3, <3>1, <3>2 DEF Larger
    <2> QED
      BY <2>1, <2>2, <2>7
  <1>6. CASE ~Armed(rec.peak)
    <2>1. ShownFloor(rec) = -BackstopLoss
      BY <1>6 DEF ShownFloor
    <2>2. Armed(f.peak) => g > r.stop
      <3> SUFFICES ASSUME Armed(f.peak) PROVE g > r.stop
        OBVIOUS
      <3>1. f.peak = g /\ g > 0
        BY <1>1, <1>3, <1>6 DEF Larger, Armed
      <3>2. r = [f EXCEPT !.stop = Larger(@, Protective(g))]
        BY <3>1 DEF OptionRecord
      <3>3. r.stop = Larger(rec.stop, Protective(g))
        BY <1>3, <3>2 DEF Records
      <3>4. g \in Nat /\ Protective(g) < g /\ rec.stop <= 0
        BY <1>1, <1>6, <3>1, TrailFloor DEF Trailed
      <3> QED
        BY <1>1, <3>1, <3>3, <3>4 DEF Larger
    <2>3. r.stop \in Int
      BY OptionRecordOK DEF RecordOK, Records
    <2> QED
      BY <1>4, <2>1, <2>2, <2>3
  <1> QED
    BY <1>5, <1>6

LEMMA OptionTickOK ==
    ASSUME LadderInv, held > 0, UNCHANGED <<kind, bars, context>>,
           NEW g \in Gains, OptionTick(g)
    PROVE  /\ LadderInv' /\ NoLoosening /\ last'.gain = g
           /\ Open /\ ~shaken' =>
                 /\ g <= ShownFloor(rec) => held' = 0
                 /\ last'.exit \in {"backstop", "trail"} => g <= ShownFloor(rec)
  <1> DEFINE f == Fresh(g)
             r == OptionRecord(g)
             trail == Armed(f.peak) /\ g <= r.stop
  <1>1. kind = "option"
    BY DEF OptionTick
  <1>2. /\ RecordOK(f) /\ RecordOK(r) /\ r.stop >= f.stop
        /\ r.peak = f.peak /\ r.initial = f.initial
        /\ rec # NoRecord => /\ f.stop = rec.stop /\ f.initial = rec.initial
                             /\ f.peak = Larger(rec.peak, g)
        /\ Open => Trailed(r)
    BY <1>1, FreshOK, OptionRecordOK
  <1>3. f.stop \in Int /\ r.stop \in Int /\ rec.stop \in Int
    BY <1>2 DEF LadderInv, RecordOK, Records
  <1>4. \/ \E reason \in {"backstop", "thesis", "target"} :
              /\ Exit(f, reason, g)
              /\ reason = "backstop" => g <= -BackstopLoss
        \/ trail /\ Exit(r, "trail", g)
        \/ /\ ~(g <= -BackstopLoss) /\ ~trail
           /\ Keep(r, g) /\ UNCHANGED <<held, failures, shaken>>
    BY DEF OptionTick, OptionRecord
  <1>5. ASSUME NEW reason \in {"backstop", "thesis", "target"}, Exit(f, reason, g),
               reason = "backstop" => g <= -BackstopLoss
        PROVE  /\ LadderInv' /\ NoLoosening /\ last'.gain = g
               /\ Open /\ ~shaken' =>
                     /\ g <= ShownFloor(rec) => held' = 0
                     /\ last'.exit \in {"backstop", "trail"} => g <= ShownFloor(rec)
    <2>1. reason \in Reasons /\ reason # "none" /\ reason # "trail"
      BY DEF Reasons
    <2>2. /\ LadderInv' /\ last'.gain = g /\ last'.exit = reason
          /\ held' = 0 \/ shaken'
          /\ rec' = NoRecord \/ rec' = f
      BY <1>2, <1>5, <2>1, ExitOK
    <2>3. NoLoosening
      BY <1>2, <1>3, <1>5, <2>1, ExitOK DEF NoLoosening
    <2> QED
      BY <1>1, <1>5, <2>1, <2>2, <2>3, ExitOK, FloorBefore, <1>2
  <1>6. CASE trail /\ Exit(r, "trail", g)
    <2>1. /\ LadderInv' /\ last'.gain = g
          /\ held' = 0 \/ shaken'
          /\ rec' = NoRecord \/ rec' = r
      BY <1>2, <1>6, ExitOK DEF Reasons
    <2>2. NoLoosening
      BY <1>2, <1>3, <2>1 DEF NoLoosening
    <2> QED
      BY <1>1, <1>6, <2>1, <2>2, FloorBefore
  <1>7. CASE /\ ~(g <= -BackstopLoss) /\ ~trail
             /\ Keep(r, g) /\ UNCHANGED <<held, failures, shaken>>
    <2>1. rec' = r /\ last' = [exit |-> "none", gain |-> g]
      BY <1>7 DEF Keep, Note
    <2>2. held' \in 0..Quantity /\ failures' \in 0..MaxFailures
      BY <1>7 DEF LadderInv, TypeOK
    <2>3. shaken' \in BOOLEAN /\ (shaken => shaken')
      BY <1>7, Zenon DEF LadderInv, TypeOK
    <2>4. Armed(r.peak) => g > r.stop
      <3>1. r.peak = f.peak /\ g \in Int
        BY <1>2
      <3>2. ~(Armed(f.peak) /\ g <= r.stop)
        BY <1>7
      <3> QED
        BY <1>3, <3>1, <3>2
    <2>5. LadderInv'
      BY <1>1, <1>2, <1>7, <2>2, <2>3, <2>4, KeepOK
    <2>6. NoLoosening
      BY <1>2, <1>3, <2>1 DEF NoLoosening
    <2>7. Open => ~(g <= ShownFloor(rec))
      BY <1>1, <1>7, FloorBefore
    <2> QED
      BY <2>1, <2>5, <2>6, <2>7
  <1> QED
    BY <1>4, <1>5, <1>6, <1>7

(* The generic ladder: the stop it computes when there is none, ...        *)
Based(g, atr) ==
    IF Fresh(g).stop = NoStop THEN [Fresh(g) EXCEPT !.stop = -((3 * atr) \div 2)]
    ELSE Fresh(g)

LEMMA BasedOK ==
    ASSUME LadderInv, kind # "option", NEW g \in Gains, NEW atr \in Atrs
    PROVE  LET b == Based(g, atr)
           IN  /\ RecordOK(b)
               /\ b.stop >= Fresh(g).stop
               /\ b.stage = Fresh(g).stage /\ b.peak = Fresh(g).peak
               /\ b.initial = Fresh(g).initial
  <1> DEFINE f == Fresh(g)
             b == Based(g, atr)
  <1>1. RecordOK(f) /\ f \in Records
    BY FreshOK DEF RecordOK
  <1>2. CASE f.stop = NoStop
    <2> DEFINE s == -((3 * atr) \div 2)
    <2>1. s \in Int /\ s > NoStop /\ s <= 0
      BY AtrStop
    <2> HIDE DEF s
    <2>2. b = [f EXCEPT !.stop = s]
      BY <1>2 DEF Based, s
    <2>3. /\ b \in Records /\ b.stop = s /\ b.stage = f.stage
          /\ b.peak = f.peak /\ b.initial = f.initial
      BY <1>1, <2>1, <2>2 DEF Records
    <2>4. f.stage = 0
      BY <1>1, <1>2 DEF RecordOK, Records, NoStop
    <2> QED
      BY <1>2, <2>1, <2>3, <2>4, SeedOK DEF RecordOK
  <1>3. CASE f.stop # NoStop
    <2>1. b = f
      BY <1>3 DEF Based
    <2> QED
      BY <1>1, <2>1 DEF Records
  <1> QED
    BY <1>2, <1>3

Restage(b, st, sp) == [b EXCEPT !.stage = st, !.stop = sp]

LEMMA Restaged ==
    ASSUME NEW b \in Records, NEW st \in 0..2, NEW sp \in Int
    PROVE  Restage(b, st, sp) \in Records
  <1> DEFINE c == [b EXCEPT !.stage = st]
  <1>1. c \in Records
    BY DEF Records
  <1>2. [c EXCEPT !.stop = sp] \in Records
    BY <1>1 DEF Records
  <1>3. [b EXCEPT !.stage = st, !.stop = sp] \in Records
    BY <1>2, Zenon
  <1> QED
    BY <1>3 DEF Records, Restage

(* ... and where the scale-outs move it.                                   *)
LEMMA AdvanceOK ==
    ASSUME NEW b, RecordOK(b), kind # "option", NEW g \in Gains, NEW atr \in Atrs
    PROVE  LET r == Advance(b, g, atr)
           IN  /\ RecordOK(r)
               /\ r.peak = b.peak /\ r.initial = b.initial
               /\ r.stop < b.stop => /\ kind = "short" /\ b.stop = Seed.stop
                                     /\ r.stop = 0
  <1> DEFINE r == Advance(b, g, atr)
  <1>1. PICK s \in Int : s >= 0 /\ s = (3 * atr) \div 2
    BY AtrStop
  <1>2. b \in Records /\ g \in Int
    BY DEF RecordOK
  <1>3. CASE First(b, g, atr)
    <2>1. r = Restage(b, 1, 0) /\ b.stage = 0
      BY <1>3 DEF Advance, First, Second, Restage
    <2>2. r \in Records /\ r.stage = 1 /\ r.stop = 0 /\ r.peak = b.peak /\ r.initial = b.initial
      <3>1. r \in Records
        BY <1>2, <2>1, Restaged
      <3> QED
        BY <1>2, <2>1, <3>1 DEF Records, Restage
    <2> QED
      BY <1>2, <2>1, <2>2 DEF RecordOK, Records
  <1>4. CASE Second(b, g, atr)
    <2>1. r = Restage(b, 2, s) /\ b.stage = 1 /\ b.stop = 0
      BY <1>1, <1>4 DEF Advance, First, Second, RecordOK, Restage
    <2>2. r \in Records /\ r.stage = 2 /\ r.stop = s /\ r.peak = b.peak /\ r.initial = b.initial
      <3>1. r \in Records
        BY <1>2, <2>1, Restaged
      <3> QED
        BY <1>2, <2>1, <3>1 DEF Records, Restage
    <2> QED
      BY <1>1, <1>2, <2>1, <2>2 DEF RecordOK
  <1>5. CASE b.stage = 2
    <2>1. r = [b EXCEPT !.stop = Larger(@, b.peak - s)]
      BY <1>1, <1>5 DEF Advance, First, Second
    <2> DEFINE t == Larger(b.stop, b.peak - s)
    <2>3. t \in Int /\ t >= b.stop /\ b.stop >= 0
      BY <1>1, <1>2, <1>5 DEF Records, Larger, RecordOK
    <2> HIDE DEF t
    <2>4. r = [b EXCEPT !.stop = t]
      BY <1>2, <2>1 DEF t, Records
    <2>2. /\ r \in Records /\ r.stage = 2 /\ r.stop >= b.stop
          /\ r.peak = b.peak /\ r.initial = b.initial
      BY <1>2, <1>5, <2>3, <2>4 DEF Records
    <2>5. b.stop \in Int /\ r.stop \in Int
      BY <1>2, <2>2 DEF Records
    <2> QED
      BY <2>2, <2>3, <2>5 DEF RecordOK
  <1>6. CASE ~First(b, g, atr) /\ ~Second(b, g, atr) /\ b.stage # 2
    <2>1. r = b
      BY <1>6 DEF Advance
    <2> QED
      BY <1>2, <2>1 DEF Records
  <1> QED
    BY <1>3, <1>4, <1>5, <1>6

LEMMA ScaleOutOK ==
    ASSUME LadderInv, held > 0, NEW n \in 0..Quantity, ScaleOut(n)
    PROVE  /\ held' \in 0..Quantity /\ failures' \in 0..MaxFailures
           /\ shaken' \in BOOLEAN /\ (shaken => shaken')
  <1> DEFINE q == Smaller(held, ScaleQuantity(n))
  <1>1. q \in Int /\ 0 <= q /\ q <= held
    <2>1. ScaleQuantity(n) \in Int /\ ScaleQuantity(n) >= 1
      BY DEF ScaleQuantity, Larger
    <2> QED
      BY <2>1 DEF LadderInv, TypeOK, Smaller
  <1> HIDE DEF q
  <1>2. \/ held' = held - q /\ failures' = failures /\ shaken' = shaken
        \/ held' = held /\ failures < MaxFailures /\ failures' = failures + 1 /\ shaken' = TRUE
    BY DEF ScaleOut, Fails, q
  <1>3. shaken' \in BOOLEAN /\ (shaken => shaken')
    BY <1>2, Zenon DEF LadderInv, TypeOK
  <1> QED
    BY <1>1, <1>2, <1>3 DEF LadderInv, TypeOK

LEMMA GenericTickOK ==
    ASSUME LadderInv, held > 0, UNCHANGED <<kind, bars, context>>,
           NEW g \in Gains, GenericTick(g)
    PROVE  LadderInv' /\ NoLoosening /\ last'.gain = g
  <1>1. kind # "option"
    BY DEF GenericTick
  <1>2. PICK atr \in Atrs :
          LET f == Fresh(g)
              b == Based(g, atr)
              r == Advance(b, g, atr)
          IN  \/ Exit(f, "rupee backstop", g)
              \/ Exit(r, IF b.stage = 0 THEN "assassin" ELSE "trail", g)
              \/ /\ g > r.stop
                 /\ Keep(r, g)
                 /\ ScaleOut(r.initial) \/ UNCHANGED <<held, failures, shaken>>
    BY DEF GenericTick, Based
  <1> DEFINE f == Fresh(g)
             b == Based(g, atr)
             r == Advance(b, g, atr)
  <1>3. /\ RecordOK(f) /\ RecordOK(b) /\ RecordOK(r)
        /\ r.peak = f.peak /\ r.initial = f.initial
        /\ rec # NoRecord => /\ f.stop = rec.stop /\ f.initial = rec.initial
                             /\ f.peak = Larger(rec.peak, g)
    BY <1>1, FreshOK, BasedOK, AdvanceOK
  <1>4. /\ f.stop \in Int /\ b.stop \in Int /\ r.stop \in Int /\ rec.stop \in Int
        /\ g \in Int /\ r.stage \in 0..2 /\ r.initial \in 0..Quantity
    BY <1>3 DEF LadderInv, RecordOK, Records
  <1>5. rec # NoRecord /\ r.stop < rec.stop => kind = "short" /\ rec.stop = Seed.stop
    <2> SUFFICES ASSUME rec # NoRecord, r.stop < rec.stop
                 PROVE  kind = "short" /\ rec.stop = Seed.stop
      OBVIOUS
    <2>1. b.stop >= f.stop /\ f.stop = rec.stop
      BY <1>1, <1>3, BasedOK
    <2>2. r.stop < b.stop
      BY <1>4, <2>1
    <2>3. kind = "short" /\ b.stop = Seed.stop /\ r.stop = 0
      BY <1>1, <1>3, <2>2, AdvanceOK
    <2>4. f.stop # NoStop
      BY <2>1, <2>3, SeedOK
    <2> QED
      BY <2>1, <2>3, <2>4 DEF Based
  <1>6. CASE Exit(f, "rupee backstop", g)
    <2>1. LadderInv' /\ last'.gain = g /\ (rec' = NoRecord \/ rec' = f)
      BY <1>3, <1>6, ExitOK DEF Reasons
    <2> QED
      BY <1>3, <1>4, <2>1 DEF NoLoosening
  <1>7. CASE Exit(r, IF b.stage = 0 THEN "assassin" ELSE "trail", g)
    <2>1. (IF b.stage = 0 THEN "assassin" ELSE "trail") \in Reasons \ {"none"}
      BY DEF Reasons
    <2>2. LadderInv' /\ last'.gain = g /\ (rec' = NoRecord \/ rec' = r)
      BY <1>3, <1>7, <2>1, ExitOK
    <2> QED
      BY <1>5, <2>2 DEF NoLoosening
  <1>8. CASE /\ g > r.stop
             /\ Keep(r, g)
             /\ ScaleOut(r.initial) \/ UNCHANGED <<held, failures, shaken>>
    <2>1. rec' = r /\ last' = [exit |-> "none", gain |-> g]
      BY <1>8 DEF Keep, Note
    <2>2. /\ held' \in 0..Quantity /\ failures' \in 0..MaxFailures
          /\ shaken' \in BOOLEAN /\ (shaken => shaken')
      <3>1. CASE ScaleOut(r.initial)
        BY <1>4, <3>1, ScaleOutOK
      <3>2. CASE UNCHANGED <<held, failures, shaken>>
        <4>1. shaken' \in BOOLEAN /\ (shaken => shaken')
          BY <3>2, Zenon DEF LadderInv, TypeOK
        <4> QED
          BY <3>2, <4>1 DEF LadderInv, TypeOK
      <3> QED
        BY <1>8, <3>1, <3>2
    <2>3. r.stage > 0 => g > 0
      BY <1>3, <1>4, <1>8 DEF RecordOK
    <2>4. LadderInv'
      BY <1>1, <1>3, <1>8, <2>2, <2>3, KeepOK
    <2> QED
      BY <1>5, <2>1, <2>4 DEF NoLoosening
  <1> QED
    BY <1>2, <1>6, <1>7, <1>8

(* The commander's exit and the square-off end a position of any kind.     *)
LEMMA PlainExitOK ==
    ASSUME LadderInv, held > 0, UNCHANGED <<kind, bars, context>>,
           NEW g \in Gains, NEW reason \in {"forced", "square-off"},
           Exit(Fresh(g), reason, g)
    PROVE  /\ LadderInv' /\ NoLoosening /\ last'.gain = g /\ last'.exit = reason
           /\ held' = 0 \/ shaken'
  <1>1. reason \in Reasons /\ reason # "none"
    BY DEF Reasons
  <1>2. RecordOK(Fresh(g)) /\ (rec # NoRecord => Fresh(g).stop = rec.stop)
    BY FreshOK
  <1>3. /\ LadderInv' /\ last'.gain = g /\ last'.exit = reason
        /\ held' = 0 \/ shaken'
        /\ rec' = NoRecord \/ rec' = Fresh(g)
    BY <1>1, <1>2, ExitOK
  <1>4. rec.stop \in Int
    BY DEF LadderInv, RecordOK, Records
  <1> QED
    BY <1>2, <1>3, <1>4, ExitOK, <1>1 DEF NoLoosening

LEMMA LoseRecordOK == LadderInv /\ LoseRecord => LadderInv' /\ NoLoosening
  <1> SUFFICES ASSUME LadderInv, LoseRecord PROVE LadderInv' /\ NoLoosening
    OBVIOUS
  <1>1. /\ rec' = NoRecord /\ best' = 0 /\ shaken' = TRUE
        /\ failures' = failures + 1 /\ failures < MaxFailures
        /\ UNCHANGED <<kind, held, bars, context, last>>
    BY DEF LoseRecord, Fails
  <1>2. RecordOK(rec)'
    BY <1>1, NoRecordOK DEF RecordOK, Seed
  <1>3. TypeOK'
    BY <1>1, NoRecordOK DEF LadderInv, TypeOK, RecordOK, Records
  <1>4. Remembered' /\ BreakevenAfterTarget' /\ NoLoosening
    BY <1>1 DEF Remembered, Open, BreakevenAfterTarget, NoLoosening, NoRecord
  <1> QED
    BY <1>2, <1>3, <1>4 DEF LadderInv

LEMMA SameRecordOK ==
    ASSUME LadderInv, bars' \in 0..MaxBars,
           UNCHANGED <<kind, held, rec, context, failures, best, shaken, last>>
    PROVE  LadderInv' /\ NoLoosening
  <1>1. TypeOK'
    BY DEF LadderInv, TypeOK
  <1>2. RecordOK(rec)' /\ Remembered' /\ BreakevenAfterTarget'
    BY DEF LadderInv, RecordOK, Seed, Remembered, Open, Trailed, BreakevenAfterTarget
  <1>3. rec.stop \in Int
    BY DEF LadderInv, RecordOK, Records
  <1> QED
    BY <1>1, <1>2, <1>3 DEF LadderInv, NoLoosening

LEMMA StepOK == LadderInv /\ [Next]_vars => LadderInv' /\ NoLoosening
  <1> SUFFICES ASSUME LadderInv, [Next]_vars PROVE LadderInv' /\ NoLoosening
    OBVIOUS
  <1>1. CASE Monitor
    <2>1. PICK g \in Gains : SquareOff(g) \/ OptionTick(g) \/ GenericTick(g)
      BY <1>1 DEF Monitor
    <2>2. held > 0 /\ UNCHANGED <<kind, bars, context>>
      BY <1>1 DEF Monitor
    <2>3. CASE SquareOff(g)
      BY <2>2, <2>3, PlainExitOK DEF SquareOff
    <2>4. CASE OptionTick(g)
      BY <2>2, <2>4, OptionTickOK
    <2>5. CASE GenericTick(g)
      BY <2>2, <2>5, GenericTickOK
    <2> QED
      BY <2>1, <2>3, <2>4, <2>5
  <1>2. CASE Commander
    BY <1>2, PlainExitOK DEF Commander, CommanderExit
  <1>3. CASE LoseRecord
    BY <1>3, LoseRecordOK
  <1>4. CASE Clock
    <2>1. bars' \in 0..MaxBars
      BY <1>4 DEF Clock, LadderInv, TypeOK
    <2> QED
      BY <1>4, <2>1, SameRecordOK DEF Clock
  <1>5. CASE UNCHANGED vars
    <2>1. bars' \in 0..MaxBars
      BY <1>5 DEF vars, LadderInv, TypeOK
    <2> QED
      BY <1>5, <2>1, SameRecordOK DEF vars
  <1> QED
    BY <1>1, <1>2, <1>3, <1>4, <1>5 DEF Next

------------------------------------------------------------------------------

(* Every variable of the ladder keeps its type.                            *)
THEOREM TypeCorrect == Spec => []TypeOK
<1>1. LadderInv => TypeOK
  BY DEF LadderInv
<1> QED
  BY InitOK, StepOK, <1>1, PTL DEF Spec

(* A scaled-out position is never held at its entry price or below.        *)
THEOREM BreakevenHolds == Spec => []BreakevenAfterTarget
<1>1. LadderInv => BreakevenAfterTarget
  BY DEF LadderInv
<1> QED
  BY InitOK, StepOK, <1>1, PTL DEF Spec

(* An option that was ever 5% up, and whose record was never lost, is held *)
(* only above its entry and above 90% of its best premium.                 *)
THEOREM WinnerHolds == Spec => []WinnerHeldAboveFloor
<1>1. LadderInv => WinnerHeldAboveFloor
  <2> SUFFICES ASSUME LadderInv, kind = "option", Open, Armed(best)
               PROVE  last.gain > 0 /\ 10 * (Entry + last.gain) > 9 * (Entry + best)
    BY DEF WinnerHeldAboveFloor
  <2>1. rec.peak = best /\ Trailed(rec) /\ last.gain > rec.stop
    BY DEF LadderInv, Remembered
  <2>2. rec.stop >= Protective(best)
    BY <2>1 DEF Trailed
  <2>3. best \in Nat /\ last.gain \in Int /\ rec.stop \in Int
    BY DEF LadderInv, TypeOK, RecordOK, Records
  <2>4. Protective(best) \in Int
    BY <2>3, TrailFloor
  <2>5. last.gain > Protective(best)
    BY <2>1, <2>2, <2>3, <2>4
  <2> QED
    BY <2>3, <2>5, TrailFloor
<1> QED
  BY InitOK, StepOK, <1>1, PTL DEF Spec

(* No tick, of any kind of position, moves a stop against it.              *)
THEOREM StopHolds == Spec => StopNeverLoosens
<1>1. LadderInv /\ [Next]_vars
        => [rec # NoRecord /\ rec' # NoRecord /\ rec'.stop < rec.stop
              => kind = "short" /\ rec.stop = Seed.stop]_vars
  BY StepOK DEF NoLoosening
<1>2. LadderInv /\ [Next]_vars => LadderInv'
  BY StepOK
<1> QED
  BY InitOK, <1>1, <1>2, PTL DEF Spec, StopNeverLoosens

(* The level shown to the commander ends the position, and nothing above   *)
(* it does so as a premium stop.                                           *)
THEOREM FloorHolds == Spec => ShownFloorIsEnforced
<1> DEFINE Enforced ==
      Monitor /\ kind = "option" /\ Open /\ ~shaken' =>
         /\ last'.gain <= ShownFloor(rec) => held' = 0
         /\ last'.exit \in {"backstop", "trail"} => last'.gain <= ShownFloor(rec)
<1>1. LadderInv => Enforced
  <2> SUFFICES ASSUME LadderInv, Monitor, kind = "option", Open, ~shaken'
               PROVE  /\ last'.gain <= ShownFloor(rec) => held' = 0
                      /\ last'.exit \in {"backstop", "trail"}
                            => last'.gain <= ShownFloor(rec)
    OBVIOUS
  <2>1. PICK g \in Gains : SquareOff(g) \/ OptionTick(g) \/ GenericTick(g)
    BY DEF Monitor
  <2>2. held > 0 /\ UNCHANGED <<kind, bars, context>>
    BY DEF Monitor
  <2>3. CASE SquareOff(g)
    BY <2>2, <2>3, PlainExitOK DEF SquareOff
  <2>4. CASE OptionTick(g)
    BY <2>2, <2>4, OptionTickOK
  <2>5. CASE GenericTick(g)
    BY <2>5 DEF GenericTick
  <2> QED
    BY <2>1, <2>3, <2>4, <2>5
<1>2. LadderInv /\ [Next]_vars => [Enforced]_vars
  BY <1>1
<1>3. LadderInv /\ [Next]_vars => LadderInv'
  BY StepOK
<1> QED
  BY InitOK, <1>2, <1>3, PTL DEF Spec, ShownFloorIsEnforced
================================================================================
