----------------------- MODULE PositionMonitor_proofs -----------------------
(***************************************************************************)
(* Theorems about PositionMonitor: its types and the safety invariants its *)
(* runs check, for any number of commander threads, contracts, trades and  *)
(* faults.                                                                 *)
(*                                                                         *)
(* Two threads rebuild one tracking dictionary from what each read of the  *)
(* book, and save whole accounts over each other, so none of the           *)
(* invariants is inductive alone.  Beneath them: what each step of each    *)
(* thread is looking at (Shape); which trades a stored account may open or *)
(* close besides the one its order is for (StoreKeeps); where the record   *)
(* of an undisturbed open position is while a pass carries it from the old *)
(* dictionary to the new one (PassKeeps); and what an entry knows of its   *)
(* underlying between its check and its record (EntriesKept).              *)
(***************************************************************************)
EXTENDS PositionMonitor, WellFoundedInduction, TLAPS

Opened == {n \in Trades : contract[n] # "none"}

(* Open, with its record written, and touched by no fault and no race. *)
Settled == open \ (shaken \cup torn \cup InFlight)

Underlying(n) == UnderlyingOf[contract[n]]

Exiting == {"exit", "fill", "settle"}
Entering == {"place", "settleEntry", "track"}

(* The trade whose exit thread t is placing or booking. *)
Aim(t) == IF pc[t] \in Exiting \cup {"book"} THEN {exiting[t].trade} ELSE {}

PassShape(t) ==
    /\ todo[t] \cup asked[t] \cup Aim(t) \subseteq Opened
    /\ pc[t] # "read" => unread[t] = {}
    /\ ~InPass(t) => todo[t] = {}
    /\ pc[t] \in Exiting \cup {"book"} => exiting[t].rec # "none"

(* A loaded account holds trades of that account. *)
CopyShape(t) ==
    /\ copy[t].lots \subseteq {n \in Opened : AccountOf[contract[n]] = copy[t].account}
    /\ pc[t] = "settle" => copy[t].account = AccountOf[contract[exiting[t].trade]]
    /\ pc[t] = "settleEntry" => copy[t].account = AccountOf[entering[t].contract]

EntryShape(t) ==
    /\ pc[t] \in Entering =>
          /\ entering[t].contract \in Contracts
          /\ UnderlyingOf[entering[t].contract] \notin targets[t]
    /\ t \in scanning => pc[t] \in Entering \cup {"enter", "saveEntry"}
    /\ t \notin scanning => targets[t] = {}
    /\ entering[t].trade # 0 =>
          /\ pc[t] = "track"
          /\ contract[entering[t].trade] = entering[t].contract

Shape ==
    /\ \A t \in Threads : PassShape(t) /\ CopyShape(t) /\ EntryShape(t)
    /\ \A m, n \in Trades : m < n /\ n \in Opened => m \in Opened
    /\ claimed \subseteq Opened
    /\ short \subseteq torn

(* Two lots of one contract share a record: neither is undisturbed. *)
SharedIn(S) ==
    \A m, n \in S : contract[m] = contract[n] => m = n \/ m \in shaken \cup torn

SharedShaken == SharedIn(open) /\ \A t \in Threads : SharedIn(copy[t].lots)

(* The file is as good as the dictionary, unless a save is under way. *)
SavedKeeps ==
    (\A t \in Threads : pc[t] # "saveEntry")
      => \A n \in Settled : saved[contract[n]] = "full"

(* A pass has still to read an undisturbed position's account, or to       *)
(* evaluate it, or is placing its exit, or has put its record into the     *)
(* dictionary it builds; it looks at no other trade of that contract.      *)
PassKeeps(t) ==
    \A n \in Settled :
        /\ \/ ~InPass(t)
           \/ AccountOf[contract[n]] \in unread[t]
           \/ n \in todo[t]
           \/ pc[t] \in Exiting /\ n = exiting[t].trade
           \/ rebuilt[t][contract[n]] = "full"
        /\ \A m \in todo[t] \cup Aim(t) : contract[m] = contract[n] => m = n

(* An entry whose fill a pass saw before the record is disturbed, and so is *)
(* a position it exits without a full record.                              *)
BareShaken(t) ==
    /\ todo[t] \cap open \cap InFlight \subseteq shaken \cup torn
    /\ \A n \in Aim(t) :
          exiting[t].rec = "bare" /\ (pc[t] \in Exiting => n \in open)
            => n \in shaken \cup torn

RecordsKept ==
    /\ SharedShaken
    /\ OpenKeepsRecord
    /\ SavedKeeps
    /\ \A t \in Threads : PassKeeps(t) /\ BareShaken(t)

(* A trade whose fill is being booked is closed and not credited before,   *)
(* and is booked by one thread, if exits and book agree on it.             *)
CreditDue ==
    \A t \in Threads :
        pc[t] = "book" /\ exiting[t].trade \notin torn
          => exiting[t].trade \notin open /\ credited[exiting[t].trade] = 0

BooksAlone ==
    \A s, t \in Threads :
        pc[s] = "book" /\ pc[t] = "book" /\ exiting[s].trade = exiting[t].trade
            /\ exiting[s].trade \notin torn
          => s = t

CreditsKept == CreditedOnce /\ CreditDue /\ BooksAlone

(* A request asks for a trade without a record only while it has still to  *)
(* read that trade's account.                                              *)
AnswersKept ==
    /\ ReportedClosedIsClosed
    /\ \A t \in Threads : \A n \in asked[t] \cap open \cap InFlight :
          n \in shaken \cup torn \/ AccountOf[contract[n]] \in unread[t]

(* Thread t has passed its check for underlying u and not tracked it yet. *)
Pending(t, u) ==
    \/ u \in targets[t]
    \/ pc[t] \in Entering /\ UnderlyingOf[entering[t].contract] = u

(* Whatever is open on that underlying lost its record or is another entry *)
(* that races this one.                                                    *)
PendingAlone ==
    \A t \in Threads : \A n \in open :
        Pending(t, Underlying(n)) => n \in shaken \cup torn \cup raced \cup InFlight

(* What opens on an underlying after a trade that is not tracked yet races *)
(* it.                                                                     *)
LaterRaces ==
    \A t \in Threads : \A n \in open :
        entering[t].trade # 0 /\ n > entering[t].trade
            /\ Underlying(n) = UnderlyingOf[entering[t].contract]
          => n \in torn \cup raced \cup InFlight

EntriesKept == OneTradePerUnderlying /\ PendingAlone /\ LaterRaces

IInv == TypeOK /\ Shape /\ RecordsKept /\ CreditsKept /\ AnswersKept /\ EntriesKept

------------------------------------------------------------------------------
(* Lots and accounts *)

LEMMA Numbers ==
    Trades \subseteq Nat \ {0} /\ MaxFaults \in Nat /\ MaxCalls \in Nat
  BY ConstantsAssumption DEF Trades

LEMMA FaultsCounted ==
    ASSUME TypeOK, NEW kind, Fault(kind)
    PROVE  faults' \in 0..MaxFaults
  BY Numbers DEF TypeOK, Fault

LEMMA CallsCounted ==
    ASSUME TypeOK, Call
    PROVE  calls' \in 0..MaxCalls
  BY Numbers DEF TypeOK, Call

(* Every nonempty set of numbers has a least one. *)
LEMMA Least ==
    ASSUME NEW S \in SUBSET Nat, S # {}
    PROVE  \E n \in S : \A m \in S : n <= m
  <1> DEFINE R == {ss \in Nat \X Nat : ss[1] < ss[2]}
  <1>1. IsWellFoundedOn(R, Nat)
    BY NatLessThanWellFounded DEF OpToRel
  <1>2. \A x, y \in Nat : y < x => <<y, x>> \in R
    OBVIOUS
  <1> HIDE DEF R
  <1>3. PICK n \in S : \A m \in S : ~(<<m, n>> \in R)
    BY <1>1, WFMin
  <1>4. ASSUME NEW m \in S
        PROVE  n <= m
    <2>1. m \in Nat /\ n \in Nat
      OBVIOUS
    <2>2. m < n => <<m, n>> \in R
      BY <1>2, <2>1
    <2>3. ~(m < n)
      BY <1>3, <2>2
    <2> QED
      BY <2>1, <2>3
  <1> QED
    BY <1>4

(* The oldest lot is one of the lots. *)
LEMMA OldestLot ==
    ASSUME NEW S \in SUBSET Trades, S # {}
    PROVE  Oldest(S) \in S
  <1>1. S \in SUBSET Nat
    BY Numbers
  <1>2. \E n \in S : \A m \in S : n <= m
    BY <1>1, Least
  <1> QED
    BY <1>2 DEF Oldest

LEMMA RecordForSome ==
    ASSUME TypeOK, NEW n \in Opened
    PROVE  RecordFor(contract[n]) \in {"bare", "full"}
  BY DEF TypeOK, Opened, RecordFor, Records

LEMMA TheLoop == "loop" \in Threads
  BY DEF Threads

(* Storing a loaded account opens or closes what has changed in the book   *)
(* since, and besides only what the copy was changed in.                   *)
LEMMA StoreKeeps ==
    ASSUME TypeOK, Shape, NEW t \in Threads, NEW lots \in SUBSET Trades, Store(t, lots),
           NEW m \in Trades, m \notin Outdated(t), m \in lots <=> m \in copy[t].lots
    PROVE  m \in open' <=> m \in open
  <1>1. open' = (open \ OpenIn(copy[t].account)) \cup lots
    BY DEF Store
  <1>2. m \in OpenIn(copy[t].account) <=> m \in copy[t].lots
    BY DEF Outdated
  <1>3. m \in OpenIn(copy[t].account) => m \in open
    BY DEF OpenIn
  <1> QED
    BY <1>1, <1>2, <1>3

(* Lots of the stored account and lots of the others have no contract in   *)
(* common.                                                                 *)
LEMMA StoreApart ==
    ASSUME TypeOK, Shape, NEW t \in Threads, NEW lots \in SUBSET Trades, Store(t, lots),
           NEW m \in open', m \notin lots
    PROVE  m \in open /\ AccountOf[contract[m]] # copy[t].account
  BY DEF Store, OpenIn

(* The entries under way, when one of them fills and when one of them ends. *)
LEMMA InFlightGrows ==
    ASSUME NEW t \in Threads, NEW n \in Trades,
           entering[t].trade = 0, entering'[t].trade = n,
           \A s \in Threads \ {t} : entering'[s] = entering[s]
    PROVE  InFlight' = InFlight \cup {n}
  <1> USE DEF InFlight
  <1>1. ASSUME NEW m \in InFlight'
        PROVE  m \in InFlight \cup {n}
    <2>1. PICK s \in Threads : m = entering'[s].trade /\ m # 0
      OBVIOUS
    <2> QED
      BY <2>1
  <1>2. ASSUME NEW m \in InFlight
        PROVE  m \in InFlight'
    <2>1. PICK s \in Threads : m = entering[s].trade /\ m # 0
      OBVIOUS
    <2> QED
      BY <2>1
  <1>3. n \in InFlight'
    BY Numbers
  <1> QED
    BY <1>1, <1>2, <1>3

LEMMA InFlightShrinks ==
    ASSUME NEW t \in Threads, entering'[t].trade = 0,
           \A s \in Threads \ {t} : entering'[s] = entering[s]
    PROVE  /\ InFlight' \subseteq InFlight
           /\ InFlight \subseteq InFlight' \cup ({entering[t].trade} \ {0})
  <1> USE DEF InFlight
  <1>1. ASSUME NEW m \in InFlight'
        PROVE  m \in InFlight
    <2>1. PICK s \in Threads : m = entering'[s].trade /\ m # 0
      OBVIOUS
    <2> QED
      BY <2>1
  <1>2. ASSUME NEW m \in InFlight, m # entering[t].trade
        PROVE  m \in InFlight'
    <2>1. PICK s \in Threads : m = entering[s].trade /\ m # 0
      OBVIOUS
    <2> QED
      BY <1>2, <2>1
  <1>3. 0 \notin InFlight
    OBVIOUS
  <1> QED
    BY <1>1, <1>2, <1>3

------------------------------------------------------------------------------
(* What each step does, one outcome at a time *)

Reads(t, a) ==
    /\ pc[t] = "read"
    /\ a \in unread[t]
    /\ unread' = [unread EXCEPT ![t] = @ \ {a}]
    /\ \E seen \in SUBSET OpenIn(a) :
          /\ OnePerSymbol(seen, OpenIn(a))
          /\ todo' = [todo EXCEPT ![t] = @ \cup seen]
    /\ marks' \in [Threads -> SUBSET Accounts]
    /\ shaken' = shaken \cup (OpenIn(a) \cap InFlight)
    /\ pc' = [pc EXCEPT ![t] = IF unread[t] = {a} THEN "decide" ELSE "read"]
    /\ UNCHANGED <<venue, memory, disk, rebuilt, exiting, request, entry, faults, torn,
                   raced, claimed>>

Skips(t, a) ==
    /\ pc[t] = "read"
    /\ a \in unread[t]
    /\ unread' = [unread EXCEPT ![t] = @ \ {a}]
    /\ shaken' = shaken \cup OpenIn(a)
    /\ pc' = [pc EXCEPT ![t] = IF unread[t] = {a} THEN "decide" ELSE "read"]
    /\ faults' \in 0..MaxFaults
    /\ UNCHANGED <<venue, memory, disk, todo, rebuilt, marks, exiting, request, entry,
                   torn, raced, claimed>>

Exits(t, n) ==
    /\ pc[t] = "decide"
    /\ n \in todo[t]
    /\ todo' = [todo EXCEPT ![t] = @ \ {n}]
    /\ exiting' = [exiting EXCEPT ![t] = [trade |-> n, rec |-> RecordFor(contract[n])]]
    /\ pc' = [pc EXCEPT ![t] = "exit"]
    /\ UNCHANGED <<venue, memory, disk, unread, rebuilt, marks, request, entry, faults,
                   history>>

Keeps(t, n) ==
    /\ pc[t] = "decide"
    /\ n \in todo[t]
    /\ todo' = [todo EXCEPT ![t] = @ \ {n}]
    /\ rebuilt' = [rebuilt EXCEPT ![t] =
                      [@ EXCEPT ![contract[n]] = RecordFor(contract[n])]]
    /\ UNCHANGED <<venue, memory, disk, pc, unread, marks, exiting, request, entry, faults,
                   history>>

Sends(t) ==
    /\ pc[t] = "exit"
    /\ pc' = [pc EXCEPT ![t] = "fill"]
    /\ UNCHANGED <<venue, memory, disk, pass, request, entry, faults, history>>

Refuses(t) ==
    /\ pc[t] = "exit"
    /\ shaken' = shaken \cup Lots(contract[exiting[t].trade])
    /\ exiting' = [exiting EXCEPT ![t] = NoExit]
    /\ pc' = [pc EXCEPT ![t] = "decide"]
    /\ faults' \in 0..MaxFaults
    /\ UNCHANGED <<venue, memory, disk, unread, todo, rebuilt, marks, request, entry, torn,
                   raced, claimed>>

Raises(t) ==
    /\ pc[t] \in Exiting
    /\ copy' = [copy EXCEPT ![t] = NoCopy]
    /\ rebuilt' = [rebuilt EXCEPT ![t] =
                      [@ EXCEPT ![contract[exiting[t].trade]] = exiting[t].rec]]
    /\ exiting' = [exiting EXCEPT ![t] = NoExit]
    /\ pc' = [pc EXCEPT ![t] = "decide"]
    /\ faults' \in 0..MaxFaults
    /\ UNCHANGED <<contract, short, open, memory, disk, unread, todo, marks, request, entry,
                   history>>

(* The account of an order or of the prices is loaded, at the end of which *)
(* thread t goes on at p.                                                  *)
Loads(t, a, p) ==
    /\ copy' = [copy EXCEPT ![t] = [account |-> a, lots |-> OpenIn(a)]]
    /\ pc' = [pc EXCEPT ![t] = p]
    /\ UNCHANGED <<contract, short, open, memory, disk, unread, todo, rebuilt, exiting,
                   request, entry, faults, history>>

LoadsExit(t) ==
    /\ pc[t] = "fill"
    /\ Loads(t, AccountOf[contract[exiting[t].trade]], "settle")
    /\ UNCHANGED marks

LoadsMarks(t, a) ==
    /\ pc[t] = "mark"
    /\ Loads(t, a, "write")
    /\ marks' \in [Threads -> SUBSET Accounts]

LoadsEntry(t) ==
    /\ pc[t] = "place"
    /\ Loads(t, AccountOf[entering[t].contract], "settleEntry")
    /\ UNCHANGED marks

(* A loaded account is stored with these lots. *)
Stores(t, lots) ==
    /\ Store(t, lots)
    /\ torn' \in SUBSET Trades
    /\ torn \cup Outdated(t) \subseteq torn'

Closes(t, k) ==
    /\ pc[t] = "settle"
    /\ k \in SameSide(copy[t].lots, exiting[t].trade)
    /\ \/ Stores(t, copy[t].lots \ {k})
       \/ Stores(t, copy[t].lots) /\ k \in torn'
    /\ exiting' = [exiting EXCEPT ![t] = [trade |-> k, rec |-> exiting[t].rec]]
    /\ shaken' = shaken \cup ({k} \ {exiting[t].trade})
    /\ pc' = [pc EXCEPT ![t] = "book"]
    /\ faults' \in 0..MaxFaults
    /\ UNCHANGED <<contract, short, memory, disk, unread, todo, rebuilt, marks, request,
                   entry, raced, claimed>>

Overruns(t, n) ==
    /\ pc[t] = "settle"
    /\ n = exiting[t].trade
    /\ contract' = [k \in Trades |-> IF k \in Unused THEN contract[n] ELSE contract[k]]
    /\ short' = IF n \in short THEN short ELSE short \cup Unused
    /\ Stores(t, copy[t].lots \cup Unused)
    /\ Unused \cup {n} \subseteq torn'
    /\ shaken' = shaken \cup {m \in copy[t].lots : contract[m] = contract[n]}
    /\ pc' = [pc EXCEPT ![t] = "book"]
    /\ UNCHANGED <<memory, disk, pass, request, entry, faults, raced, claimed>>

Books(t) ==
    /\ pc[t] = "book"
    /\ IF exiting[t].rec = "full" THEN Credit(exiting[t].trade) ELSE UNCHANGED credited
    /\ exiting' = [exiting EXCEPT ![t] = NoExit]
    /\ pc' = [pc EXCEPT ![t] = "decide"]
    /\ UNCHANGED <<venue, memory, saved, unread, todo, rebuilt, marks, request, entry,
                   faults, history>>

BookRaises(t) ==
    /\ pc[t] = "book"
    /\ Credit(exiting[t].trade) \/ UNCHANGED credited
    /\ shaken' = shaken \cup {exiting[t].trade}
    /\ rebuilt' = [rebuilt EXCEPT ![t] =
                      [@ EXCEPT ![contract[exiting[t].trade]] = exiting[t].rec]]
    /\ exiting' = [exiting EXCEPT ![t] = NoExit]
    /\ pc' = [pc EXCEPT ![t] = "decide"]
    /\ faults' \in 0..MaxFaults
    /\ UNCHANGED <<venue, memory, saved, unread, todo, marks, request, entry, torn, raced,
                   claimed>>

AfterSave(t) == {"mark", AfterEntry(t)}

Saves(t, p) ==
    /\ pc[t] \in {"save", "saveEntry"}
    /\ pc[t] = "save" => p = "mark"
    /\ pc[t] = "saveEntry" => p = AfterEntry(t)
    /\ saved' = tracking
    /\ pc' = [pc EXCEPT ![t] = p]
    /\ UNCHANGED <<venue, memory, credited, pass, request, entry, faults, history>>

SaveFails(t, p) ==
    /\ pc[t] \in {"save", "saveEntry"}
    /\ pc[t] = "save" => p = "mark"
    /\ pc[t] = "saveEntry" => p = AfterEntry(t)
    /\ shaken' = shaken \cup open
    /\ pc' = [pc EXCEPT ![t] = p]
    /\ faults' \in 0..MaxFaults
    /\ UNCHANGED <<venue, memory, disk, pass, request, entry, torn, raced, claimed>>

Writes(t) ==
    /\ pc[t] = "write"
    /\ Stores(t, copy[t].lots)
    /\ pc' = [pc EXCEPT ![t] = "mark"]
    /\ UNCHANGED <<contract, short, memory, disk, pass, request, entry, faults, shaken,
                   raced, claimed>>

(* One account less to mark, or the pass is over. *)
Marks(t, p) ==
    /\ pc[t] = "mark"
    /\ p \in {"mark", "scan", "answer"}
    /\ pc' = [pc EXCEPT ![t] = p]
    /\ marks' \in [Threads -> SUBSET Accounts]
    /\ UNCHANGED <<venue, memory, disk, unread, todo, rebuilt, exiting, request, entry,
                   faults, history>>

GivesUp(t) ==
    /\ pc[t] \in {"place", "settleEntry"}
    /\ entering' = [entering EXCEPT ![t] = NoEntry]
    /\ copy' \in {copy, [copy EXCEPT ![t] = NoCopy]}
    /\ pc' = [pc EXCEPT ![t] = AfterEntry(t)]
    /\ UNCHANGED <<contract, short, open, memory, disk, pass, request, scanning, targets,
                   faults, history>>

Assumes(t) ==
    /\ pc[t] = "place"
    /\ pc' = [pc EXCEPT ![t] = "track"]
    /\ faults' \in 0..MaxFaults
    /\ UNCHANGED <<venue, memory, disk, pass, request, entry, history>>

Covers(t) ==
    /\ pc[t] = "settleEntry"
    /\ \E sold \in SUBSET (copy[t].lots \cap short) : Stores(t, copy[t].lots \ sold)
    /\ pc' = [pc EXCEPT ![t] = "track"]
    /\ UNCHANGED <<contract, short, memory, disk, pass, request, entry, faults, shaken,
                   raced, claimed>>

Beside(t) == {m \in copy[t].lots : contract[m] = entering[t].contract}

Enters(t, n) ==
    /\ pc[t] = "settleEntry"
    /\ n \in Unused
    /\ contract' = [contract EXCEPT ![n] = entering[t].contract]
    /\ Stores(t, copy[t].lots \cup {n})
    /\ entering' = [entering EXCEPT ![t] =
                       [contract |-> entering[t].contract, trade |-> n]]
    /\ shaken' = IF Beside(t) = {} THEN shaken ELSE shaken \cup Beside(t) \cup {n}
    /\ pc' = [pc EXCEPT ![t] = "track"]
    /\ UNCHANGED <<short, memory, disk, pass, request, scanning, targets, faults, raced,
                   claimed>>

(* What both outcomes of TrackEntry share. *)
Untangles(t) ==
    /\ pc[t] = "track"
    /\ raced' = IF OtherEntry(t, UnderlyingOf[entering[t].contract])
                THEN raced \cup ({entering[t].trade} \ {0}) ELSE raced
    /\ entering' = [entering EXCEPT ![t] = NoEntry]
    /\ UNCHANGED <<venue, forced, disk, pass, request, scanning, targets, torn, claimed>>

Tracks(t) ==
    /\ Untangles(t)
    /\ tracking' = [tracking EXCEPT ![entering[t].contract] = "full"]
    /\ shaken' = IF \E s \in Threads : InPass(s) THEN shaken \cup ({entering[t].trade} \ {0})
                 ELSE shaken
    /\ pc' = [pc EXCEPT ![t] = "saveEntry"]
    /\ UNCHANGED faults

TrackFails(t) ==
    /\ Untangles(t)
    /\ shaken' = shaken \cup ({entering[t].trade} \ {0})
    /\ pc' = [pc EXCEPT ![t] = AfterEntry(t)]
    /\ faults' \in 0..MaxFaults
    /\ UNCHANGED tracking

(* The outcomes of the steps a thread takes. *)
OrderOutcome(t) ==
    \/ Sends(t) \/ Refuses(t) \/ Raises(t) \/ LoadsExit(t)
    \/ \E n \in Trades : Closes(t, n) \/ Overruns(t, n)
    \/ Books(t) \/ BookRaises(t)

PassOutcome(t) ==
    \/ \E a \in Accounts : Reads(t, a) \/ Skips(t, a) \/ LoadsMarks(t, a)
    \/ \E n \in Trades : Exits(t, n) \/ Keeps(t, n)
    \/ Replace(t) \/ Writes(t)
    \/ \E p \in AfterSave(t) : Saves(t, p) \/ SaveFails(t, p)
    \/ \E p \in {"mark", "scan", "answer"} : Marks(t, p)

EntryOutcome(t) ==
    \/ BeginScan(t) \/ ScanEnters(t) \/ EndScan(t) \/ ForceEntry(t)
    \/ GivesUp(t) \/ Assumes(t) \/ LoadsEntry(t) \/ Covers(t)
    \/ \E n \in Trades : Enters(t, n)
    \/ Tracks(t) \/ TrackFails(t)

RequestOutcome(t) ==
    \/ \E matches \in SUBSET Contracts : RequestExits(t, matches)
    \/ Answer(t)

LEMMA ReadOutcome ==
    ASSUME TypeOK, Shape, NEW t \in Threads, ReadAccount(t)
    PROVE  \E a \in Accounts : Reads(t, a) \/ Skips(t, a)
  <1>1. PICK a \in unread[t] :
           /\ unread' = [unread EXCEPT ![t] = @ \ {a}]
           /\ \/ /\ \E seen \in SUBSET OpenIn(a) :
                       /\ OnePerSymbol(seen, OpenIn(a))
                       /\ todo' = [todo EXCEPT ![t] = @ \cup seen]
                 /\ marks' = [marks EXCEPT ![t] = IF OpenIn(a) = {} THEN @ ELSE @ \cup {a}]
                 /\ shaken' = shaken \cup (OpenIn(a) \cap InFlight)
                 /\ UNCHANGED faults
              \/ /\ Fault("unread")
                 /\ shaken' = shaken \cup OpenIn(a)
                 /\ UNCHANGED <<todo, marks>>
           /\ IF unread'[t] = {} THEN Goto(t, "decide") ELSE UNCHANGED pc
    BY DEF ReadAccount
  <1>2. /\ pc[t] = "read"
        /\ UNCHANGED <<venue, memory, disk, rebuilt, exiting, request, entry, torn, raced,
                       claimed>>
    BY DEF ReadAccount
  <1>3. a \in Accounts
    BY <1>1 DEF TypeOK
  <1>4. pc' = [pc EXCEPT ![t] = IF unread[t] = {a} THEN "decide" ELSE "read"]
    <2>1. unread'[t] = unread[t] \ {a}
      BY <1>1 DEF TypeOK
    <2>2. unread'[t] = {} <=> unread[t] = {a}
      BY <1>1, <2>1
    <2>3. pc = [pc EXCEPT ![t] = "read"]
      BY <1>2 DEF TypeOK
    <2> QED
      BY <1>1, <2>2, <2>3 DEF Goto
  <1>5. CASE /\ \E seen \in SUBSET OpenIn(a) :
                   /\ OnePerSymbol(seen, OpenIn(a))
                   /\ todo' = [todo EXCEPT ![t] = @ \cup seen]
             /\ marks' = [marks EXCEPT ![t] = IF OpenIn(a) = {} THEN @ ELSE @ \cup {a}]
             /\ shaken' = shaken \cup (OpenIn(a) \cap InFlight)
             /\ UNCHANGED faults
    <2>1. marks' \in [Threads -> SUBSET Accounts]
      BY <1>3, <1>5 DEF TypeOK
    <2> QED
      BY <1>1, <1>2, <1>3, <1>4, <1>5, <2>1 DEF Reads
  <1>6. CASE Fault("unread") /\ shaken' = shaken \cup OpenIn(a) /\ UNCHANGED <<todo, marks>>
    BY <1>1, <1>2, <1>3, <1>4, <1>6, FaultsCounted DEF Skips
  <1> QED
    BY <1>1, <1>5, <1>6

LEMMA DecideOutcome ==
    ASSUME TypeOK, Shape, NEW t \in Threads, Decide(t)
    PROVE  \E n \in Trades : Exits(t, n) \/ Keeps(t, n)
  <1>1. PICK n \in todo[t] :
           /\ todo' = [todo EXCEPT ![t] = @ \ {n}]
           /\ \/ /\ exiting' = [exiting EXCEPT ![t] =
                                   [trade |-> n, rec |-> RecordFor(contract[n])]]
                 /\ Goto(t, "exit")
                 /\ UNCHANGED rebuilt
              \/ /\ rebuilt' = [rebuilt EXCEPT ![t][contract[n]] = RecordFor(contract[n])]
                 /\ UNCHANGED <<exiting, pc>>
    BY DEF Decide
  <1>2. n \in Trades
    BY <1>1 DEF TypeOK
  <1>3. /\ pc[t] = "decide"
        /\ UNCHANGED <<venue, memory, disk, unread, marks, request, entry, faults, history>>
    BY DEF Decide
  <1> QED
    BY <1>1, <1>2, <1>3 DEF Exits, Keeps, Goto

LEMMA UnusedLots ==
    ASSUME TypeOK
    PROVE  Unused \subseteq Trades \ Opened
  BY DEF Unused, Opened

LEMMA SettleOutcome ==
    ASSUME TypeOK, Shape, NEW t \in Threads, SettleExit(t)
    PROVE  \E n \in Trades : Closes(t, n) \/ Overruns(t, n)
  <1>1. /\ pc[t] = "settle"
        /\ Reduce(t, exiting[t].trade) \/ Overrun(t, exiting[t].trade)
        /\ pc' = [pc EXCEPT ![t] = "book"]
        /\ UNCHANGED <<memory, disk, unread, todo, rebuilt, marks, request, entry, raced,
                       claimed>>
    BY DEF SettleExit, Goto
  <1>2. exiting[t].trade \in Trades
    BY <1>1 DEF Shape, PassShape, Aim, Exiting, Opened
  <1>3. copy[t].lots \subseteq Trades /\ Outdated(t) \subseteq Trades /\ torn \subseteq Trades
    BY DEF TypeOK, Outdated, OpenIn
  <1>4. CASE Reduce(t, exiting[t].trade)
    <2> DEFINE lots == SameSide(copy[t].lots, exiting[t].trade)
               k == Oldest(lots)
    <2>1. lots \subseteq Trades /\ lots # {}
      BY <1>3, <1>4 DEF Reduce, SameSide
    <2>2. k \in lots
      BY <2>1, OldestLot
    <2>3. k \in Trades
      BY <2>1, <2>2
    <2>4. /\ \/ /\ Store(t, copy[t].lots \ {k})
                /\ torn' = torn \cup Outdated(t)
                /\ UNCHANGED faults
             \/ /\ Fault("partial")
                /\ Store(t, copy[t].lots)
                /\ torn' = torn \cup Outdated(t) \cup {k}
          /\ exiting' = [exiting EXCEPT ![t].trade = k]
          /\ shaken' = shaken \cup ({k} \ {exiting[t].trade})
          /\ UNCHANGED <<contract, short>>
      BY <1>4 DEF Reduce
    <2> HIDE DEF k
    <2>5. [exiting[t] EXCEPT !.trade = k] = [trade |-> k, rec |-> exiting[t].rec]
      BY DEF TypeOK
    <2>6. exiting' = [exiting EXCEPT ![t] = [trade |-> k, rec |-> exiting[t].rec]]
      BY <2>4, <2>5
    <2>7. \/ Stores(t, copy[t].lots \ {k})
          \/ Stores(t, copy[t].lots) /\ k \in torn'
      BY <1>3, <2>3, <2>4 DEF Stores
    <2>8. faults' \in 0..MaxFaults
      BY <2>4, FaultsCounted DEF TypeOK
    <2>9. Closes(t, k)
      BY <1>1, <2>2, <2>4, <2>6, <2>7, <2>8 DEF Closes
    <2> QED
      BY <2>3, <2>9
  <1>5. CASE Overrun(t, exiting[t].trade)
    <2>1. torn' \in SUBSET Trades
      BY <1>2, <1>3, <1>5, UnusedLots DEF Overrun
    <2>2. Overruns(t, exiting[t].trade)
      BY <1>1, <1>5, <2>1 DEF Overrun, Overruns, Stores, pass
    <2> QED
      BY <1>2, <2>2
  <1> QED
    BY <1>1, <1>4, <1>5

LEMMA ExitOutcome ==
    ASSUME TypeOK, Shape, NEW t \in Threads
    PROVE  /\ SendExit(t) => Sends(t) \/ Refuses(t)
           /\ ExitRaises(t) => Raises(t)
           /\ FillExit(t) => LoadsExit(t)
           /\ Book(t) => Books(t) \/ BookRaises(t)
  <1>1. SendExit(t) => Sends(t) \/ Refuses(t)
    <2> SUFFICES ASSUME SendExit(t) PROVE Sends(t) \/ Refuses(t)
      OBVIOUS
    <2>1. SameSide(open, exiting[t].trade) # {} /\ Goto(t, "fill")
             /\ UNCHANGED <<exiting, faults, shaken>>
          => Sends(t)
      BY DEF SendExit, Sends, Goto, pass, history
    <2>2. faults' \in 0..MaxFaults
      BY FaultsCounted DEF SendExit, TypeOK
    <2> QED
      BY <2>1, <2>2 DEF SendExit, Refuses, Goto
  <1>2. ExitRaises(t) => Raises(t)
    BY FaultsCounted DEF ExitRaises, Raises, Exiting, Goto
  <1>3. FillExit(t) => LoadsExit(t)
    BY DEF FillExit, LoadsExit, Loads, Load, Goto, pass
  <1>4. Book(t) => Books(t) \/ BookRaises(t)
    BY FaultsCounted DEF Book, Books, BookRaises, Goto, history
  <1> QED
    BY <1>1, <1>2, <1>3, <1>4

LEMMA SaveOutcome ==
    ASSUME TypeOK, Shape, NEW t \in Threads, Save(t)
    PROVE  \E p \in AfterSave(t) : Saves(t, p) \/ SaveFails(t, p)
  <1>1. PICK p \in AfterSave(t) : /\ pc' = [pc EXCEPT ![t] = p]
                                  /\ pc[t] = "save" => p = "mark"
                                  /\ pc[t] = "saveEntry" => p = AfterEntry(t)
    BY DEF Save, Goto, AfterSave
  <1> QED
    BY <1>1, FaultsCounted DEF Save, Saves, SaveFails, history, disk

LEMMA MarkOutcome ==
    ASSUME TypeOK, Shape, NEW t \in Threads
    PROVE  /\ MarkAccount(t) => (\E a \in Accounts : LoadsMarks(t, a)) \/ Marks(t, "mark")
           /\ WriteMarks(t) => Writes(t)
           /\ EndPass(t) => \E p \in {"mark", "scan", "answer"} : Marks(t, p)
  <1>1. MarkAccount(t) => (\E a \in Accounts : LoadsMarks(t, a)) \/ Marks(t, "mark")
    <2> SUFFICES ASSUME MarkAccount(t)
                 PROVE  (\E a \in Accounts : LoadsMarks(t, a)) \/ Marks(t, "mark")
      OBVIOUS
    <2>1. PICK a \in marks[t] :
             /\ marks' = [marks EXCEPT ![t] = @ \ {a}]
             /\ \/ OpenIn(a) # {} /\ Load(t, a) /\ Goto(t, "write")
                \/ UNCHANGED <<copy, pc>>
      BY DEF MarkAccount
    <2>2. a \in Accounts /\ marks' \in [Threads -> SUBSET Accounts]
      BY <2>1 DEF TypeOK
    <2>3. CASE Load(t, a) /\ Goto(t, "write")
      BY <2>2, <2>3 DEF MarkAccount, LoadsMarks, Loads, Load, Goto
    <2>4. CASE UNCHANGED <<copy, pc>>
      <3>1. pc[t] = "mark" /\ pc' = [pc EXCEPT ![t] = "mark"]
        BY <2>4 DEF MarkAccount, TypeOK
      <3> QED
        BY <2>2, <2>4, <3>1 DEF MarkAccount, Marks, venue
    <2> QED
      BY <2>1, <2>3, <2>4
  <1>2. WriteMarks(t) => Writes(t)
    BY DEF WriteMarks, Writes, Stores, Goto, TypeOK, Outdated, OpenIn
  <1>3. EndPass(t) => \E p \in {"mark", "scan", "answer"} : Marks(t, p)
    BY DEF EndPass, Marks, Goto, pass, TypeOK
  <1> QED
    BY <1>1, <1>2, <1>3

LEMMA SettleEntryOutcome ==
    ASSUME TypeOK, Shape, NEW t \in Threads, SettleEntry(t)
    PROVE  Covers(t) \/ \E n \in Trades : Enters(t, n)
  <1> DEFINE beside == {m \in copy[t].lots : contract[m] = entering[t].contract}
  <1>1. /\ pc[t] = "settleEntry"
        /\ torn' = torn \cup Outdated(t)
        /\ pc' = [pc EXCEPT ![t] = "track"]
        /\ UNCHANGED <<short, memory, disk, pass, request, scanning, targets, faults, raced,
                       claimed>>
    BY DEF SettleEntry, Goto
  <1>2. torn' \in SUBSET Trades /\ copy[t].lots \in SUBSET Trades
    BY <1>1 DEF TypeOK, Outdated, OpenIn
  <1>3. CASE /\ beside \cap short # {}
             /\ \E sold \in SUBSET {Oldest(beside \cap short)} :
                   Store(t, copy[t].lots \ sold)
             /\ UNCHANGED <<contract, entering, shaken>>
    <2>1. beside \cap short \in SUBSET Trades
      BY <1>2
    <2>2. Oldest(beside \cap short) \in beside \cap short
      BY <1>3, <2>1, OldestLot
    <2>3. \E sold \in SUBSET (copy[t].lots \cap short) : Store(t, copy[t].lots \ sold)
      BY <1>3, <2>2
    <2>4. \E sold \in SUBSET (copy[t].lots \cap short) : Stores(t, copy[t].lots \ sold)
      BY <1>1, <1>2, <2>3 DEF Stores
    <2> QED
      BY <1>1, <1>3, <2>4 DEF Covers, entry
  <1>4. ASSUME NEW n \in Unused,
               contract' = [contract EXCEPT ![n] = entering[t].contract],
               Store(t, copy[t].lots \cup {n}),
               entering' = [entering EXCEPT ![t].trade = n],
               shaken' = IF beside = {} THEN shaken ELSE shaken \cup beside \cup {n}
        PROVE  n \in Trades /\ Enters(t, n)
    <2>1. [entering[t] EXCEPT !.trade = n] = [contract |-> entering[t].contract, trade |-> n]
      BY DEF TypeOK
    <2>2. n \in Trades
      BY UnusedLots
    <2>3. Stores(t, copy[t].lots \cup {n})
      BY <1>1, <1>2, <1>4 DEF Stores
    <2> QED
      BY <1>1, <1>4, <2>1, <2>2, <2>3 DEF Enters, Beside
  <1> QED
    BY <1>3, <1>4 DEF SettleEntry

LEMMA PlaceOutcome ==
    ASSUME TypeOK, Shape, NEW t \in Threads
    PROVE  /\ PlaceEntry(t) => GivesUp(t) \/ Assumes(t) \/ LoadsEntry(t)
           /\ NoMoreTrades(t) => GivesUp(t)
           /\ TrackEntry(t) => Tracks(t) \/ TrackFails(t)
  <1>1. PlaceEntry(t) => GivesUp(t) \/ Assumes(t) \/ LoadsEntry(t)
    <2> SUFFICES ASSUME PlaceEntry(t) PROVE GivesUp(t) \/ Assumes(t) \/ LoadsEntry(t)
      OBVIOUS
    <2>1. CASE GiveUp(t) /\ UNCHANGED <<copy, faults>>
      BY <2>1 DEF PlaceEntry, GiveUp, GivesUp, Goto
    <2>2. CASE Fault("raise") /\ Goto(t, "track") /\ UNCHANGED <<copy, entering>>
      BY <2>2, FaultsCounted DEF PlaceEntry, Assumes, Goto, venue, entry
    <2>3. CASE /\ Load(t, AccountOf[entering[t].contract])
               /\ Goto(t, "settleEntry")
               /\ UNCHANGED <<entering, faults>>
      BY <2>3 DEF PlaceEntry, LoadsEntry, Loads, Load, Goto, entry, pass
    <2> QED
      BY <2>1, <2>2, <2>3 DEF PlaceEntry
  <1>2. NoMoreTrades(t) => GivesUp(t)
    BY DEF NoMoreTrades, GiveUp, GivesUp, Goto
  <1>3. TrackEntry(t) => Tracks(t) \/ TrackFails(t)
    BY FaultsCounted DEF TrackEntry, Tracks, TrackFails, Untangles, Goto
  <1> QED
    BY <1>1, <1>2, <1>3

(* Every step is one of these. *)
LEMMA Outcomes ==
    ASSUME TypeOK, Shape, [Next]_vars
    PROVE  \/ \E t \in Threads : \/ PassOutcome(t) \/ OrderOutcome(t)
                                 \/ EntryOutcome(t) \/ RequestOutcome(t)
           \/ LoopMonitors \/ Crash
           \/ UNCHANGED vars
  <1>1. ASSUME NEW t \in Threads, PassStep(t)
        PROVE  PassOutcome(t) \/ OrderOutcome(t)
    BY <1>1, ReadOutcome, DecideOutcome, SettleOutcome, ExitOutcome, SaveOutcome, MarkOutcome
       DEF PassStep, PassOutcome, OrderOutcome
  <1>2. ASSUME NEW t \in Threads, EntryStep(t)
        PROVE  EntryOutcome(t)
    BY <1>2, SettleEntryOutcome, PlaceOutcome DEF EntryStep, EntryOutcome
  <1>3. ASSUME NEW t \in Commanders, ForceExit(t) \/ CloseAll(t)
        PROVE  RequestOutcome(t)
    BY <1>3 DEF ForceExit, CloseAll, Tracked, RequestOutcome
  <1>4. Commanders \subseteq Threads
    BY DEF Threads
  <1> QED
    BY <1>1, <1>2, <1>3, <1>4, TheLoop
       DEF Next, LoopStep, CommanderStep, EntryOutcome, RequestOutcome

------------------------------------------------------------------------------
(* Types *)

Exitings == [trade : Trades \cup {0}, rec : Records]
Entries == [contract : Contracts \cup {"none"}, trade : Trades \cup {0}]
Copies == [account : Accounts \cup {"none"}, lots : SUBSET Trades]

LEMMA EmptyTypes ==
    /\ NoExit \in Exitings /\ NoEntry \in Entries /\ NoCopy \in Copies
    /\ Untracked \in [Contracts -> Records]
  BY DEF NoExit, NoEntry, NoCopy, Untracked, Exitings, Entries, Copies, Records

LEMMA TypeInit == Init => TypeOK
  BY Numbers DEF Init, TypeOK, Trades, Untracked, Records, NoExit, NoEntry, NoCopy

(* Storing an account keeps the types of the book.                         *)
LEMMA StoreTypes ==
    ASSUME TypeOK, NEW t \in Threads, NEW lots, lots \subseteq Opened', Opened \subseteq Opened',
           Opened' \subseteq Trades, Stores(t, lots)
    PROVE  /\ open' \subseteq Opened'
           /\ copy' \in [Threads -> Copies]
           /\ torn' \in SUBSET Trades
  <1>1. open \subseteq Opened
    BY DEF TypeOK, Opened
  <1>2. open' \subseteq Opened'
    BY <1>1 DEF Stores, Store, OpenIn
  <1>3. copy' \in [Threads -> Copies]
    BY EmptyTypes DEF Stores, Store, TypeOK, Copies
  <1> QED
    BY <1>2, <1>3 DEF Stores

LEMMA TypePass ==
    ASSUME TypeOK, Shape, NEW t \in Threads, PassOutcome(t)
    PROVE  TypeOK'
  <1> USE DEF venue, memory, disk, pass, request, entry, history
  <1>1. ASSUME NEW a \in Accounts, Reads(t, a)
        PROVE  TypeOK'
    BY <1>1 DEF Reads, TypeOK, OpenIn
  <1>2. ASSUME NEW a \in Accounts, Skips(t, a)
        PROVE  TypeOK'
    BY <1>2 DEF Skips, TypeOK, OpenIn
  <1>3. ASSUME NEW n \in Trades, Exits(t, n)
        PROVE  TypeOK'
    <2>1. RecordFor(contract[n]) \in Records
      BY <1>3, RecordForSome DEF Exits, Shape, PassShape, Records
    <2>2. exiting' \in [Threads -> [trade : Trades \cup {0}, rec : Records]]
      BY <1>3, <2>1 DEF Exits, TypeOK
    <2>3. todo' \in [Threads -> SUBSET Trades] /\ pc' = [pc EXCEPT ![t] = "exit"]
      BY <1>3 DEF Exits, TypeOK
    <2> QED
      BY <1>3, <2>2, <2>3 DEF Exits, TypeOK
  <1>4. ASSUME NEW n \in Trades, Keeps(t, n)
        PROVE  TypeOK'
    <2>1. RecordFor(contract[n]) \in Records
      BY <1>4, RecordForSome DEF Keeps, Shape, PassShape, Records
    <2>2. [rebuilt[t] EXCEPT ![contract[n]] = RecordFor(contract[n])]
             \in [Contracts -> Records]
      BY <2>1 DEF TypeOK
    <2>3. rebuilt' \in [Threads -> [Contracts -> Records]]
      BY <1>4, <2>2 DEF Keeps, TypeOK
    <2>4. todo' \in [Threads -> SUBSET Trades]
      BY <1>4 DEF Keeps, TypeOK
    <2> QED
      BY <1>4, <2>3, <2>4 DEF Keeps, TypeOK
  <1>5. CASE Replace(t)
    <2>1. rebuilt' \in [Threads -> [Contracts -> Records]]
      BY <1>5, EmptyTypes DEF Replace, TypeOK
    <2>2. tracking' \in [Contracts -> Records]
      BY <1>5 DEF Replace, TypeOK
    <2> QED
      BY <1>5, <2>1, <2>2 DEF Replace, TypeOK, Goto
  <1>6. ASSUME NEW p \in AfterSave(t), Saves(t, p) \/ SaveFails(t, p)
        PROVE  TypeOK'
    <2>1. p \in {"mark", "enter", "idle"}
      BY DEF AfterSave, AfterEntry
    <2>2. CASE Saves(t, p)
      BY <2>1, <2>2 DEF Saves, TypeOK
    <2>3. CASE SaveFails(t, p)
      <3>1. shaken' \in SUBSET Trades
        BY <2>3 DEF SaveFails, TypeOK
      <3> QED
        BY <2>1, <2>3, <3>1 DEF SaveFails, TypeOK
    <2> QED
      BY <1>6, <2>2, <2>3
  <1>7. ASSUME NEW a \in Accounts, LoadsMarks(t, a)
        PROVE  TypeOK'
    BY <1>7 DEF LoadsMarks, Loads, TypeOK, OpenIn
  <1>8. CASE Writes(t)
    <2>1. copy[t].lots \subseteq Opened /\ UNCHANGED contract
      BY <1>8 DEF Writes, Shape, CopyShape
    <2>2. Opened' = Opened /\ Opened \subseteq Trades
      BY <2>1 DEF Opened
    <2>3. open' \subseteq Opened /\ copy' \in [Threads -> Copies] /\ torn' \in SUBSET Trades
      BY <1>8, <2>1, <2>2, StoreTypes DEF Writes
    <2> QED
      BY <1>8, <2>1, <2>3 DEF Writes, TypeOK, Opened, Copies
  <1>9. ASSUME NEW p \in {"mark", "scan", "answer"}, Marks(t, p)
        PROVE  TypeOK'
    BY <1>9 DEF Marks, TypeOK
  <1> QED
    BY <1>1, <1>2, <1>3, <1>4, <1>5, <1>6, <1>7, <1>8, <1>9 DEF PassOutcome

LEMMA TypeOrder ==
    ASSUME TypeOK, Shape, NEW t \in Threads, OrderOutcome(t)
    PROVE  TypeOK'
  <1> USE DEF venue, memory, disk, pass, request, entry, history
  <1>1. CASE Sends(t)
    BY <1>1 DEF Sends, TypeOK
  <1>2. \A c : [rebuilt[t] EXCEPT ![c] = exiting[t].rec] \in [Contracts -> Records]
    BY DEF TypeOK
  <1>3. CASE Refuses(t)
    <2>1. exiting' \in [Threads -> [trade : Trades \cup {0}, rec : Records]]
      BY <1>3, EmptyTypes DEF Refuses, TypeOK, Exitings
    <2>2. shaken' \in SUBSET Trades
      BY <1>3 DEF Refuses, TypeOK, Lots
    <2> QED
      BY <1>3, <2>1, <2>2 DEF Refuses, TypeOK
  <1>4. CASE Raises(t)
    <2>1. exiting' \in [Threads -> [trade : Trades \cup {0}, rec : Records]]
      BY <1>4, EmptyTypes DEF Raises, TypeOK, Exitings
    <2>2. rebuilt' \in [Threads -> [Contracts -> Records]]
      BY <1>2, <1>4 DEF Raises, TypeOK
    <2>3. copy' \in [Threads -> [account : Accounts \cup {"none"}, lots : SUBSET Trades]]
      BY <1>4, EmptyTypes DEF Raises, TypeOK, Copies
    <2> QED
      BY <1>4, <2>1, <2>2, <2>3 DEF Raises, TypeOK
  <1>5. CASE LoadsExit(t)
    <2>1. contract[exiting[t].trade] \in Contracts
      BY <1>5 DEF LoadsExit, Shape, PassShape, Aim, Exiting, Opened, TypeOK
    <2>2. AccountOf[contract[exiting[t].trade]] \in Accounts
      BY <2>1, ConstantsAssumption
    <2> QED
      BY <1>5, <2>2 DEF LoadsExit, Loads, TypeOK, OpenIn
  <1>6. ASSUME NEW k \in Trades, Closes(t, k)
        PROVE  TypeOK'
    <2>1. copy[t].lots \subseteq Opened /\ UNCHANGED contract
      BY <1>6 DEF Closes, Shape, CopyShape
    <2>2. Opened' = Opened /\ Opened \subseteq Trades
      BY <2>1 DEF Opened
    <2>3. open' \subseteq Opened /\ copy' \in [Threads -> Copies] /\ torn' \in SUBSET Trades
      <3>1. CASE Stores(t, copy[t].lots)
        BY <2>1, <2>2, <3>1, StoreTypes
      <3>2. CASE Stores(t, copy[t].lots \ {k})
        <4>1. copy[t].lots \ {k} \subseteq Opened'
          BY <2>1, <2>2
        <4> QED
          BY <2>2, <3>2, <4>1, StoreTypes
      <3> QED
        BY <1>6, <3>1, <3>2 DEF Closes
    <2>4. exiting' \in [Threads -> [trade : Trades \cup {0}, rec : Records]]
      BY <1>6 DEF Closes, TypeOK
    <2>5. shaken' \in SUBSET Trades
      BY <1>6 DEF Closes, TypeOK
    <2> QED
      BY <1>6, <2>1, <2>3, <2>4, <2>5 DEF Closes, TypeOK, Opened, Copies
  <1>7. ASSUME NEW n \in Trades, Overruns(t, n)
        PROVE  TypeOK'
    <2>1. n \in Opened /\ copy[t].lots \subseteq Opened /\ Unused \subseteq Trades \ Opened
      BY <1>7, UnusedLots DEF Overruns, Shape, PassShape, CopyShape, Aim, Exiting
    <2>2. contract[n] \in Contracts
      BY <2>1 DEF TypeOK, Opened
    <2>3. contract' \in [Trades -> Contracts \cup {"none"}]
      BY <1>7, <2>2 DEF Overruns, TypeOK
    <2>4. Opened' = Opened \cup Unused
      BY <1>7, <2>1, <2>2, ConstantsAssumption DEF Overruns, Opened
    <2>5. copy[t].lots \cup Unused \subseteq Opened' /\ Opened' \subseteq Trades
          /\ Opened \subseteq Opened'
      BY <2>1, <2>4 DEF Opened
    <2>6. Stores(t, copy[t].lots \cup Unused)
      BY <1>7 DEF Overruns
    <2>7. open' \subseteq Opened' /\ copy' \in [Threads -> Copies] /\ torn' \in SUBSET Trades
      BY <2>5, <2>6, StoreTypes
    <2>8. short' \subseteq Trades /\ shaken' \in SUBSET Trades
      BY <1>7, <2>1 DEF Overruns, TypeOK, Opened
    <2>9. open' \subseteq {m \in Trades : contract'[m] # "none"}
      BY <2>7 DEF Opened
    <2> QED
      BY <1>7, <2>3, <2>7, <2>8, <2>9 DEF Overruns, TypeOK, Copies
  <1>8. ASSUME NEW n \in Trades, Credit(n)
        PROVE  credited' \in [Trades -> Nat]
    <2>1. credited[n] + 1 \in Nat
      BY DEF TypeOK
    <2> QED
      BY <1>8, <2>1 DEF Credit, TypeOK
  <1>9. pc[t] = "book" => exiting[t].trade \in Trades
    BY DEF Shape, PassShape, Aim, Opened
  <1>10. CASE Books(t)
    <2>1. exiting' \in [Threads -> [trade : Trades \cup {0}, rec : Records]]
      BY <1>10, EmptyTypes DEF Books, TypeOK, Exitings
    <2>2. credited' \in [Trades -> Nat]
      BY <1>8, <1>9, <1>10 DEF Books, TypeOK
    <2> QED
      BY <1>10, <2>1, <2>2 DEF Books, TypeOK
  <1>11. CASE BookRaises(t)
    <2>1. exiting' \in [Threads -> [trade : Trades \cup {0}, rec : Records]]
      BY <1>11, EmptyTypes DEF BookRaises, TypeOK, Exitings
    <2>2. credited' \in [Trades -> Nat]
      BY <1>8, <1>9, <1>11 DEF BookRaises, TypeOK
    <2>3. rebuilt' \in [Threads -> [Contracts -> Records]]
      BY <1>2, <1>11 DEF BookRaises, TypeOK
    <2>4. shaken' \in SUBSET Trades
      BY <1>9, <1>11 DEF BookRaises, TypeOK
    <2> QED
      BY <1>11, <2>1, <2>2, <2>3, <2>4 DEF BookRaises, TypeOK
  <1> QED
    BY <1>1, <1>3, <1>4, <1>5, <1>6, <1>7, <1>10, <1>11 DEF OrderOutcome

LEMMA TypeEntry ==
    ASSUME TypeOK, Shape, NEW t \in Threads, EntryOutcome(t)
    PROVE  TypeOK'
  <1> USE DEF venue, memory, disk, pass, request, entry, history
  <1>1. CASE BeginScan(t)
    <2>1. calls' \in 0..MaxCalls
      BY <1>1, CallsCounted DEF BeginScan, TypeOK
    <2>2. targets' \in [Threads -> SUBSET Underlyings] /\ scanning' \subseteq Threads
      BY <1>1 DEF BeginScan, TypeOK
    <2> QED
      BY <1>1, <2>1, <2>2 DEF BeginScan, Goto, TypeOK
  <1>2. \A c \in Contracts : [contract |-> c, trade |-> 0] \in Entries
    BY DEF Entries
  <1>3. CASE ScanEnters(t)
    <2>1. entering' \in [Threads -> Entries] /\ targets' \in [Threads -> SUBSET Underlyings]
      BY <1>2, <1>3 DEF ScanEnters, TypeOK, Entries
    <2> QED
      BY <1>3, <2>1 DEF ScanEnters, Goto, TypeOK, Entries
  <1>4. CASE EndScan(t)
    BY <1>4 DEF EndScan, Goto, TypeOK
  <1>5. CASE ForceEntry(t)
    <2>1. entering' \in [Threads -> Entries]
      BY <1>2, <1>5 DEF ForceEntry, TypeOK, Entries
    <2>2. calls' \in 0..MaxCalls
      BY <1>5, CallsCounted DEF ForceEntry
    <2> QED
      BY <1>5, <2>1, <2>2 DEF ForceEntry, Goto, TypeOK, Entries
  <1>6. AfterEntry(t) \in {"enter", "idle"}
    BY DEF AfterEntry
  <1>7. CASE GivesUp(t)
    <2>1. entering' \in [Threads -> Entries]
      BY <1>7, EmptyTypes DEF GivesUp, TypeOK, Entries
    <2>2. copy' \in [Threads -> Copies]
      BY <1>7, EmptyTypes DEF GivesUp, TypeOK, Copies
    <2> QED
      BY <1>6, <1>7, <2>1, <2>2 DEF GivesUp, TypeOK, Entries, Copies
  <1>8. CASE Assumes(t)
    BY <1>8 DEF Assumes, TypeOK
  <1>9. CASE LoadsEntry(t)
    <2>1. entering[t].contract \in Contracts
      BY <1>9 DEF LoadsEntry, Shape, EntryShape, Entering
    <2>2. AccountOf[entering[t].contract] \in Accounts
      BY <2>1, ConstantsAssumption
    <2> QED
      BY <1>9, <2>2 DEF LoadsEntry, Loads, TypeOK, OpenIn
  <1>10. CASE Covers(t)
    <2>1. PICK sold \in SUBSET (copy[t].lots \cap short) : Stores(t, copy[t].lots \ sold)
      BY <1>10 DEF Covers
    <2>2. copy[t].lots \subseteq Opened /\ UNCHANGED contract
      BY <1>10 DEF Covers, Shape, CopyShape
    <2>3. Opened' = Opened /\ Opened \subseteq Trades
      BY <2>2 DEF Opened
    <2>4. copy[t].lots \ sold \subseteq Opened'
      BY <2>2, <2>3
    <2>5. open' \subseteq Opened /\ copy' \in [Threads -> Copies] /\ torn' \in SUBSET Trades
      BY <2>1, <2>3, <2>4, StoreTypes
    <2> QED
      BY <1>10, <2>2, <2>5 DEF Covers, TypeOK, Opened, Copies
  <1>11. ASSUME NEW n \in Trades, Enters(t, n)
         PROVE  TypeOK'
    <2> DEFINE c == entering[t].contract
    <2>1. c \in Contracts /\ copy[t].lots \subseteq Opened /\ n \in Trades \ Opened
      BY <1>11, UnusedLots DEF Enters, Shape, EntryShape, CopyShape, Entering
    <2>2. contract' = [contract EXCEPT ![n] = c]
      BY <1>11 DEF Enters
    <2>3. contract' \in [Trades -> Contracts \cup {"none"}]
      BY <2>1, <2>2 DEF TypeOK
    <2>4. Opened' = Opened \cup {n}
      BY <2>1, <2>2, ConstantsAssumption DEF Opened, TypeOK
    <2>5. copy[t].lots \cup {n} \subseteq Opened' /\ Opened' \subseteq Trades
          /\ Opened \subseteq Opened'
      BY <2>1, <2>4 DEF Opened
    <2>6. Stores(t, copy[t].lots \cup {n})
      BY <1>11 DEF Enters
    <2>7. open' \subseteq Opened' /\ copy' \in [Threads -> Copies] /\ torn' \in SUBSET Trades
      BY <2>5, <2>6, StoreTypes
    <2>8. shaken' \in SUBSET Trades
      BY <1>11 DEF Enters, TypeOK, Beside
    <2>9. entering' \in [Threads -> Entries]
      <3>1. [contract |-> c, trade |-> n] \in Entries
        BY <2>1 DEF Entries
      <3> QED
        BY <1>11, <3>1 DEF Enters, TypeOK, Entries
    <2>10. open' \subseteq {m \in Trades : contract'[m] # "none"}
      BY <2>7 DEF Opened
    <2> QED
      BY <1>11, <2>3, <2>7, <2>8, <2>9, <2>10 DEF Enters, TypeOK, Copies, Entries
  <1>12. CASE Tracks(t) \/ TrackFails(t)
    <2>1. entering' \in [Threads -> Entries]
      BY <1>12, EmptyTypes DEF Tracks, TrackFails, Untangles, TypeOK, Entries
    <2>2. entering[t].trade \in Trades \cup {0} /\ entering[t].contract \in Contracts
      BY <1>12 DEF Tracks, TrackFails, Untangles, Shape, EntryShape, Entering, TypeOK
    <2>3. {shaken', raced'} \subseteq SUBSET Trades
      BY <1>12, <2>2 DEF Tracks, TrackFails, Untangles, TypeOK
    <2>4. tracking' \in [Contracts -> Records]
      BY <1>12, <2>2 DEF Tracks, TrackFails, TypeOK, Records
    <2>5. pc' \in [Threads -> {"idle", "read", "decide", "exit", "fill", "settle", "book",
                               "save", "mark", "write", "scan", "enter", "place",
                               "settleEntry", "track", "saveEntry", "answer"}]
      BY <1>6, <1>12 DEF Tracks, TrackFails, TypeOK
    <2>6. faults' \in 0..MaxFaults
      BY <1>12 DEF Tracks, TrackFails, TypeOK
    <2>7. UNCHANGED <<venue, forced, disk, pass, request, scanning, targets, torn, claimed>>
      BY <1>12 DEF Tracks, TrackFails, Untangles
    <2> QED
      BY <2>1, <2>3, <2>4, <2>5, <2>6, <2>7 DEF TypeOK, Entries
  <1> QED
    BY <1>1, <1>3, <1>4, <1>5, <1>7, <1>8, <1>9, <1>10, <1>11, <1>12 DEF EntryOutcome

LEMMA TypeOther ==
    ASSUME TypeOK, Shape,
           \/ \E t \in Threads : RequestOutcome(t)
           \/ LoopMonitors \/ Crash
    PROVE  TypeOK'
  <1> USE DEF venue, memory, disk, pass, request, entry, history
  <1>1. ASSUME NEW t \in Threads, NEW matches \in SUBSET Contracts,
               RequestExits(t, matches)
        PROVE  TypeOK'
    <2>1. calls' \in 0..MaxCalls
      BY <1>1, CallsCounted DEF RequestExits
    <2> QED
      BY <1>1, <2>1, ConstantsAssumption DEF RequestExits, BeginPass, Goto, Names, TypeOK
  <1>2. ASSUME NEW t \in Threads, Answer(t)
        PROVE  TypeOK'
    BY <1>2 DEF Answer, Goto, TypeOK
  <1>3. CASE LoopMonitors
    BY <1>3 DEF LoopMonitors, BeginPass, Goto, TypeOK
  <1>4. CASE Crash
    <2>1. /\ rebuilt' \in [Threads -> [Contracts -> Records]]
          /\ exiting' \in [Threads -> Exitings]
          /\ entering' \in [Threads -> Entries]
          /\ copy' \in [Threads -> Copies]
      BY <1>4, EmptyTypes DEF Crash
    <2>2. InFlight \subseteq Trades
      BY DEF InFlight, TypeOK
    <2>3. {exiting[t].trade : t \in {s \in Threads : pc[s] = "book"}} \subseteq Trades
      BY DEF Shape, PassShape, Aim, Opened
    <2>4. shaken' \in SUBSET Trades
      BY <1>4, <2>2, <2>3 DEF Crash, TypeOK
    <2>5. faults' \in 0..MaxFaults
      BY <1>4, FaultsCounted DEF Crash
    <2> QED
      BY <1>4, <2>1, <2>4, <2>5 DEF Crash, TypeOK, Exitings, Entries, Copies
  <1> QED
    BY <1>1, <1>2, <1>3, <1>4 DEF RequestOutcome

------------------------------------------------------------------------------
(* What each thread is looking at *)

LEMMA ShapeInit == Init => Shape
  BY DEF Init, Shape, PassShape, CopyShape, EntryShape, Aim, Exiting, Entering, Opened,
         InPass, NoEntry, NoCopy

LEMMA ShapePass ==
    ASSUME TypeOK, Shape, TypeOK', NEW t \in Threads, PassOutcome(t)
    PROVE  Shape'
  <1> USE DEF venue, memory, disk, pass, request, entry, history
  <1> USE DEF TypeOK, Shape, PassShape, CopyShape, EntryShape, Opened, Aim, InPass
  <1> USE DEF Exiting, Entering
  <1>1. ASSUME NEW a \in Accounts, Reads(t, a)
        PROVE  Shape'
    BY <1>1 DEF Reads, OpenIn
  <1>2. ASSUME NEW a \in Accounts, Skips(t, a)
        PROVE  Shape'
    BY <1>2 DEF Skips
  <1>3. ASSUME NEW n \in Trades, Exits(t, n)
        PROVE  Shape'
    <2>1. RecordFor(contract[n]) # "none"
      BY <1>3, RecordForSome DEF Exits
    <2> QED
      BY <1>3, <2>1 DEF Exits
  <1>4. ASSUME NEW n \in Trades, Keeps(t, n)
        PROVE  Shape'
    BY <1>4 DEF Keeps
  <1>5. CASE Replace(t)
    BY <1>5 DEF Replace, Goto
  <1>6. ASSUME NEW p \in AfterSave(t), Saves(t, p) \/ SaveFails(t, p)
        PROVE  Shape'
    BY <1>6 DEF Saves, SaveFails, AfterEntry
  <1>7. ASSUME NEW a \in Accounts, LoadsMarks(t, a)
        PROVE  Shape'
    BY <1>7 DEF LoadsMarks, Loads, OpenIn
  <1>8. CASE Writes(t)
    BY <1>8 DEF Writes, Stores, Store, NoCopy
  <1>9. ASSUME NEW p \in {"mark", "scan", "answer"}, Marks(t, p)
        PROVE  Shape'
    BY <1>9 DEF Marks
  <1> QED
    BY <1>1, <1>2, <1>3, <1>4, <1>5, <1>6, <1>7, <1>8, <1>9 DEF PassOutcome

LEMMA ShapeOrder ==
    ASSUME TypeOK, Shape, TypeOK', NEW t \in Threads, OrderOutcome(t)
    PROVE  Shape'
  <1> USE DEF venue, memory, disk, pass, request, entry, history
  <1> USE DEF TypeOK, Shape, PassShape, CopyShape, EntryShape, Opened, Aim, InPass
  <1> USE DEF Exiting, Entering
  <1>1. CASE Sends(t)
    BY <1>1 DEF Sends
  <1>2. CASE Refuses(t)
    BY <1>2 DEF Refuses, NoExit
  <1>3. CASE Raises(t)
    BY <1>3 DEF Raises, NoExit, NoCopy
  <1>4. CASE LoadsExit(t)
    BY <1>4 DEF LoadsExit, Loads, OpenIn
  <1>5. ASSUME NEW k \in Trades, Closes(t, k)
        PROVE  Shape'
    BY <1>5 DEF Closes, Stores, Store, NoCopy, SameSide
  <1>6. ASSUME NEW n \in Trades, Overruns(t, n)
        PROVE  Shape'
    <2>1. /\ pc[t] = "settle" /\ exiting[t].trade = n
          /\ pc' = [pc EXCEPT ![t] = "book"]
          /\ copy' = [copy EXCEPT ![t] = NoCopy]
          /\ torn \cup Unused \subseteq torn'
          /\ short' \subseteq short \cup Unused
          /\ UNCHANGED <<todo, asked, unread, exiting, entering, scanning, targets, claimed>>
      BY <1>6 DEF Overruns, Stores, Store
    <2>2. n \in Opened /\ contract[n] # "none" /\ Unused \subseteq Trades \ Opened
      <3> HIDE DEF TypeOK
      <3> QED
        BY <2>1, UnusedLots
    <2>3. /\ \A m \in Opened : contract'[m] = contract[m]
          /\ \A m \in Unused : contract'[m] = contract[n]
          /\ Opened' = Opened \cup Unused
      BY <1>6, <2>2 DEF Overruns
    <2>4. \A k, m \in Trades : k < m /\ m \in Opened' => k \in Opened'
      <3> SUFFICES ASSUME NEW k \in Trades, NEW m \in Trades, k < m, m \in Opened'
                   PROVE  k \in Opened'
        OBVIOUS
      <3>1. CASE m \in Opened
        BY <2>3, <3>1
      <3>2. CASE m \in Unused
        <4>1. k \in 1..(m - 1)
          BY Numbers
        <4> QED
          BY <2>3, <3>2, <4>1 DEF Unused
      <3> QED
        BY <2>3, <3>1, <3>2
    <2>5. ASSUME NEW s \in Threads
          PROVE  PassShape(s)' /\ CopyShape(s)' /\ EntryShape(s)'
      <3>1. \A m \in Opened : contract'[m] = contract[m] /\ m \in Opened'
        BY <2>3
      <3>2. PassShape(s)'
        BY <2>1, <2>3
      <3>3. CopyShape(s)'
        <4>1. copy'[s].lots \subseteq copy[s].lots
          BY <2>1 DEF NoCopy
        <4>2. copy[s].lots \subseteq {m \in Opened' : AccountOf[contract'[m]] = copy[s].account}
          BY <3>1
        <4>3. s # t => copy'[s] = copy[s] /\ pc'[s] = pc[s]
          BY <2>1
        <4>4. s = t => copy'[s].lots = {} /\ pc'[s] = "book"
          BY <2>1 DEF NoCopy
        <4>5. pc[s] = "settle" => exiting[s].trade \in Opened
          OBVIOUS
        <4> QED
          BY <2>1, <3>1, <4>2, <4>3, <4>4, <4>5
      <3>4. EntryShape(s)'
        <4>1. entering[s].trade # 0 => entering[s].trade \in Opened
          BY ConstantsAssumption
        <4>2. pc[s] = "settle" => entering[s].trade = 0 /\ s \notin scanning
          OBVIOUS
        <4>3. s # t => pc'[s] = pc[s]
          BY <2>1
        <4> QED
          BY <2>1, <3>1, <4>1, <4>2, <4>3
      <3> QED
        BY <3>2, <3>3, <3>4
    <2>6. claimed' \subseteq Opened' /\ short' \subseteq torn'
      BY <2>1, <2>3
    <2> HIDE DEF PassShape, CopyShape, EntryShape, Opened
    <2> QED
      BY <2>4, <2>5, <2>6
  <1>7. CASE Books(t)
    BY <1>7 DEF Books, NoExit
  <1>8. CASE BookRaises(t)
    BY <1>8 DEF BookRaises, NoExit
  <1> QED
    BY <1>1, <1>2, <1>3, <1>4, <1>5, <1>6, <1>7, <1>8 DEF OrderOutcome

LEMMA ShapeEntry ==
    ASSUME TypeOK, Shape, TypeOK', NEW t \in Threads, EntryOutcome(t)
    PROVE  Shape'
  <1> USE DEF venue, memory, disk, pass, request, entry, history
  <1> USE DEF TypeOK, Shape, PassShape, CopyShape, EntryShape, Opened, Aim, InPass
  <1> USE DEF Exiting, Entering
  <1>1. CASE BeginScan(t)
    BY <1>1 DEF BeginScan, Goto
  <1>2. CASE ScanEnters(t)
    <2>1. PICK c \in Contracts :
             /\ targets' = [targets EXCEPT ![t] = @ \ {UnderlyingOf[c]}]
             /\ entering' = [entering EXCEPT ![t] = [contract |-> c, trade |-> 0]]
      BY <1>2 DEF ScanEnters
    <2>2. entering'[t].contract = c /\ entering'[t].trade = 0
      BY <2>1
    <2>3. /\ pc[t] = "enter" /\ pc'[t] = "place"
          /\ targets'[t] = targets[t] \ {UnderlyingOf[c]}
          /\ \A s \in Threads \ {t} :
                pc'[s] = pc[s] /\ entering'[s] = entering[s] /\ targets'[s] = targets[s]
          /\ UNCHANGED <<contract, short, torn, copy, todo, asked, unread, exiting, claimed,
                         scanning>>
      BY <1>2, <2>1 DEF ScanEnters, Goto
    <2>4. ASSUME NEW s \in Threads
          PROVE  PassShape(s)' /\ CopyShape(s)' /\ EntryShape(s)'
      <3>1. CASE s = t
        <4>0. /\ pc'[t] \in {"place", "enter", "idle"}
              /\ pc[t] \in {"place", "settleEntry", "enter", "idle"}
          BY <2>2, <2>3, <3>1
        <4>1. PassShape(t)'
          <5>1. Aim(t)' = {} /\ ~InPass(t) /\ ~InPass(t)'
            BY <4>0
          <5>2. todo[t] = {} /\ unread[t] = {} /\ asked[t] \subseteq Opened
            BY <4>0
          <5> HIDE DEF Aim, InPass
          <5> QED
            BY <2>2, <2>3, <3>1, <4>0, <5>1, <5>2
        <4>2. CopyShape(t)'
          BY <2>2, <2>3, <3>1, <4>0
        <4>3. EntryShape(t)'
          BY <2>2, <2>3, <3>1
        <4> QED
          BY <3>1, <4>1, <4>2, <4>3
      <3>2. CASE s # t
        BY <2>3, <3>2
      <3> QED
        BY <3>1, <3>2
    <2> QED
      BY <2>3, <2>4
  <1>3. CASE EndScan(t)
    BY <1>3 DEF EndScan, Goto
  <1>4. CASE ForceEntry(t)
    <2>1. PICK c \in Contracts :
                entering' = [entering EXCEPT ![t] = [contract |-> c, trade |-> 0]]
      BY <1>4 DEF ForceEntry
    <2>2. entering'[t].contract = c /\ entering'[t].trade = 0
      BY <2>1
    <2>3. /\ pc[t] = "idle" /\ pc'[t] = "place"
          /\ \A s \in Threads \ {t} : pc'[s] = pc[s] /\ entering'[s] = entering[s]
          /\ UNCHANGED <<contract, short, torn, copy, todo, asked, unread, exiting, claimed,
                         scanning, targets>>
      BY <1>4, <2>1 DEF ForceEntry, Goto
    <2>4. ASSUME NEW s \in Threads
          PROVE  PassShape(s)' /\ CopyShape(s)' /\ EntryShape(s)'
      <3>1. CASE s = t
        <4>0. /\ pc'[t] \in {"place", "enter", "idle"}
              /\ pc[t] \in {"place", "settleEntry", "enter", "idle"}
          BY <2>2, <2>3, <3>1
        <4>1. PassShape(t)'
          <5>1. Aim(t)' = {} /\ ~InPass(t) /\ ~InPass(t)'
            BY <4>0
          <5>2. todo[t] = {} /\ unread[t] = {} /\ asked[t] \subseteq Opened
            BY <4>0
          <5> HIDE DEF Aim, InPass
          <5> QED
            BY <2>2, <2>3, <3>1, <4>0, <5>1, <5>2
        <4>2. CopyShape(t)'
          BY <2>2, <2>3, <3>1, <4>0
        <4>3. EntryShape(t)'
          BY <2>2, <2>3, <3>1
        <4> QED
          BY <3>1, <4>1, <4>2, <4>3
      <3>2. CASE s # t
        BY <2>3, <3>2
      <3> QED
        BY <3>1, <3>2
    <2> QED
      BY <2>3, <2>4
  <1>5. CASE GivesUp(t)
    <2>1. /\ pc[t] \in {"place", "settleEntry"}
          /\ pc' = [pc EXCEPT ![t] = IF t \in scanning THEN "enter" ELSE "idle"]
          /\ entering'[t].trade = 0
          /\ copy'[t].lots = {} \/ copy'[t] = copy[t]
          /\ \A s \in Threads \ {t} : copy'[s] = copy[s] /\ entering'[s] = entering[s]
          /\ UNCHANGED <<contract, short, torn, todo, asked, unread, exiting, claimed,
                         scanning, targets>>
      BY <1>5 DEF GivesUp, AfterEntry, NoEntry, NoCopy
    <2>2. ASSUME NEW s \in Threads
          PROVE  PassShape(s)' /\ CopyShape(s)' /\ EntryShape(s)'
      <3>1. CASE s = t
        <4>0. /\ pc'[t] \in {"place", "enter", "idle"}
              /\ pc[t] \in {"place", "settleEntry", "enter", "idle"}
          BY <2>1, <3>1
        <4>1. PassShape(t)'
          <5>1. Aim(t)' = {} /\ ~InPass(t) /\ ~InPass(t)'
            BY <4>0
          <5>2. todo[t] = {} /\ unread[t] = {} /\ asked[t] \subseteq Opened
            BY <4>0
          <5> HIDE DEF Aim, InPass
          <5> QED
            BY <2>1, <3>1, <4>0, <5>1, <5>2
        <4>2. CopyShape(t)'
          BY <2>1, <3>1, <4>0
        <4>3. EntryShape(t)'
          BY <2>1, <3>1
        <4> QED
          BY <3>1, <4>1, <4>2, <4>3
      <3>2. CASE s # t
        BY <2>1, <3>2
      <3> QED
        BY <3>1, <3>2
    <2> QED
      BY <2>1, <2>2
  <1>6. CASE Assumes(t)
    BY <1>6 DEF Assumes
  <1>7. CASE LoadsEntry(t)
    BY <1>7 DEF LoadsEntry, Loads, OpenIn
  <1>8. CASE Covers(t)
    BY <1>8 DEF Covers, Stores, Store, NoCopy
  <1>9. ASSUME NEW n \in Trades, Enters(t, n)
        PROVE  Shape'
    <2> DEFINE c == entering[t].contract
    <2>1. /\ pc[t] = "settleEntry" /\ c \in Contracts
          /\ pc' = [pc EXCEPT ![t] = "track"]
          /\ copy' = [copy EXCEPT ![t] = NoCopy]
          /\ torn \subseteq torn'
          /\ entering' = [entering EXCEPT ![t] = [contract |-> c, trade |-> n]]
          /\ UNCHANGED <<short, todo, asked, unread, exiting, scanning, targets, claimed>>
      BY <1>9 DEF Enters, Stores, Store
    <2>2. n \in Trades \ Opened /\ \A k \in 1..(n - 1) : contract[k] # "none"
      BY <1>9 DEF Enters, Unused
    <2>3. /\ \A m \in Opened : contract'[m] = contract[m]
          /\ contract'[n] = c
          /\ Opened' = Opened \cup {n}
      BY <1>9, <2>1, <2>2, ConstantsAssumption DEF Enters
    <2> HIDE DEF c
    <2>4. \A k, m \in Trades : k < m /\ m \in Opened' => k \in Opened'
      <3> SUFFICES ASSUME NEW k \in Trades, NEW m \in Trades, k < m, m \in Opened'
                   PROVE  k \in Opened'
        OBVIOUS
      <3>1. CASE m \in Opened
        BY <2>3, <3>1
      <3>2. CASE m = n
        <4>1. k \in 1..(m - 1)
          BY Numbers
        <4> QED
          BY <2>2, <2>3, <3>2, <4>1
      <3> QED
        BY <2>3, <3>1, <3>2
    <2>5. ASSUME NEW s \in Threads
          PROVE  PassShape(s)' /\ CopyShape(s)' /\ EntryShape(s)'
      <3>1. \A m \in Opened : contract'[m] = contract[m] /\ m \in Opened'
        BY <2>3
      <3>2. PassShape(s)'
        BY <2>1, <2>3
      <3>3. CopyShape(s)'
        <4>1. copy[s].lots \subseteq {m \in Opened' : AccountOf[contract'[m]] = copy[s].account}
          BY <3>1
        <4>2. s # t => copy'[s] = copy[s] /\ pc'[s] = pc[s] /\ entering'[s] = entering[s]
          BY <2>1
        <4>3. s = t => copy'[s].lots = {} /\ pc'[s] = "track"
          BY <2>1 DEF NoCopy
        <4>4. pc[s] = "settle" => exiting[s].trade \in Opened
          OBVIOUS
        <4> QED
          BY <2>1, <3>1, <4>1, <4>2, <4>3, <4>4
      <3>4. EntryShape(s)'
        <4>1. entering[s].trade # 0 => entering[s].trade \in Opened
          BY ConstantsAssumption
        <4>2. s = t => /\ pc'[s] = "track" /\ entering'[s].contract = c
                       /\ entering'[s].trade = n
          BY <2>1
        <4>3. s # t => pc'[s] = pc[s] /\ entering'[s] = entering[s]
          BY <2>1
        <4> QED
          BY <2>1, <2>3, <3>1, <4>1, <4>2, <4>3 DEF c
      <3> QED
        BY <3>2, <3>3, <3>4
    <2>6. claimed' \subseteq Opened' /\ short' \subseteq torn'
      BY <2>1, <2>3
    <2> HIDE DEF PassShape, CopyShape, EntryShape, Opened
    <2> QED
      BY <2>4, <2>5, <2>6
  <1>10. CASE Tracks(t)
    BY <1>10 DEF Tracks, Untangles, NoEntry
  <1>11. CASE TrackFails(t)
    BY <1>11 DEF TrackFails, Untangles, AfterEntry, NoEntry
  <1> QED
    BY <1>1, <1>2, <1>3, <1>4, <1>5, <1>6, <1>7, <1>8, <1>9, <1>10, <1>11 DEF EntryOutcome

LEMMA ShapeOther ==
    ASSUME TypeOK, Shape, TypeOK',
           \/ \E t \in Threads : RequestOutcome(t)
           \/ LoopMonitors \/ Crash
    PROVE  Shape'
  <1> USE DEF venue, memory, disk, pass, request, entry, history
  <1> USE DEF TypeOK, Shape, PassShape, CopyShape, EntryShape, Opened, Aim, InPass
  <1> USE DEF Exiting, Entering
  <1>1. ASSUME NEW t \in Threads, NEW matches \in SUBSET Contracts,
               RequestExits(t, matches)
        PROVE  Shape'
    BY <1>1 DEF RequestExits, BeginPass, Goto
  <1>2. ASSUME NEW t \in Threads, Answer(t)
        PROVE  Shape'
    BY <1>2 DEF Answer, Goto
  <1>3. CASE LoopMonitors
    BY <1>3, TheLoop DEF LoopMonitors, BeginPass, Goto
  <1>4. CASE Crash
    BY <1>4 DEF Crash, NoExit, NoEntry, NoCopy
  <1> QED
    BY <1>1, <1>2, <1>3, <1>4 DEF RequestOutcome

LEMMA EntersFlight ==
    ASSUME TypeOK, Shape, NEW t \in Threads, NEW n \in Trades, Enters(t, n)
    PROVE  InFlight' = InFlight \cup {n}
  <1>1. /\ entering[t].trade = 0 /\ entering'[t].trade = n
        /\ \A s \in Threads \ {t} : entering'[s] = entering[s]
    BY DEF Enters, TypeOK, Shape, EntryShape
  <1> QED
    BY <1>1, InFlightGrows

(* A trade that exits and book agree on is opened or closed by nothing but *)
(* the order of the thread that stores.                                    *)
LEMMA StoresKeep ==
    ASSUME TypeOK, Shape, NEW t \in Threads, NEW lots \in SUBSET Trades, Stores(t, lots),
           NEW m \in Trades, m \notin torn', m \in lots <=> m \in copy[t].lots
    PROVE  m \in open' <=> m \in open
  BY StoreKeeps DEF Stores

LEMMA ClosesFacts ==
    ASSUME TypeOK, Shape, NEW t \in Threads, NEW k \in Trades, Closes(t, k)
    PROVE  /\ \A m \in Trades : m \in open' => m \in open \cup torn'
           /\ \A m \in Trades : m \in open => m \in open' \cup torn' \cup {k}
           /\ k \in torn' \/ (k \in open /\ k \notin open')
           /\ torn \subseteq torn'
           /\ k \in copy[t].lots /\ contract[k] = contract[exiting[t].trade]
           /\ \A m \in Trades \ torn' :
                 m \in open /\ contract[m] = contract[k] => m \in copy[t].lots
  <1>1. copy[t].lots \in SUBSET Trades /\ k \in copy[t].lots
        /\ AccountOf[contract[k]] = copy[t].account /\ UNCHANGED contract
        /\ contract[k] = contract[exiting[t].trade]
    BY DEF TypeOK, Closes, SameSide, Shape, CopyShape
  <1>2. PICK lots \in SUBSET Trades :
           /\ Stores(t, lots)
           /\ \A m \in Trades \ {k} : m \in lots <=> m \in copy[t].lots
           /\ k \notin lots \/ k \in torn'
    <2>1. copy[t].lots \ {k} \in SUBSET Trades
      BY <1>1
    <2> QED
      BY <1>1, <2>1 DEF Closes
  <1>3. \A m \in Trades : m \notin torn' /\ m # k => (m \in open' <=> m \in open)
    BY <1>2, StoresKeep
  <1>4. k \notin lots => k \notin open'
    BY <1>1, <1>2, StoreApart DEF Stores
  <1>5. \A m \in Trades \ torn' :
           m \in open /\ contract[m] = contract[k] => m \in copy[t].lots
    BY <1>1, <1>2 DEF Stores, Outdated, OpenIn
  <1>6. \A m \in Trades \ torn' : m \in copy[t].lots => m \in open
    BY <1>2 DEF Stores, Outdated, OpenIn
  <1>7. k \in torn' \/ (k \in open /\ k \notin open')
    BY <1>1, <1>2, <1>4, <1>6
  <1>8. torn \subseteq torn'
    BY <1>2 DEF Stores
  <1>9. \A m \in Trades : m \in open' => m \in open \cup torn'
    BY <1>3, <1>7
  <1>10. \A m \in Trades : m \in open => m \in open' \cup torn' \cup {k}
    BY <1>3
  <1> QED
    BY <1>1, <1>5, <1>7, <1>8, <1>9, <1>10

LEMMA WritesFacts ==
    ASSUME TypeOK, Shape, NEW t \in Threads, Writes(t)
    PROVE  torn \subseteq torn' /\ \A m \in Trades \ torn' : m \in open' <=> m \in open
  <1>1. copy[t].lots \in SUBSET Trades
    BY DEF TypeOK
  <1> QED
    BY <1>1, StoresKeep DEF Writes, Stores

LEMMA OverrunsFacts ==
    ASSUME TypeOK, Shape, NEW t \in Threads, NEW n \in Trades, Overruns(t, n)
    PROVE  /\ torn \cup Unused \cup {n} \subseteq torn'
           /\ \A m \in Trades \ torn' : m \in open' <=> m \in open
           /\ \A m \in Opened : contract'[m] = contract[m]
           /\ \A m \in Unused : contract'[m] = contract[n]
           /\ n \in Opened /\ Unused \subseteq Trades \ Opened
           /\ AccountOf[contract[n]] = copy[t].account
  <1>1. n \in Opened /\ AccountOf[contract[n]] = copy[t].account
        /\ copy[t].lots \in SUBSET Trades /\ Unused \subseteq Trades \ Opened
    BY UnusedLots DEF Overruns, Shape, PassShape, CopyShape, Aim, Exiting, TypeOK
  <1>2. Stores(t, copy[t].lots \cup Unused) /\ Unused \cup {n} \subseteq torn'
    BY DEF Overruns
  <1>3. copy[t].lots \cup Unused \in SUBSET Trades
    BY <1>1
  <1>4. \A m \in Trades \ torn' : m \in open' <=> m \in open
    BY <1>2, <1>3, StoresKeep
  <1>5. /\ \A m \in Opened : contract'[m] = contract[m]
        /\ \A m \in Unused : contract'[m] = contract[n]
    BY <1>1 DEF Overruns, Opened
  <1> QED
    BY <1>1, <1>2, <1>4, <1>5 DEF Stores

LEMMA CoversFacts ==
    ASSUME TypeOK, Shape, NEW t \in Threads, Covers(t)
    PROVE  torn \subseteq torn' /\ \A m \in Trades \ torn' : m \in open' <=> m \in open
  <1>1. PICK sold \in SUBSET (copy[t].lots \cap short) : Stores(t, copy[t].lots \ sold)
    BY DEF Covers
  <1>2. copy[t].lots \ sold \in SUBSET Trades
    BY DEF TypeOK
  <1>3. sold \subseteq torn /\ torn \subseteq torn'
    BY <1>1 DEF Stores, Shape
  <1> QED
    BY <1>1, <1>2, <1>3, StoresKeep

LEMMA EntersFacts ==
    ASSUME TypeOK, Shape, NEW t \in Threads, NEW n \in Trades, Enters(t, n)
    PROVE  /\ torn \subseteq torn' /\ shaken \subseteq shaken'
           /\ \A m \in Trades \ torn' : m # n => (m \in open' <=> m \in open)
           /\ n \in Trades \ Opened
           /\ \A m \in Opened : contract'[m] = contract[m]
           /\ contract'[n] = entering[t].contract /\ entering[t].contract \in Contracts
           /\ AccountOf[entering[t].contract] = copy[t].account
  <1>1. /\ copy[t].lots \in SUBSET Trades /\ n \in Trades \ Opened
        /\ AccountOf[entering[t].contract] = copy[t].account
        /\ entering[t].contract \in Contracts
    BY UnusedLots DEF Enters, TypeOK, Shape, CopyShape, EntryShape, Entering
  <1>2. Stores(t, copy[t].lots \cup {n})
    BY DEF Enters
  <1>3. copy[t].lots \cup {n} \in SUBSET Trades
    BY <1>1
  <1>4. \A m \in Trades \ torn' : m # n => (m \in open' <=> m \in open)
    BY <1>2, <1>3, StoresKeep
  <1>5. contract' = [contract EXCEPT ![n] = entering[t].contract]
    BY DEF Enters
  <1>6. contract'[n] = entering[t].contract /\ \A m \in Opened : contract'[m] = contract[m]
    BY <1>1, <1>5 DEF TypeOK, Opened
  <1> QED
    BY <1>1, <1>2, <1>4, <1>6 DEF Enters, Stores

------------------------------------------------------------------------------
(* Records *)

LEMMA RecordsInit == Init => RecordsKept
  BY DEF Init, RecordsKept, SharedShaken, SharedIn, OpenKeepsRecord, SavedKeeps, PassKeeps,
         BareShaken, Settled, Aim, Exiting, InPass, NoCopy

LEMMA SharedStored ==
    ASSUME TypeOK, Shape, SharedShaken, NEW t \in Threads,
           NEW lots, lots \subseteq copy[t].lots, Store(t, lots),
           UNCHANGED contract, shaken \cup torn \subseteq shaken' \cup torn'
    PROVE  SharedShaken'
  <1>0. lots \in SUBSET Trades
    BY DEF TypeOK
  <1>1. ASSUME NEW m \in open', NEW n \in open', contract[m] = contract[n], m # n
        PROVE  m \in shaken \cup torn
    <2>1. CASE m \in lots /\ n \in lots
      BY <1>1, <2>1 DEF SharedShaken, SharedIn
    <2>2. CASE m \notin lots /\ n \notin lots
      <3>1. m \in open /\ n \in open
        BY <1>0, <2>2, StoreApart
      <3> QED
        BY <1>1, <3>1 DEF SharedShaken, SharedIn
    <2>3. \A k \in lots : AccountOf[contract[k]] = copy[t].account
      BY DEF Shape, CopyShape
    <2>4. \A k \in open' : k \notin lots => AccountOf[contract[k]] # copy[t].account
      BY <1>0, StoreApart
    <2> QED
      BY <1>1, <2>1, <2>2, <2>3, <2>4
  <1>2. SharedIn(open)'
    BY <1>1 DEF SharedIn
  <1>3. ASSUME NEW s \in Threads
        PROVE  SharedIn(copy[s].lots)'
    <2>1. copy'[s].lots \subseteq copy[s].lots
      BY DEF Store, NoCopy, TypeOK
    <2> QED
      BY <2>1 DEF SharedShaken, SharedIn
  <1> QED
    BY <1>2, <1>3 DEF SharedShaken

(* Steps of which a thread, and the dictionary, know nothing.              *)
LEMMA SettledFrame ==
    ASSUME TypeOK, shaken \cup torn \subseteq shaken' \cup torn', InFlight \subseteq InFlight',
           \A m \in Trades : m \in open' => m \in open \cup torn' \cup InFlight',
           open' \subseteq Trades
    PROVE  Settled' \subseteq Settled
  BY DEF Settled

LEMMA RecordFrame ==
    ASSUME TypeOK, OpenKeepsRecord, SavedKeeps, Settled' \subseteq Settled,
           \A m \in Opened : contract'[m] = contract[m],
           UNCHANGED <<tracking, saved>>,
           \A s \in Threads : pc[s] = "saveEntry" => pc'[s] = "saveEntry"
    PROVE  OpenKeepsRecord' /\ SavedKeeps'
  <1>1. Settled \subseteq Opened
    BY DEF Settled, TypeOK, Opened
  <1>2. \A m \in Settled' : m \in Settled /\ contract'[m] = contract[m]
    BY <1>1
  <1> QED
    BY <1>2 DEF OpenKeepsRecord, SavedKeeps, Settled

LEMMA KeepsFrame ==
    ASSUME TypeOK, Shape, NEW s \in Threads, PassKeeps(s), Settled' \subseteq Settled,
           \A m \in Opened : contract'[m] = contract[m],
           pc'[s] = pc[s], todo'[s] = todo[s], rebuilt'[s] = rebuilt[s],
           unread'[s] = unread[s], exiting'[s] = exiting[s]
    PROVE  PassKeeps(s)'
  <1>1. Settled \subseteq Opened /\ todo[s] \cup Aim(s) \subseteq Opened
    BY DEF Settled, TypeOK, Opened, Shape, PassShape
  <1>2. Aim(s)' = Aim(s) /\ InPass(s)' = InPass(s)
    BY DEF Aim, InPass
  <1>3. \A m \in Settled' : m \in Settled /\ contract'[m] = contract[m]
    BY <1>1
  <1>4. \A m \in todo[s] \cup Aim(s) : contract'[m] = contract[m]
    BY <1>1
  <1> HIDE DEF Aim, InPass, Settled
  <1> QED
    BY <1>2, <1>3, <1>4 DEF PassKeeps

LEMMA BareFrame ==
    ASSUME TypeOK, Shape, NEW s \in Threads, BareShaken(s),
           shaken \cup torn \subseteq shaken' \cup torn',
           \A m \in Opened : m \in open' => m \in open \cup torn',
           \A m \in Opened : m \in InFlight' => m \in InFlight,
           pc'[s] = pc[s], todo'[s] = todo[s], exiting'[s] = exiting[s]
    PROVE  BareShaken(s)'
  <1>1. todo[s] \cup Aim(s) \subseteq Opened
    BY DEF Shape, PassShape
  <1>2. Aim(s)' = Aim(s)
    BY DEF Aim
  <1>3. todo'[s] \cap open' \cap InFlight' \subseteq shaken' \cup torn'
    BY <1>1 DEF BareShaken
  <1>4. ASSUME NEW n \in Aim(s), exiting[s].rec = "bare", pc[s] \in Exiting => n \in open'
        PROVE  n \in shaken' \cup torn'
    <2>1. n \in Opened
      BY <1>1
    <2>2. CASE pc[s] \in Exiting => n \in open
      BY <1>4, <2>2 DEF BareShaken
    <2>3. CASE pc[s] \in Exiting /\ n \notin open
      BY <1>4, <2>1, <2>3
    <2> QED
      BY <2>2, <2>3
  <1> QED
    BY <1>2, <1>3, <1>4 DEF BareShaken

LEMMA RecordsPass ==
    ASSUME TypeOK, Shape, TypeOK', Shape', RecordsKept, NEW t \in Threads, PassOutcome(t)
    PROVE  RecordsKept'
  <1> USE DEF venue, memory, disk, pass, request, entry, history
  <1> USE DEF TypeOK, Shape, PassShape, Opened, Aim, InPass, Settled, InFlight, Exiting
  <1> USE DEF RecordsKept, SharedShaken, SharedIn, OpenKeepsRecord, SavedKeeps, PassKeeps,
              BareShaken
  <1>1. ASSUME NEW a \in Accounts, Reads(t, a)
        PROVE  RecordsKept'
    <2>1. PICK seen \in SUBSET OpenIn(a) :
             /\ OnePerSymbol(seen, OpenIn(a))
             /\ todo' = [todo EXCEPT ![t] = @ \cup seen]
      BY <1>1 DEF Reads
    <2>2. /\ pc[t] = "read" /\ pc'[t] \in {"read", "decide"}
          /\ unread'[t] = unread[t] \ {a}
          /\ todo'[t] = todo[t] \cup seen
          /\ \A s \in Threads \ {t} :
                pc'[s] = pc[s] /\ unread'[s] = unread[s] /\ todo'[s] = todo[s]
          /\ UNCHANGED <<contract, open, copy, torn, tracking, saved, rebuilt, exiting,
                         entering>>
      BY <1>1, <2>1 DEF Reads
    <2>3. shaken' = shaken \cup (OpenIn(a) \cap InFlight) /\ InFlight' = InFlight
      BY <1>1, <2>2 DEF Reads
    <2>4. Settled' \subseteq Settled
      BY <2>2, <2>3
    <2>5. SharedShaken' /\ OpenKeepsRecord' /\ SavedKeeps'
      BY <2>2, <2>3, <2>4
    <2>6. ASSUME NEW s \in Threads \ {t}
          PROVE  PassKeeps(s)' /\ BareShaken(s)'
      BY <2>2, <2>3, <2>4
    <2>7. OpenIn(a) = {n \in open : AccountOf[contract[n]] = a}
      BY DEF OpenIn
    <2>8. BareShaken(t)'
      BY <2>1, <2>2, <2>3, <2>7
    <2>9. PassKeeps(t)'
      <3>1. Aim(t)' = {}
        BY <2>2
      <3>2. ASSUME NEW n \in Settled'
            PROVE  /\ \/ AccountOf[contract'[n]] \in unread'[t]
                      \/ n \in todo'[t]
                      \/ rebuilt'[t][contract'[n]] = "full"
                   /\ \A m \in todo'[t] : contract'[m] = contract'[n] => m = n
        <4>1. n \in Settled /\ n \in open
          BY <2>4
        <4>2. \A m \in open : contract[m] = contract[n] => m = n
          BY <4>1
        <4>3. AccountOf[contract[n]] = a => n \in seen
          BY <2>1, <2>7, <4>1, <4>2 DEF OnePerSymbol
        <4>4. \A m \in seen : contract[m] = contract[n] => m = n
          BY <2>7, <4>2
        <4>5. \/ AccountOf[contract[n]] \in unread[t]
              \/ n \in todo[t]
              \/ rebuilt[t][contract[n]] = "full"
          BY <2>2, <4>1
        <4>6. \A m \in todo[t] : contract[m] = contract[n] => m = n
          BY <4>1
        <4> QED
          BY <2>2, <4>3, <4>4, <4>5, <4>6
      <3> QED
        BY <3>1, <3>2
    <2> HIDE DEF SharedShaken, OpenKeepsRecord, SavedKeeps, PassKeeps, BareShaken
    <2> QED
      BY <2>5, <2>6, <2>8, <2>9
  <1>2. ASSUME NEW a \in Accounts, Skips(t, a)
        PROVE  RecordsKept'
    BY <1>2 DEF Skips, OpenIn
  <1>3. ASSUME NEW n \in Trades, Exits(t, n)
        PROVE  RecordsKept'
    <2>1. /\ pc[t] = "decide" /\ pc'[t] = "exit" /\ n \in todo[t] /\ unread[t] = {}
          /\ todo'[t] = todo[t] \ {n}
          /\ exiting'[t].trade = n /\ exiting'[t].rec = RecordFor(contract[n])
          /\ \A s \in Threads \ {t} :
                pc'[s] = pc[s] /\ exiting'[s] = exiting[s] /\ todo'[s] = todo[s]
          /\ UNCHANGED <<contract, open, copy, tracking, saved, shaken, torn, entering, unread,
                         rebuilt>>
      BY <1>3 DEF Exits
    <2>2. Settled' = Settled /\ InFlight' = InFlight
      BY <2>1
    <2>3. Aim(t) = {} /\ Aim(t)' = {n} /\ InPass(t)
      BY <2>1
    <2>4. ~(exiting'[t].rec = "bare" /\ tracking[contract[n]] = "full")
      BY <2>1 DEF RecordFor
    <2>5. \A s \in Threads \ {t} : Aim(s)' = Aim(s) /\ InPass(s)' = InPass(s)
      <3> SUFFICES ASSUME NEW s \in Threads \ {t}
                   PROVE  Aim(s)' = Aim(s) /\ InPass(s)' = InPass(s)
        OBVIOUS
      <3>1. pc'[s] = pc[s] /\ exiting'[s] = exiting[s]
        BY <2>1
      <3> HIDE DEF TypeOK, Shape, PassShape, Settled, InFlight, SharedShaken, OpenKeepsRecord,
                   SavedKeeps, PassKeeps, BareShaken
      <3> QED
        BY <3>1
    <2> HIDE DEF Aim, InPass, InFlight, TypeOK, Shape, PassShape
    <2>6. SharedShaken' /\ OpenKeepsRecord' /\ SavedKeeps'
      BY <2>1, <2>2
    <2>7. ASSUME NEW s \in Threads \ {t}
          PROVE  PassKeeps(s)' /\ BareShaken(s)'
      <3> HIDE DEF Settled, SharedShaken, SharedIn, OpenKeepsRecord, SavedKeeps
      <3> QED
        BY <2>1, <2>2, <2>5
    <2>8. BareShaken(t)'
      BY <2>1, <2>2, <2>3, <2>4
    <2>9. PassKeeps(t)'
      <3> HIDE DEF Settled, SharedShaken, SharedIn, OpenKeepsRecord, SavedKeeps, BareShaken
      <3>1. \A m \in Settled : m \in todo[t] \/ rebuilt[t][contract[m]] = "full"
        BY <2>1, <2>3
      <3> QED
        BY <2>1, <2>2, <2>3, <3>1
    <2> HIDE DEF SharedShaken, OpenKeepsRecord, SavedKeeps, PassKeeps, BareShaken
    <2> QED
      BY <2>6, <2>7, <2>8, <2>9
  <1>4. ASSUME NEW n \in Trades, Keeps(t, n)
        PROVE  RecordsKept'
    BY <1>4 DEF Keeps, RecordFor
  <1>5. CASE Replace(t)
    <2>1. /\ pc[t] = "decide" /\ todo[t] = {} /\ pc'[t] = "save"
          /\ tracking' = rebuilt[t]
          /\ \A s \in Threads \ {t} : pc'[s] = pc[s] /\ rebuilt'[s] = rebuilt[s]
          /\ UNCHANGED <<contract, open, copy, saved, shaken, torn, entering, unread, todo,
                         exiting>>
      BY <1>5 DEF Replace, Goto
    <2>2. \A n \in Settled : rebuilt[t][contract[n]] = "full"
      BY <2>1
    <2>3. SharedShaken' /\ OpenKeepsRecord' /\ SavedKeeps'
      BY <2>1, <2>2
    <2>4. ASSUME NEW s \in Threads
          PROVE  PassKeeps(s)' /\ BareShaken(s)'
      BY <2>1
    <2> QED
      BY <2>3, <2>4
  <1>6. ASSUME NEW p \in AfterSave(t), Saves(t, p) \/ SaveFails(t, p)
        PROVE  RecordsKept'
    <2>1. /\ pc[t] \in {"save", "saveEntry"} /\ pc'[t] = p
          /\ p \in {"mark", "enter", "idle"}
          /\ \A s \in Threads \ {t} : pc'[s] = pc[s]
          /\ UNCHANGED <<contract, open, copy, tracking, torn, entering, unread, todo,
                         rebuilt, exiting>>
          /\ \/ saved' = tracking /\ shaken' = shaken
             \/ saved' = saved /\ shaken' = shaken \cup open
      BY <1>6 DEF Saves, SaveFails, AfterSave, AfterEntry
    <2>2. InFlight' = InFlight /\ Settled' \subseteq Settled
      BY <2>1
    <2>3. SharedShaken' /\ OpenKeepsRecord'
      BY <2>1, <2>2
    <2>4. SavedKeeps'
      <3>1. CASE saved' = tracking
        BY <2>1, <2>2, <3>1
      <3>2. CASE shaken' = shaken \cup open
        BY <2>1, <3>2
      <3> QED
        BY <2>1, <3>1, <3>2
    <2>5. /\ Aim(t)' = {} /\ todo'[t] = {} /\ ~InPass(t)'
          /\ \A s \in Threads \ {t} : Aim(s)' = Aim(s) /\ InPass(s)' = InPass(s)
      BY <2>1
    <2> HIDE DEF Aim, InPass, InFlight, Settled, TypeOK, Shape, PassShape
    <2>6. PassKeeps(t)' /\ BareShaken(t)'
      BY <2>5
    <2>7. ASSUME NEW s \in Threads \ {t}
          PROVE  PassKeeps(s)' /\ BareShaken(s)'
      <3> HIDE DEF SharedShaken, SharedIn, OpenKeepsRecord, SavedKeeps
      <3> QED
        BY <2>1, <2>2, <2>5
    <2> HIDE DEF SharedShaken, OpenKeepsRecord, SavedKeeps, PassKeeps, BareShaken
    <2> QED
      BY <2>3, <2>4, <2>6, <2>7
  <1>7. ASSUME NEW a \in Accounts, LoadsMarks(t, a)
        PROVE  RecordsKept'
    BY <1>7 DEF LoadsMarks, Loads, OpenIn
  <1>8. CASE Writes(t)
    <2> HIDE DEF TypeOK, Shape, PassShape, Opened, Aim, InPass, Settled, InFlight, Exiting,
                 SharedShaken, SharedIn, OpenKeepsRecord, SavedKeeps, PassKeeps, BareShaken
    <2>1. /\ pc[t] = "write" /\ pc' = [pc EXCEPT ![t] = "mark"]
          /\ UNCHANGED <<contract, tracking, saved, rebuilt, exiting, entering, unread, todo,
                         shaken>>
          /\ Store(t, copy[t].lots)
      BY <1>8 DEF Writes, Stores
    <2>2. torn \subseteq torn' /\ \A m \in Trades \ torn' : m \in open' <=> m \in open
      BY <1>8, WritesFacts
    <2>3. InFlight' = InFlight
      BY <2>1 DEF InFlight
    <2>4. \A m \in Trades : m \in open' => m \in open \cup torn'
      BY <2>2
    <2>5. Settled' \subseteq Settled
      BY <2>1, <2>2, <2>3, <2>4, SettledFrame DEF TypeOK
    <2>6. SharedShaken'
      BY <2>1, <2>2, SharedStored
    <2>7. \A m \in Opened : contract'[m] = contract[m]
      BY <2>1
    <2>8. pc'[t] = "mark" /\ \A s \in Threads \ {t} : pc'[s] = pc[s]
      BY <2>1 DEF TypeOK
    <2>9. OpenKeepsRecord' /\ SavedKeeps'
      BY <2>1, <2>5, <2>7, <2>8, RecordFrame
    <2>10. ASSUME NEW s \in Threads \ {t}
           PROVE  PassKeeps(s)' /\ BareShaken(s)'
      BY <2>1, <2>2, <2>3, <2>4, <2>5, <2>7, <2>8, KeepsFrame, BareFrame DEF Opened
    <2>11. PassKeeps(t)' /\ BareShaken(t)'
      <3>1. todo'[t] = {} /\ ~InPass(t)' /\ Aim(t)' = {}
        BY <2>1, <2>8 DEF InPass, Aim, Exiting, Shape, PassShape
      <3> QED
        BY <3>1 DEF PassKeeps, BareShaken
    <2> QED
      BY <2>6, <2>9, <2>10, <2>11
  <1>9. ASSUME NEW p \in {"mark", "scan", "answer"}, Marks(t, p)
        PROVE  RecordsKept'
    BY <1>9 DEF Marks
  <1> QED
    BY <1>1, <1>2, <1>3, <1>4, <1>5, <1>6, <1>7, <1>8, <1>9 DEF PassOutcome

LEMMA RecordsOrder ==
    ASSUME TypeOK, Shape, TypeOK', Shape', RecordsKept, NEW t \in Threads, OrderOutcome(t)
    PROVE  RecordsKept'
  <1> USE DEF venue, memory, disk, pass, request, entry, history
  <1> USE DEF TypeOK, Shape, PassShape, Opened, Aim, InPass, Settled, InFlight, Exiting
  <1> USE DEF RecordsKept, SharedShaken, SharedIn, OpenKeepsRecord, SavedKeeps, PassKeeps,
              BareShaken
  <1>1. CASE Sends(t)
    <2>1. /\ pc[t] = "exit" /\ pc'[t] = "fill"
          /\ \A s \in Threads \ {t} : pc'[s] = pc[s]
          /\ UNCHANGED <<contract, open, copy, tracking, saved, shaken, torn, entering, unread,
                         todo, rebuilt, exiting>>
      BY <1>1 DEF Sends
    <2>2. InFlight' = InFlight /\ Settled' = Settled
      BY <2>1
    <2>3. SharedShaken' /\ OpenKeepsRecord' /\ SavedKeeps'
      BY <2>1, <2>2
    <2>4. \A s \in Threads : /\ Aim(s)' = Aim(s) /\ InPass(s)' = InPass(s)
                             /\ pc'[s] \in Exiting <=> pc[s] \in Exiting
      BY <2>1
    <2> HIDE DEF Aim, InPass, InFlight, Settled, Exiting, TypeOK, Shape, PassShape,
                 SharedShaken, SharedIn, OpenKeepsRecord, SavedKeeps
    <2>5. ASSUME NEW s \in Threads
          PROVE  PassKeeps(s)' /\ BareShaken(s)'
      BY <2>1, <2>2, <2>4
    <2> HIDE DEF PassKeeps, BareShaken
    <2> QED
      BY <2>3, <2>5
  <1>2. CASE Refuses(t)
    BY <1>2 DEF Refuses, NoExit, Lots
  <1>3. CASE Raises(t)
    <2> DEFINE c == contract[exiting[t].trade]
    <2>1. ASSUME NEW n \in Settled, contract[n] = c
          PROVE  exiting[t].rec = "full"
      <3>1. exiting[t].trade = n /\ pc[t] \in Exiting
        BY <1>3, <2>1 DEF Raises
      <3>2. exiting[t].rec \notin {"none", "bare"} /\ exiting[t].rec \in Records
        BY <3>1
      <3> QED
        BY <3>2 DEF Records
    <2>2. \A n \in Settled : contract[n] = c => rebuilt'[t][contract[n]] = "full"
      BY <1>3, <2>1 DEF Raises
    <2>3. \A n \in Settled : contract[n] # c => rebuilt'[t][contract[n]] = rebuilt[t][contract[n]]
      BY <1>3 DEF Raises
    <2>4. /\ pc[t] \in Exiting /\ pc'[t] = "decide"
          /\ \A s \in Threads \ {t} : /\ pc'[s] = pc[s] /\ exiting'[s] = exiting[s]
                                      /\ rebuilt'[s] = rebuilt[s]
          /\ \A s \in Threads : copy'[s].lots \subseteq copy[s].lots
          /\ UNCHANGED <<contract, open, tracking, saved, shaken, torn, entering, unread,
                         todo>>
      BY <1>3 DEF Raises, NoCopy
    <2> HIDE DEF c
    <2>5. SharedShaken' /\ OpenKeepsRecord' /\ SavedKeeps'
      BY <2>4
    <2>6. ASSUME NEW s \in Threads
          PROVE  PassKeeps(s)' /\ BareShaken(s)'
      <3>1. CASE s = t
        BY <2>2, <2>3, <2>4, <3>1 DEF c
      <3>2. CASE s # t
        <4>1. Settled' = Settled /\ InFlight' = InFlight
          BY <2>4
        <4>2. /\ Aim(s)' = Aim(s) /\ InPass(s)' = InPass(s)
              /\ pc'[s] = pc[s] /\ exiting'[s] = exiting[s] /\ rebuilt'[s] = rebuilt[s]
          BY <2>4, <3>2
        <4> HIDE DEF Aim, InPass, Settled, InFlight, SharedShaken, OpenKeepsRecord, SavedKeeps
        <4> QED
          BY <2>4, <4>1, <4>2
      <3> QED
        BY <3>1, <3>2
    <2> HIDE DEF SharedShaken, OpenKeepsRecord, SavedKeeps, PassKeeps, BareShaken
    <2> QED
      BY <2>5, <2>6
  <1>4. CASE LoadsExit(t)
    BY <1>4 DEF LoadsExit, Loads, OpenIn
  <1>5. ASSUME NEW k \in Trades, Closes(t, k)
        PROVE  RecordsKept'
    <2> HIDE DEF TypeOK, Shape, PassShape, Opened, Aim, InPass, Settled, InFlight, Exiting,
                 SharedShaken, SharedIn, OpenKeepsRecord, SavedKeeps, PassKeeps, BareShaken
    <2> DEFINE e == exiting[t].trade
    <2>1. /\ pc[t] = "settle" /\ pc' = [pc EXCEPT ![t] = "book"]
          /\ UNCHANGED <<contract, tracking, saved, rebuilt, entering, unread, todo>>
          /\ exiting' = [exiting EXCEPT ![t] = [trade |-> k, rec |-> exiting[t].rec]]
          /\ shaken' = shaken \cup ({k} \ {e})
      BY <1>5 DEF Closes
    <2>2. /\ \A m \in Trades : m \in open' => m \in open \cup torn'
          /\ k \in torn' \/ (k \in open /\ k \notin open')
          /\ torn \subseteq torn'
          /\ k \in copy[t].lots /\ contract[k] = contract[e]
          /\ \A m \in Trades \ torn' :
                m \in open /\ contract[m] = contract[k] => m \in copy[t].lots
      BY <1>5, ClosesFacts
    <2> HIDE DEF e
    <2>3. InFlight' = InFlight /\ shaken \cup torn \subseteq shaken' \cup torn'
      BY <2>1, <2>2 DEF InFlight
    <2>4. Settled' \subseteq Settled
      BY <2>2, <2>3, SettledFrame DEF TypeOK
    <2>5. SharedShaken'
      <3>1. PICK lots : lots \subseteq copy[t].lots /\ Store(t, lots)
        BY <1>5 DEF Closes, Stores
      <3> QED
        BY <2>1, <2>3, <3>1, SharedStored
    <2>6. \A m \in Opened : contract'[m] = contract[m]
      BY <2>1
    <2>7. /\ pc'[t] = "book" /\ exiting'[t].trade = k /\ exiting'[t].rec = exiting[t].rec
          /\ \A s \in Threads \ {t} : pc'[s] = pc[s] /\ exiting'[s] = exiting[s]
      BY <2>1 DEF TypeOK
    <2>8. OpenKeepsRecord' /\ SavedKeeps'
      BY <2>1, <2>4, <2>6, <2>7, RecordFrame
    <2>9. ASSUME NEW s \in Threads \ {t}
          PROVE  PassKeeps(s)' /\ BareShaken(s)'
      BY <2>1, <2>2, <2>3, <2>4, <2>6, <2>7, KeepsFrame, BareFrame DEF Opened
    <2>10. Aim(t) = {e} /\ Aim(t)' = {k} /\ pc[t] \in Exiting /\ pc'[t] \notin Exiting
      BY <2>1, <2>7 DEF Aim, Exiting, e
    <2>11. ASSUME NEW n \in Settled', contract[n] = contract[k]
           PROVE  FALSE
      <3>1. n \in Settled /\ n \in open /\ n \in open' /\ n \notin torn' /\ n \in Trades
            /\ n \notin shaken \cup torn
        BY <2>4 DEF Settled, TypeOK
      <3>2. n = e
        BY <2>2, <2>10, <2>11, <3>1 DEF PassKeeps
      <3>3. n # k
        BY <2>2, <3>1
      <3>4. n \in copy[t].lots
        BY <2>2, <2>11, <3>1
      <3> QED
        BY <2>2, <2>11, <3>1, <3>3, <3>4 DEF SharedShaken, SharedIn
    <2>12. PassKeeps(t)'
      <3>1. ASSUME NEW n \in Settled'
            PROVE  /\ n \in todo'[t] \/ rebuilt'[t][contract'[n]] = "full"
                   /\ \A m \in todo'[t] \cup Aim(t)' : contract'[m] = contract'[n] => m = n
        <4>1. n \in Settled /\ n # e
          BY <2>2, <2>4, <2>11
        <4>2. n \in todo[t] \/ rebuilt[t][contract[n]] = "full"
          BY <2>1, <2>7, <4>1 DEF PassKeeps, InPass, e, Shape, PassShape
        <4>3. \A m \in todo[t] : contract[m] = contract[n] => m = n
          BY <4>1 DEF PassKeeps
        <4> QED
          BY <2>1, <2>10, <2>11, <4>2, <4>3
      <3> QED
        BY <3>1 DEF PassKeeps
    <2>13. BareShaken(t)'
      <3>1. todo[t] \subseteq Trades
        BY DEF TypeOK
      <3>2. todo'[t] \cap open' \cap InFlight' \subseteq shaken' \cup torn'
        BY <2>1, <2>2, <2>3, <3>1 DEF BareShaken
      <3>3. exiting[t].rec = "bare" => k \in shaken' \cup torn'
        <4> SUFFICES ASSUME exiting[t].rec = "bare", k \notin torn', k = e
                     PROVE  k \in shaken' \cup torn'
          BY <2>1
        <4> QED
          BY <2>2, <2>3, <2>10 DEF BareShaken
      <3> QED
        BY <2>7, <2>10, <3>2, <3>3 DEF BareShaken
    <2> QED
      BY <2>5, <2>8, <2>9, <2>12, <2>13
  <1>6. ASSUME NEW n \in Trades, Overruns(t, n)
        PROVE  RecordsKept'
    <2> HIDE DEF TypeOK, Shape, PassShape, Opened, Aim, InPass, Settled, InFlight, Exiting,
                 SharedShaken, SharedIn, OpenKeepsRecord, SavedKeeps, PassKeeps, BareShaken
    <2>1. /\ pc[t] = "settle" /\ pc' = [pc EXCEPT ![t] = "book"]
          /\ exiting[t].trade = n
          /\ UNCHANGED <<tracking, saved, rebuilt, entering, unread, todo, exiting>>
          /\ shaken' = shaken \cup {m \in copy[t].lots : contract[m] = contract[n]}
          /\ Store(t, copy[t].lots \cup Unused)
      BY <1>6 DEF Overruns, Stores
    <2>2. /\ torn \cup Unused \cup {n} \subseteq torn'
          /\ \A m \in Trades \ torn' : m \in open' <=> m \in open
          /\ \A m \in Opened : contract'[m] = contract[m]
          /\ \A m \in Unused : contract'[m] = contract[n]
          /\ n \in Opened /\ Unused \subseteq Trades \ Opened
          /\ AccountOf[contract[n]] = copy[t].account
      BY <1>6, OverrunsFacts
    <2>3. InFlight' = InFlight /\ shaken \cup torn \subseteq shaken' \cup torn'
      BY <2>1, <2>2 DEF InFlight
    <2>4. \A m \in Trades : m \in open' => m \in open \cup torn'
      BY <2>2
    <2>5. Settled' \subseteq Settled
      BY <2>3, <2>4, SettledFrame DEF TypeOK
    <2>6. SharedIn(open)'
      <3> SUFFICES ASSUME NEW k \in open', NEW m \in open', contract'[k] = contract'[m], k # m
                   PROVE  k \in shaken' \cup torn'
        BY DEF SharedIn
      <3>1. copy[t].lots \cup Unused \in SUBSET Trades
        BY <2>2 DEF TypeOK
      <3>2. \A l \in open' : \/ l \in Unused
                             \/ l \in copy[t].lots
                             \/ l \in open /\ AccountOf[contract[l]] # copy[t].account
        BY <2>1, <3>1, StoreApart
      <3>3. \A l \in copy[t].lots : l \in Opened /\ AccountOf[contract[l]] = copy[t].account
        BY DEF Shape, CopyShape
      <3>4. open \subseteq Opened
        BY DEF TypeOK, Opened
      <3>5. CASE k \in Unused
        BY <2>2, <3>5
      <3>6. CASE k \notin Unused /\ m \in Unused
        <4>1. k \in Opened /\ contract[k] = contract[n]
          BY <2>2, <3>2, <3>3, <3>4, <3>6
        <4>2. k \in copy[t].lots
          BY <2>2, <3>2, <3>6, <4>1
        <4> QED
          BY <2>1, <4>1, <4>2
      <3>7. CASE k \notin Unused /\ m \notin Unused
        <4>1. k \in Opened /\ m \in Opened /\ contract[k] = contract[m]
          BY <2>2, <3>2, <3>3, <3>4, <3>7
        <4>2. \/ k \in copy[t].lots /\ m \in copy[t].lots
              \/ k \in open /\ m \in open
          BY <3>2, <3>3, <3>7, <4>1
        <4> QED
          BY <2>3, <4>1, <4>2 DEF SharedShaken, SharedIn
      <3> QED
        BY <3>5, <3>6, <3>7
    <2>7. ASSUME NEW s \in Threads
          PROVE  SharedIn(copy[s].lots)'
      <3>1. copy'[s].lots \subseteq copy[s].lots
        BY <2>1 DEF Store, NoCopy, TypeOK
      <3>2. copy[s].lots \subseteq Opened
        BY DEF Shape, CopyShape
      <3> QED
        BY <2>2, <2>3, <3>1, <3>2 DEF SharedShaken, SharedIn
    <2>8. /\ pc'[t] = "book" /\ \A s \in Threads \ {t} : pc'[s] = pc[s]
      BY <2>1 DEF TypeOK
    <2>9. OpenKeepsRecord' /\ SavedKeeps'
      BY <2>1, <2>2, <2>5, <2>8, RecordFrame
    <2>10. ASSUME NEW s \in Threads \ {t}
           PROVE  PassKeeps(s)' /\ BareShaken(s)'
      BY <2>1, <2>2, <2>3, <2>4, <2>5, <2>8, KeepsFrame, BareFrame DEF Opened
    <2>11. Aim(t) = {n} /\ Aim(t)' = {n} /\ pc'[t] \notin Exiting
      BY <2>1, <2>8 DEF Aim, Exiting
    <2>12. ASSUME NEW m \in Settled'
           PROVE  /\ m \in Settled /\ contract'[m] = contract[m] /\ contract[m] # contract[n]
                  /\ m # n
      <3>1. m \in Settled /\ m \notin torn' /\ m \in Opened
        BY <2>5 DEF Settled, TypeOK, Opened
      <3>2. m # n
        BY <2>2, <3>1
      <3> QED
        BY <2>2, <2>11, <3>1, <3>2 DEF PassKeeps
    <2>13. PassKeeps(t)'
      <3>1. ASSUME NEW m \in Settled'
            PROVE  /\ m \in todo'[t] \/ rebuilt'[t][contract'[m]] = "full"
                   /\ \A k \in todo'[t] \cup Aim(t)' : contract'[k] = contract'[m] => k = m
        <4>1. m \in todo[t] \/ rebuilt[t][contract[m]] = "full"
          BY <2>1, <2>12 DEF PassKeeps, InPass, Shape, PassShape
        <4>2. \A k \in todo[t] : contract[k] = contract[m] => k = m
          BY <2>12 DEF PassKeeps
        <4>3. \A k \in todo[t] \cup {n} : contract'[k] = contract[k]
          BY <2>2 DEF Shape, PassShape
        <4> QED
          BY <2>1, <2>11, <2>12, <4>1, <4>2, <4>3
      <3> QED
        BY <3>1 DEF PassKeeps
    <2>14. BareShaken(t)'
      <3>1. todo[t] \subseteq Trades
        BY DEF TypeOK
      <3>2. todo'[t] \cap open' \cap InFlight' \subseteq shaken' \cup torn'
        BY <2>1, <2>3, <2>4, <3>1 DEF BareShaken
      <3> QED
        BY <2>2, <2>11, <3>2 DEF BareShaken
    <2> QED
      BY <2>6, <2>7, <2>9, <2>10, <2>13, <2>14 DEF SharedShaken
  <1>7. CASE Books(t)
    BY <1>7 DEF Books, NoExit
  <1>8. CASE BookRaises(t)
    BY <1>8 DEF BookRaises, NoExit
  <1> QED
    BY <1>1, <1>2, <1>3, <1>4, <1>5, <1>6, <1>7, <1>8 DEF OrderOutcome


(* Steps of an entry that neither fill nor track it.                       *)
LEMMA RecordsAside ==
    ASSUME TypeOK, Shape, TypeOK', Shape', RecordsKept, NEW t \in Threads,
           pc[t] \notin {"saveEntry"}, ~InPass(t), ~InPass(t)',
           \A s \in Threads \ {t} : pc'[s] = pc[s],
           \A s \in Threads : entering'[s].trade = entering[s].trade,
           \A s \in Threads : \/ copy'[s].lots \subseteq copy[s].lots
                              \/ copy'[s].lots \subseteq open,
           UNCHANGED <<contract, open, tracking, saved, rebuilt, exiting, unread, todo, shaken,
                       torn>>
    PROVE  RecordsKept'
  <1>1. InFlight' = InFlight /\ Settled' = Settled
    BY DEF InFlight, Settled
  <1>2. SharedShaken'
    BY DEF RecordsKept, SharedShaken, SharedIn
  <1>3. \A m \in Opened : contract'[m] = contract[m]
    OBVIOUS
  <1>4. OpenKeepsRecord' /\ SavedKeeps'
    BY <1>1, <1>3, RecordFrame DEF RecordsKept
  <1>5. \A m \in Trades : m \in open' => m \in open \cup torn'
    OBVIOUS
  <1>6. ASSUME NEW s \in Threads \ {t}
        PROVE  PassKeeps(s)' /\ BareShaken(s)'
    <2>1. PassKeeps(s)'
      BY <1>1, <1>3, KeepsFrame DEF RecordsKept
    <2>2. BareShaken(s)'
      BY <1>1, <1>5, BareFrame DEF RecordsKept, Opened
    <2> QED
      BY <2>1, <2>2
  <1>7. PassKeeps(t)' /\ BareShaken(t)'
    <2>1. todo'[t] = {} /\ Aim(t)' = {}
      BY DEF InPass, Aim, Exiting, Shape, PassShape
    <2> QED
      BY <2>1 DEF PassKeeps, BareShaken
  <1> QED
    BY <1>2, <1>4, <1>6, <1>7 DEF RecordsKept

LEMMA RecordsCover ==
    ASSUME TypeOK, Shape, TypeOK', Shape', RecordsKept, NEW t \in Threads, Covers(t)
    PROVE  RecordsKept'
  <1> USE DEF venue, memory, disk, pass, request, entry, history
  <1>1. /\ pc[t] = "settleEntry" /\ pc'[t] = "track"
        /\ \A s \in Threads \ {t} : pc'[s] = pc[s]
        /\ UNCHANGED <<contract, tracking, saved, rebuilt, exiting, unread, todo, entering,
                       shaken>>
    BY DEF Covers, TypeOK
  <1>2. torn \subseteq torn' /\ \A m \in Trades \ torn' : m \in open' <=> m \in open
    BY CoversFacts
  <1>3. InFlight' = InFlight /\ \A m \in Trades : m \in open' => m \in open \cup torn'
    BY <1>1, <1>2 DEF InFlight
  <1>4. Settled' \subseteq Settled
    BY <1>1, <1>2, <1>3, SettledFrame DEF TypeOK
  <1>5. PICK lots : lots \subseteq copy[t].lots /\ Store(t, lots)
    BY DEF Covers, Stores
  <1>6. SharedShaken'
    BY <1>1, <1>2, <1>5, SharedStored DEF RecordsKept
  <1>7. \A m \in Opened : contract'[m] = contract[m]
    BY <1>1
  <1>8. OpenKeepsRecord' /\ SavedKeeps'
    BY <1>1, <1>4, <1>7, RecordFrame DEF RecordsKept
  <1>9. ASSUME NEW s \in Threads \ {t}
        PROVE  PassKeeps(s)' /\ BareShaken(s)'
    BY <1>1, <1>2, <1>3, <1>4, <1>7, KeepsFrame, BareFrame DEF RecordsKept, Opened
  <1>10. PassKeeps(t)' /\ BareShaken(t)'
    <2>1. todo'[t] = {} /\ Aim(t)' = {} /\ ~InPass(t)'
      BY <1>1 DEF InPass, Aim, Exiting, Shape, PassShape
    <2> QED
      BY <2>1 DEF PassKeeps, BareShaken
  <1> QED
    BY <1>6, <1>8, <1>9, <1>10 DEF RecordsKept

LEMMA RecordsEnter ==
    ASSUME TypeOK, Shape, TypeOK', Shape', RecordsKept, NEW t \in Threads, NEW n \in Trades,
           Enters(t, n)
    PROVE  RecordsKept'
  <1> USE DEF venue, memory, disk, pass, request, entry, history
  <1> DEFINE c == entering[t].contract
  <1>1. /\ pc[t] = "settleEntry" /\ pc'[t] = "track"
        /\ \A s \in Threads \ {t} : pc'[s] = pc[s]
        /\ UNCHANGED <<tracking, saved, rebuilt, exiting, unread, todo>>
        /\ Beside(t) # {} => Beside(t) \cup {n} \subseteq shaken'
        /\ Store(t, copy[t].lots \cup {n})
    BY DEF Enters, Stores, TypeOK
  <1>2. /\ torn \subseteq torn' /\ shaken \subseteq shaken'
        /\ \A m \in Trades \ torn' : m # n => (m \in open' <=> m \in open)
        /\ n \in Trades \ Opened
        /\ \A m \in Opened : contract'[m] = contract[m]
        /\ contract'[n] = c
        /\ AccountOf[c] = copy[t].account
    BY EntersFacts
  <1>3. InFlight' = InFlight \cup {n}
    BY EntersFlight
  <1>4. \A m \in Trades : m \in open' => m \in open \cup torn' \cup InFlight'
    BY <1>2, <1>3
  <1>5. Settled' \subseteq Settled
    BY <1>2, <1>3, <1>4, SettledFrame DEF TypeOK
  <1>6. OpenKeepsRecord' /\ SavedKeeps'
    BY <1>1, <1>2, <1>5, RecordFrame DEF RecordsKept
  <1>7. ASSUME NEW s \in Threads \ {t}
        PROVE  PassKeeps(s)' /\ BareShaken(s)'
    <2>1. PassKeeps(s)'
      BY <1>1, <1>2, <1>5, KeepsFrame DEF RecordsKept
    <2>2. /\ \A m \in Opened : m \in open' => m \in open \cup torn'
          /\ \A m \in Opened : m \in InFlight' => m \in InFlight
          /\ shaken \cup torn \subseteq shaken' \cup torn'
      BY <1>2, <1>3 DEF Opened
    <2>3. BareShaken(s)'
      BY <1>1, <2>2, BareFrame DEF RecordsKept
    <2> QED
      BY <2>1, <2>3
  <1>8. PassKeeps(t)' /\ BareShaken(t)'
    <2>1. todo'[t] = {} /\ Aim(t)' = {} /\ ~InPass(t)'
      BY <1>1 DEF InPass, Aim, Exiting, Shape, PassShape
    <2> QED
      BY <2>1 DEF PassKeeps, BareShaken
  <1>9. SharedIn(open)'
    <2> SUFFICES ASSUME NEW k \in open', NEW m \in open', contract'[k] = contract'[m], k # m
                 PROVE  k \in shaken' \cup torn'
      BY DEF SharedIn
    <2>1. copy[t].lots \cup {n} \in SUBSET Trades
      BY DEF TypeOK
    <2>2. \A l \in open' : \/ l = n
                           \/ l \in copy[t].lots
                           \/ l \in open /\ AccountOf[contract[l]] # copy[t].account
      BY <1>1, <2>1, StoreApart
    <2>3. \A l \in copy[t].lots : l \in Opened /\ AccountOf[contract[l]] = copy[t].account
      BY DEF Shape, CopyShape
    <2>4. open \subseteq Opened
      BY DEF TypeOK, Opened
    <2>5. ASSUME NEW l \in open', l # n
          PROVE  l \in Opened /\ contract'[l] = contract[l]
      BY <1>2, <2>2, <2>3, <2>4, <2>5
    <2>6. ASSUME NEW l \in open', l # n, contract'[l] = c
          PROVE  l \in Beside(t)
      <3>1. contract[l] = c
        BY <2>5, <2>6
      <3>2. l \in copy[t].lots
        BY <1>2, <2>2, <2>6, <3>1
      <3> QED
        BY <3>1, <3>2 DEF Beside
    <2>7. CASE k = n
      BY <1>1, <1>2, <2>6, <2>7
    <2>8. CASE m = n
      BY <1>1, <1>2, <2>6, <2>8
    <2>9. CASE k # n /\ m # n
      <3>1. contract[k] = contract[m]
        BY <2>5, <2>9
      <3>2. \/ k \in copy[t].lots /\ m \in copy[t].lots
            \/ k \in open /\ m \in open
        BY <2>2, <2>3, <2>9, <3>1
      <3> QED
        BY <1>2, <3>1, <3>2 DEF RecordsKept, SharedShaken, SharedIn
    <2> QED
      BY <2>7, <2>8, <2>9
  <1>10. ASSUME NEW s \in Threads
         PROVE  SharedIn(copy[s].lots)'
    <2>1. copy'[s].lots \subseteq copy[s].lots
      BY <1>1 DEF Store, NoCopy, TypeOK
    <2>2. copy[s].lots \subseteq Opened
      BY DEF Shape, CopyShape
    <2> QED
      BY <1>2, <2>1, <2>2 DEF RecordsKept, SharedShaken, SharedIn
  <1> QED
    BY <1>6, <1>7, <1>8, <1>9, <1>10 DEF RecordsKept, SharedShaken

LEMMA UntanglesFlight ==
    ASSUME TypeOK, Shape, NEW t \in Threads, Untangles(t)
    PROVE  /\ InFlight' \subseteq InFlight
           /\ InFlight \subseteq InFlight' \cup ({entering[t].trade} \ {0})
  <1>1. entering'[t].trade = 0 /\ \A s \in Threads \ {t} : entering'[s] = entering[s]
    BY DEF Untangles, NoEntry, TypeOK
  <1> QED
    BY <1>1, InFlightShrinks

LEMMA RecordsTrack ==
    ASSUME TypeOK, Shape, TypeOK', Shape', RecordsKept, NEW t \in Threads,
           Tracks(t) \/ TrackFails(t)
    PROVE  RecordsKept'
  <1> USE DEF venue, memory, disk, pass, request, entry, history
  <1> DEFINE c == entering[t].contract
             k == entering[t].trade
  <1>1. Untangles(t)
    BY DEF Tracks, TrackFails
  <1>2. /\ pc[t] = "track"
        /\ UNCHANGED <<contract, open, copy, torn, saved, rebuilt, exiting, unread, todo>>
        /\ c \in Contracts /\ (k # 0 => contract[k] = c)
    BY <1>1 DEF Untangles, Shape, EntryShape, Entering
  <1>3. /\ InFlight' \subseteq InFlight
        /\ InFlight \subseteq InFlight' \cup ({k} \ {0})
    BY <1>1, UntanglesFlight
  <1>4. /\ pc'[t] \in {"saveEntry", "enter", "idle"}
        /\ \A s \in Threads \ {t} : pc'[s] = pc[s]
        /\ shaken \subseteq shaken'
    BY DEF Tracks, TrackFails, AfterEntry, TypeOK
  <1>5. SharedShaken'
    BY <1>2, <1>4 DEF RecordsKept, SharedShaken, SharedIn
  <1>6. \A m \in Opened : contract'[m] = contract[m]
    BY <1>2
  <1>7. /\ todo'[t] = {} /\ Aim(t)' = {} /\ ~InPass(t)' /\ ~InPass(t)
        /\ pc'[t] \notin {"read", "decide", "exit", "fill", "settle", "book"}
    BY <1>2, <1>4 DEF InPass, Aim, Exiting, Shape, PassShape
  <1>8. PassKeeps(t)' /\ BareShaken(t)'
    BY <1>7 DEF PassKeeps, BareShaken
  <1>9. ASSUME NEW s \in Threads \ {t}
        PROVE  BareShaken(s)'
    <2>1. /\ \A m \in Opened : m \in open' => m \in open \cup torn'
          /\ \A m \in Opened : m \in InFlight' => m \in InFlight
          /\ shaken \cup torn \subseteq shaken' \cup torn'
      BY <1>2, <1>3, <1>4
    <2> QED
      BY <1>2, <1>4, <2>1, BareFrame DEF RecordsKept
  <1> HIDE DEF c, k
  <1>10. CASE {k} \ {0} \subseteq shaken'
    <2>1. Settled' \subseteq Settled
      BY <1>2, <1>3, <1>4, <1>10 DEF Settled
    <2>2. \A s \in Threads \ {t} : PassKeeps(s)'
      BY <1>2, <1>4, <1>6, <2>1, KeepsFrame DEF RecordsKept
    <2>3. OpenKeepsRecord' /\ SavedKeeps'
      <3>1. CASE Tracks(t)
        <4>1. tracking' = [tracking EXCEPT ![c] = "full"] /\ pc'[t] = "saveEntry"
          BY <3>1 DEF Tracks, TypeOK, c
        <4>2. \A m \in Settled' : tracking'[contract'[m]] = "full"
          BY <1>2, <2>1, <4>1 DEF RecordsKept, OpenKeepsRecord, Settled, TypeOK
        <4> QED
          BY <4>1, <4>2 DEF OpenKeepsRecord, SavedKeeps, Settled
      <3>2. CASE TrackFails(t)
        <4>1. UNCHANGED tracking
          BY <3>2 DEF TrackFails
        <4>2. \A s \in Threads : pc[s] = "saveEntry" => pc'[s] = "saveEntry"
          BY <1>2, <1>4
        <4> QED
          BY <1>2, <1>6, <2>1, <4>1, <4>2, RecordFrame DEF RecordsKept
      <3> QED
        BY <3>1, <3>2
    <2> QED
      BY <1>5, <1>8, <1>9, <2>2, <2>3 DEF RecordsKept
  <1>11. CASE Tracks(t) /\ ~(\E s \in Threads : InPass(s))
    <2>1. tracking' = [tracking EXCEPT ![c] = "full"] /\ pc'[t] = "saveEntry"
      BY <1>11 DEF Tracks, TypeOK, c
    <2>2. Settled' \subseteq Settled \cup ({k} \ {0})
      BY <1>2, <1>3, <1>4 DEF Settled
    <2>3. \A m \in Settled' : tracking'[contract'[m]] = "full"
      BY <1>2, <2>1, <2>2 DEF RecordsKept, OpenKeepsRecord, Settled, TypeOK
    <2>4. OpenKeepsRecord' /\ SavedKeeps'
      BY <2>1, <2>3 DEF OpenKeepsRecord, SavedKeeps, Settled
    <2>5. ASSUME NEW s \in Threads \ {t}
          PROVE  PassKeeps(s)'
      <3>1. ~InPass(s)' /\ todo'[s] = {} /\ Aim(s)' = {}
        BY <1>2, <1>4, <1>11 DEF InPass, Aim, Exiting, Shape, PassShape
      <3> QED
        BY <3>1 DEF PassKeeps
    <2> QED
      BY <1>5, <1>8, <1>9, <2>4, <2>5 DEF RecordsKept
  <1> QED
    BY <1>10, <1>11 DEF Tracks, TrackFails, k

LEMMA RecordsEntry ==
    ASSUME TypeOK, Shape, TypeOK', Shape', RecordsKept, NEW t \in Threads, EntryOutcome(t)
    PROVE  RecordsKept'
  <1> USE DEF venue, memory, disk, pass, request, entry, history, InPass
  <1>1. CASE BeginScan(t)
    <2>1. /\ pc[t] \in {"scan", "idle"} /\ pc'[t] = "enter"
          /\ \A s \in Threads \ {t} : pc'[s] = pc[s]
          /\ UNCHANGED <<contract, open, copy, tracking, saved, rebuilt, exiting, unread, todo,
                         shaken, torn, entering>>
      BY <1>1 DEF BeginScan, Goto, TypeOK
    <2> QED
      BY <2>1, RecordsAside
  <1>2. CASE ScanEnters(t)
    <2>1. /\ pc[t] = "enter" /\ pc'[t] = "place"
          /\ \A s \in Threads \ {t} : pc'[s] = pc[s] /\ entering'[s] = entering[s]
          /\ entering[t].trade = 0 /\ entering'[t].trade = 0
          /\ UNCHANGED <<contract, open, copy, tracking, saved, rebuilt, exiting, unread, todo,
                         shaken, torn>>
      BY <1>2 DEF ScanEnters, Goto, TypeOK, Shape, EntryShape
    <2>2. \A s \in Threads : entering'[s].trade = entering[s].trade
      BY <2>1
    <2> QED
      BY <2>1, <2>2, RecordsAside
  <1>3. CASE EndScan(t)
    <2>1. /\ pc[t] = "enter" /\ pc'[t] = "idle"
          /\ \A s \in Threads \ {t} : pc'[s] = pc[s]
          /\ UNCHANGED <<contract, open, copy, tracking, saved, rebuilt, exiting, unread, todo,
                         shaken, torn, entering>>
      BY <1>3 DEF EndScan, Goto, TypeOK
    <2> QED
      BY <2>1, RecordsAside
  <1>4. CASE ForceEntry(t)
    <2>1. /\ pc[t] = "idle" /\ pc'[t] = "place"
          /\ \A s \in Threads \ {t} : pc'[s] = pc[s] /\ entering'[s] = entering[s]
          /\ entering[t].trade = 0 /\ entering'[t].trade = 0
          /\ UNCHANGED <<contract, open, copy, tracking, saved, rebuilt, exiting, unread, todo,
                         shaken, torn>>
      BY <1>4 DEF ForceEntry, Goto, TypeOK, Shape, EntryShape
    <2>2. \A s \in Threads : entering'[s].trade = entering[s].trade
      BY <2>1
    <2> QED
      BY <2>1, <2>2, RecordsAside
  <1>5. CASE GivesUp(t)
    <2>1. /\ pc[t] \in {"place", "settleEntry"} /\ pc'[t] \in {"enter", "idle"}
          /\ \A s \in Threads \ {t} : pc'[s] = pc[s] /\ entering'[s] = entering[s]
          /\ entering[t].trade = 0 /\ entering'[t].trade = 0
          /\ \A s \in Threads : copy'[s].lots \subseteq copy[s].lots
          /\ UNCHANGED <<contract, open, tracking, saved, rebuilt, exiting, unread, todo,
                         shaken, torn>>
      BY <1>5 DEF GivesUp, AfterEntry, NoEntry, NoCopy, TypeOK, Shape, EntryShape
    <2>2. \A s \in Threads : entering'[s].trade = entering[s].trade
      BY <2>1
    <2> QED
      BY <2>1, <2>2, RecordsAside
  <1>6. CASE Assumes(t)
    <2>1. /\ pc[t] = "place" /\ pc'[t] = "track"
          /\ \A s \in Threads \ {t} : pc'[s] = pc[s]
          /\ UNCHANGED <<contract, open, copy, tracking, saved, rebuilt, exiting, unread, todo,
                         shaken, torn, entering>>
      BY <1>6 DEF Assumes, TypeOK
    <2> QED
      BY <2>1, RecordsAside
  <1>7. CASE LoadsEntry(t)
    <2>1. /\ pc[t] = "place" /\ pc'[t] = "settleEntry"
          /\ \A s \in Threads \ {t} : pc'[s] = pc[s] /\ copy'[s] = copy[s]
          /\ copy'[t].lots \subseteq open
          /\ UNCHANGED <<contract, open, tracking, saved, rebuilt, exiting, unread, todo,
                         shaken, torn, entering>>
      BY <1>7 DEF LoadsEntry, Loads, OpenIn, TypeOK
    <2>2. \A s \in Threads : copy'[s].lots \subseteq copy[s].lots \/ copy'[s].lots \subseteq open
      BY <2>1
    <2> QED
      BY <2>1, <2>2, RecordsAside
  <1> QED
    BY <1>1, <1>2, <1>3, <1>4, <1>5, <1>6, <1>7, RecordsCover, RecordsEnter, RecordsTrack
       DEF EntryOutcome

LEMMA RecordsOther ==
    ASSUME TypeOK, Shape, TypeOK', Shape', RecordsKept,
           \/ \E t \in Threads : RequestOutcome(t)
           \/ LoopMonitors \/ Crash \/ UNCHANGED vars
    PROVE  RecordsKept'
  <1> USE DEF venue, memory, disk, pass, request, entry, history
  <1>1. ASSUME NEW t \in Threads,
               pc[t] = "idle", BeginPass(t),
               UNCHANGED <<contract, open, copy, tracking, saved, rebuilt, exiting, todo,
                           shaken, torn, entering>>
        PROVE  RecordsKept'
    <2>1. /\ pc'[t] = "read" /\ unread'[t] = Accounts
          /\ \A s \in Threads \ {t} : pc'[s] = pc[s] /\ unread'[s] = unread[s]
      BY <1>1 DEF BeginPass, Goto, TypeOK
    <2>2. InFlight' = InFlight /\ Settled' = Settled
      BY <1>1 DEF InFlight, Settled
    <2>3. SharedShaken'
      BY <1>1 DEF RecordsKept, SharedShaken, SharedIn
    <2>4. \A m \in Opened : contract'[m] = contract[m]
      BY <1>1
    <2>5. OpenKeepsRecord' /\ SavedKeeps'
      BY <1>1, <2>1, <2>2, <2>4, RecordFrame DEF RecordsKept
    <2>6. ASSUME NEW s \in Threads \ {t}
          PROVE  PassKeeps(s)' /\ BareShaken(s)'
      <3>1. PassKeeps(s)'
        BY <1>1, <2>1, <2>2, <2>4, KeepsFrame DEF RecordsKept
      <3>2. \A m \in Trades : m \in open' => m \in open \cup torn'
        BY <1>1
      <3>3. BareShaken(s)'
        BY <1>1, <2>1, <2>2, <3>2, BareFrame DEF RecordsKept, Opened
      <3> QED
        BY <3>1, <3>3
    <2>7. PassKeeps(t)' /\ BareShaken(t)'
      <3>1. todo'[t] = {} /\ Aim(t)' = {}
        BY <1>1, <2>1 DEF InPass, Aim, Exiting, Shape, PassShape
      <3>2. \A n \in Settled' : AccountOf[contract'[n]] \in unread'[t]
        BY <1>1, <2>1, <2>2, ConstantsAssumption DEF Settled, TypeOK
      <3> QED
        BY <3>1, <3>2 DEF PassKeeps, BareShaken
    <2> QED
      BY <2>3, <2>5, <2>6, <2>7 DEF RecordsKept
  <1>2. ASSUME NEW t \in Threads, RequestOutcome(t)
        PROVE  RecordsKept'
    <2>1. ASSUME NEW matches \in SUBSET Contracts, RequestExits(t, matches)
          PROVE  RecordsKept'
      BY <1>1, <2>1 DEF RequestExits
    <2>2. CASE Answer(t)
      <3>1. /\ pc[t] = "answer" /\ pc'[t] = "idle"
            /\ \A s \in Threads \ {t} : pc'[s] = pc[s]
            /\ UNCHANGED <<contract, open, copy, tracking, saved, rebuilt, exiting, unread,
                           todo, shaken, torn, entering>>
        BY <2>2 DEF Answer, Goto, TypeOK
      <3> QED
        BY <3>1, RecordsAside DEF InPass
    <2> QED
      BY <1>2, <2>1, <2>2 DEF RequestOutcome
  <1>3. CASE LoopMonitors
    BY <1>1, <1>3, TheLoop DEF LoopMonitors
  <1>4. CASE Crash
    <2>1. /\ tracking' = saved /\ saved' = saved
          /\ UNCHANGED <<contract, open, torn>>
          /\ shaken \cup InFlight \subseteq shaken'
          /\ (\E t \in Threads : pc[t] = "saveEntry") => open \subseteq shaken'
      BY <1>4 DEF Crash
    <2>2. \A s \in Threads : /\ pc'[s] = "idle" /\ todo'[s] = {} /\ copy'[s] = NoCopy
      BY <1>4 DEF Crash
    <2>3. Settled' \subseteq Settled
      BY <2>1 DEF Settled
    <2>4. \A n \in Settled' : saved[contract[n]] = "full"
      BY <2>1, <2>3 DEF RecordsKept, SavedKeeps, Settled
    <2>5. OpenKeepsRecord' /\ SavedKeeps'
      BY <2>1, <2>4 DEF OpenKeepsRecord, SavedKeeps, Settled
    <2>6. SharedShaken'
      BY <2>1, <2>2 DEF RecordsKept, SharedShaken, SharedIn, NoCopy
    <2>7. \A s \in Threads : todo'[s] = {} /\ Aim(s)' = {} /\ ~InPass(s)'
      BY <2>2 DEF Aim, Exiting, InPass
    <2>8. \A s \in Threads : PassKeeps(s)' /\ BareShaken(s)'
      BY <2>7 DEF PassKeeps, BareShaken
    <2> QED
      BY <2>5, <2>6, <2>8 DEF RecordsKept
  <1>5. CASE UNCHANGED vars
    <2>1. /\ UNCHANGED <<contract, open, copy, tracking, saved, rebuilt, exiting, unread, todo,
                         shaken, torn, entering, pc>>
      BY <1>5 DEF vars
    <2>2. InFlight' = InFlight /\ Settled' = Settled
      BY <2>1 DEF InFlight, Settled
    <2>3. SharedShaken' /\ OpenKeepsRecord' /\ SavedKeeps'
      BY <2>1, <2>2 DEF RecordsKept, SharedShaken, SharedIn, OpenKeepsRecord, SavedKeeps,
                        Settled
    <2>4. \A s \in Threads : PassKeeps(s)' /\ BareShaken(s)'
      BY <2>1, <2>2 DEF RecordsKept, PassKeeps, BareShaken, Aim, InPass
    <2> QED
      BY <2>3, <2>4 DEF RecordsKept
  <1> QED
    BY <1>2, <1>3, <1>4, <1>5

------------------------------------------------------------------------------
(* Credits *)

LEMMA CreditsInit == Init => CreditsKept
  BY DEF Init, CreditsKept, CreditedOnce, CreditDue, BooksAlone

LEMMA BelowOne == \A x \in Nat : x <= 1 /\ x # 1 => x = 0
  OBVIOUS

(* Steps that credit nothing and begin to book nothing that exits and book *)
(* agree on.                                                               *)
LEMMA CreditsFrame ==
    ASSUME TypeOK, Shape, CreditsKept, UNCHANGED credited,
           shaken \subseteq shaken', torn \subseteq torn',
           \A m \in Opened : contract'[m] = contract[m],
           \A m \in Opened : m \notin torn' => (m \in open' <=> m \in open),
           \A m \in Trades : m \notin Opened \cup torn' /\ contract'[m] # "none" => m \in open',
           \A s \in Threads : pc'[s] = "book" /\ exiting'[s].trade \notin torn'
              => pc[s] = "book" /\ exiting'[s].trade = exiting[s].trade,
           \A s \in Threads : pc[s] = "book" /\ exiting[s].trade \notin torn' \cup shaken'
              => pc'[s] = "book" /\ exiting'[s].trade = exiting[s].trade
    PROVE  CreditsKept'
  <1>1. \A s \in Threads : pc[s] = "book" => exiting[s].trade \in Opened
    BY DEF Shape, PassShape, Aim
  <1>2. CreditedOnce'
    <2> SUFFICES ASSUME NEW n \in Trades, n \notin torn'
                 PROVE  /\ credited[n] <= 1
                        /\ credited[n] = 1 => contract'[n] # "none" /\ n \notin open'
                        /\ contract'[n] # "none" /\ n \notin open' \cup shaken'
                              /\ (\A s \in Threads :
                                    ~(pc'[s] = "book" /\ exiting'[s].trade = n))
                            => credited[n] = 1
      BY DEF CreditedOnce
    <2>1. n \in Trades \ torn
      OBVIOUS
    <2>2. CASE n \in Opened
      <3>1. (\A s \in Threads : ~(pc'[s] = "book" /\ exiting'[s].trade = n))
              /\ n \notin shaken'
            => \A s \in Threads : ~(pc[s] = "book" /\ exiting[s].trade = n)
        OBVIOUS
      <3>2. contract'[n] = contract[n] /\ (n \in open' <=> n \in open)
        BY <2>2
      <3> QED
        BY <2>1, <3>1, <3>2 DEF CreditsKept, CreditedOnce
    <2>3. CASE n \notin Opened
      <3>1. contract[n] = "none"
        BY <2>3 DEF Opened
      <3>2. credited[n] <= 1 /\ credited[n] # 1
        BY <2>1, <3>1 DEF CreditsKept, CreditedOnce
      <3> QED
        BY <2>3, <3>2
    <2> QED
      BY <2>2, <2>3
  <1>3. CreditDue'
    <2> SUFFICES ASSUME NEW s \in Threads, pc'[s] = "book", exiting'[s].trade \notin torn'
                 PROVE  exiting'[s].trade \notin open' /\ credited[exiting'[s].trade] = 0
      BY DEF CreditDue
    <2>1. /\ pc[s] = "book" /\ exiting'[s].trade = exiting[s].trade
          /\ exiting[s].trade \notin torn
      OBVIOUS
    <2> QED
      BY <1>1, <2>1 DEF CreditsKept, CreditDue
  <1>4. BooksAlone'
    <2> SUFFICES ASSUME NEW r \in Threads, NEW s \in Threads, pc'[r] = "book", pc'[s] = "book",
                        exiting'[r].trade = exiting'[s].trade, exiting'[r].trade \notin torn'
                 PROVE  r = s
      BY DEF BooksAlone
    <2>1. /\ pc[r] = "book" /\ exiting'[r].trade = exiting[r].trade
          /\ pc[s] = "book" /\ exiting'[s].trade = exiting[s].trade
          /\ exiting[r].trade \notin torn
      OBVIOUS
    <2> QED
      BY <2>1 DEF CreditsKept, BooksAlone
  <1> QED
    BY <1>2, <1>3, <1>4 DEF CreditsKept

LEMMA CreditsPass ==
    ASSUME TypeOK, Shape, CreditsKept, NEW t \in Threads, PassOutcome(t)
    PROVE  CreditsKept'
  <1> USE DEF venue, memory, disk, pass, request, entry, history
  <1>1. /\ UNCHANGED <<credited, contract>> /\ shaken \subseteq shaken'
        /\ \A s \in Threads \ {t} : pc'[s] = pc[s] /\ exiting'[s] = exiting[s]
        /\ pc[t] # "book" /\ pc'[t] # "book"
    BY DEF PassOutcome, Reads, Skips, LoadsMarks, Loads, Exits, Keeps, Replace, Writes, Saves,
           SaveFails, Marks, AfterSave, AfterEntry, Goto, TypeOK
  <1>2. torn \subseteq torn' /\ \A m \in Trades \ torn' : m \in open' <=> m \in open
    BY WritesFacts DEF PassOutcome, Reads, Skips, LoadsMarks, Loads, Exits, Keeps, Replace,
                       Saves, SaveFails, Marks
  <1>3. \A m \in Opened : m \notin torn' => (m \in open' <=> m \in open)
    BY <1>2 DEF Opened
  <1>4. \A m \in Trades : m \notin Opened \cup torn' /\ contract'[m] # "none" => m \in open'
    BY <1>1 DEF Opened
  <1> QED
    BY <1>1, <1>2, <1>3, <1>4, CreditsFrame

LEMMA CreditsClose ==
    ASSUME TypeOK, Shape, CreditsKept, NEW t \in Threads, NEW k \in Trades, Closes(t, k)
    PROVE  CreditsKept'
  <1>1. /\ pc[t] = "settle" /\ pc'[t] = "book" /\ exiting'[t].trade = k
        /\ \A s \in Threads \ {t} : pc'[s] = pc[s] /\ exiting'[s] = exiting[s]
        /\ UNCHANGED <<contract, credited>> /\ shaken \subseteq shaken'
    BY DEF Closes, disk, TypeOK
  <1>2. /\ \A m \in Trades : m \in open' => m \in open \cup torn'
        /\ \A m \in Trades : m \in open => m \in open' \cup torn' \cup {k}
        /\ k \in torn' \/ (k \in open /\ k \notin open')
        /\ torn \subseteq torn'
    BY ClosesFacts
  <1>3. k \notin torn' => credited[k] = 0 /\ contract[k] # "none"
    <2> SUFFICES ASSUME k \notin torn'
                 PROVE  credited[k] = 0 /\ contract[k] # "none"
      OBVIOUS
    <2>1. k \in Trades \ torn /\ k \in open
      BY <1>2
    <2>2. credited[k] <= 1 /\ credited[k] # 1
      BY <2>1 DEF CreditsKept, CreditedOnce
    <2>3. credited[k] \in Nat /\ contract[k] # "none"
      BY <2>1 DEF TypeOK
    <2> QED
      BY <2>2, <2>3, BelowOne
  <1>4. ASSUME k \notin torn', NEW s \in Threads, pc[s] = "book"
        PROVE  exiting[s].trade # k
    BY <1>2, <1>4 DEF CreditsKept, CreditDue
  <1>5. CreditedOnce'
    <2> SUFFICES ASSUME NEW n \in Trades, n \notin torn'
                 PROVE  /\ credited[n] <= 1
                        /\ credited[n] = 1 => contract[n] # "none" /\ n \notin open'
                        /\ contract[n] # "none" /\ n \notin open' \cup shaken'
                              /\ (\A s \in Threads :
                                    ~(pc'[s] = "book" /\ exiting'[s].trade = n))
                            => credited[n] = 1
      BY <1>1 DEF CreditedOnce
    <2>1. CASE n = k
      BY <1>1, <1>3, <2>1
    <2>2. CASE n # k
      <3>1. n \in Trades \ torn /\ (n \in open' <=> n \in open)
        BY <1>2, <2>2
      <3>2. \A s \in Threads : pc[s] = "book" /\ exiting[s].trade = n
                                => pc'[s] = "book" /\ exiting'[s].trade = n
        BY <1>1
      <3> QED
        BY <1>1, <3>1, <3>2 DEF CreditsKept, CreditedOnce
    <2> QED
      BY <2>1, <2>2
  <1>6. CreditDue'
    <2> SUFFICES ASSUME NEW s \in Threads, pc'[s] = "book", exiting'[s].trade \notin torn'
                 PROVE  exiting'[s].trade \notin open' /\ credited[exiting'[s].trade] = 0
      BY <1>1 DEF CreditDue
    <2>1. CASE s = t
      BY <1>1, <1>2, <1>3, <2>1
    <2>2. CASE s # t
      <3>1. /\ pc[s] = "book" /\ exiting'[s].trade = exiting[s].trade
            /\ exiting[s].trade \in Trades \ torn
        BY <1>1, <1>2, <2>2 DEF Shape, PassShape, Aim, Opened
      <3>2. exiting[s].trade \notin open /\ credited[exiting[s].trade] = 0
        BY <3>1 DEF CreditsKept, CreditDue
      <3> QED
        BY <1>2, <3>1, <3>2
    <2> QED
      BY <2>1, <2>2
  <1>7. BooksAlone'
    <2> SUFFICES ASSUME NEW r \in Threads, NEW s \in Threads, pc'[r] = "book", pc'[s] = "book",
                        exiting'[r].trade = exiting'[s].trade, exiting'[r].trade \notin torn'
                 PROVE  r = s
      BY DEF BooksAlone
    <2>1. CASE r # t /\ s # t
      BY <1>1, <1>2, <2>1 DEF CreditsKept, BooksAlone
    <2> QED
      BY <1>1, <1>4, <2>1
  <1> QED
    BY <1>5, <1>6, <1>7 DEF CreditsKept

LEMMA CreditsBook ==
    ASSUME TypeOK, Shape, RecordsKept, CreditsKept, NEW t \in Threads, Books(t) \/ BookRaises(t)
    PROVE  CreditsKept'
  <1> USE DEF venue, memory, disk, pass, request, entry, history
  <1> DEFINE n == exiting[t].trade
  <1>1. /\ pc[t] = "book" /\ pc'[t] = "decide"
        /\ \A s \in Threads \ {t} : pc'[s] = pc[s] /\ exiting'[s] = exiting[s]
        /\ UNCHANGED <<contract, open, torn>> /\ shaken \subseteq shaken'
    BY DEF Books, BookRaises, TypeOK
  <1>2. n \in Opened /\ n \in Trades
    BY <1>1 DEF Shape, PassShape, Aim, Opened
  <1>3. n \notin torn => n \notin open /\ credited[n] = 0
    BY <1>1 DEF CreditsKept, CreditDue
  <1>4. /\ \A m \in Trades \ {n} : credited'[m] = credited[m]
        /\ credited'[n] \in {credited[n], credited[n] + 1}
    BY <1>2 DEF Books, BookRaises, Credit, TypeOK
  <1>5. n \notin torn \cup shaken' => credited'[n] = credited[n] + 1
    <2>1. CASE Books(t)
      <3>1. exiting[t].rec \in {"bare", "full"}
        BY <1>1 DEF Shape, PassShape, TypeOK, Records
      <3>2. exiting[t].rec = "bare" => n \in shaken \cup torn
        BY <1>1 DEF RecordsKept, BareShaken, Aim, Exiting
      <3> QED
        BY <1>1, <1>2, <2>1, <3>1, <3>2 DEF Books, Credit, TypeOK
    <2>2. CASE BookRaises(t)
      BY <2>2 DEF BookRaises
    <2> QED
      BY <2>1, <2>2
  <1>6. n \notin torn => \A s \in Threads \ {t} : pc[s] = "book" => exiting[s].trade # n
    BY <1>1 DEF CreditsKept, BooksAlone
  <1>7. \A s \in Threads : pc[s] = "book" => exiting[s].trade \in Trades
    BY DEF Shape, PassShape, Aim, Opened
  <1> HIDE DEF n
  <1>8. CreditedOnce'
    <2> SUFFICES ASSUME NEW m \in Trades, m \notin torn
                 PROVE  /\ credited'[m] <= 1
                        /\ credited'[m] = 1 => contract[m] # "none" /\ m \notin open
                        /\ contract[m] # "none" /\ m \notin open \cup shaken'
                              /\ (\A s \in Threads :
                                    ~(pc'[s] = "book" /\ exiting'[s].trade = m))
                            => credited'[m] = 1
      BY <1>1 DEF CreditedOnce
    <2>1. CASE m = n
      <3>1. contract[n] # "none" /\ n \notin open /\ credited[n] = 0
        BY <1>2, <1>3, <2>1 DEF Opened
      <3>2. credited'[n] \in {0, 1} /\ (n \notin shaken' => credited'[n] = 1)
        BY <1>4, <1>5, <2>1, <3>1
      <3> QED
        BY <2>1, <3>1, <3>2
    <2>2. CASE m # n
      <3>1. credited'[m] = credited[m]
        BY <1>4, <2>2
      <3>2. \A s \in Threads : pc[s] = "book" /\ exiting[s].trade = m
                                => pc'[s] = "book" /\ exiting'[s].trade = m
        BY <1>1, <2>2 DEF n
      <3> QED
        BY <1>1, <3>1, <3>2 DEF CreditsKept, CreditedOnce
    <2> QED
      BY <2>1, <2>2
  <1>9. CreditDue'
    <2> SUFFICES ASSUME NEW s \in Threads, pc'[s] = "book", exiting'[s].trade \notin torn
                 PROVE  exiting'[s].trade \notin open /\ credited'[exiting'[s].trade] = 0
      BY <1>1 DEF CreditDue
    <2>1. s # t /\ pc[s] = "book" /\ exiting'[s].trade = exiting[s].trade
      BY <1>1
    <2>2. exiting[s].trade \in Trades \ {n}
      BY <1>6, <1>7, <2>1
    <2> QED
      BY <1>4, <2>1, <2>2 DEF CreditsKept, CreditDue
  <1>10. BooksAlone'
    <2> SUFFICES ASSUME NEW r \in Threads, NEW s \in Threads, pc'[r] = "book", pc'[s] = "book",
                        exiting'[r].trade = exiting'[s].trade, exiting'[r].trade \notin torn
                 PROVE  r = s
      BY <1>1 DEF BooksAlone
    <2>1. r # t /\ s # t
      BY <1>1
    <2> QED
      BY <1>1, <2>1 DEF CreditsKept, BooksAlone
  <1> QED
    BY <1>8, <1>9, <1>10 DEF CreditsKept

LEMMA CreditsOrder ==
    ASSUME TypeOK, Shape, RecordsKept, CreditsKept, NEW t \in Threads, OrderOutcome(t)
    PROVE  CreditsKept'
  <1> USE DEF venue, memory, disk, pass, request, entry, history
  <1>1. CASE Sends(t) \/ Refuses(t) \/ Raises(t) \/ LoadsExit(t)
    <2>1. /\ UNCHANGED <<credited, contract, open, torn>> /\ shaken \subseteq shaken'
          /\ \A s \in Threads \ {t} : pc'[s] = pc[s] /\ exiting'[s] = exiting[s]
          /\ pc[t] # "book" /\ pc'[t] # "book"
      BY <1>1 DEF Sends, Refuses, Raises, LoadsExit, Loads, Exiting, TypeOK
    <2>2. \A m \in Trades : m \notin Opened \cup torn' /\ contract'[m] # "none" => m \in open'
      BY <2>1 DEF Opened
    <2> QED
      BY <2>1, <2>2, CreditsFrame
  <1>2. ASSUME NEW n \in Trades, Overruns(t, n)
        PROVE  CreditsKept'
    <2>1. /\ torn \cup Unused \cup {n} \subseteq torn'
          /\ \A m \in Trades \ torn' : m \in open' <=> m \in open
          /\ \A m \in Opened : contract'[m] = contract[m]
      BY <1>2, OverrunsFacts
    <2>2. /\ UNCHANGED credited /\ shaken \subseteq shaken'
          /\ \A s \in Threads \ {t} : pc'[s] = pc[s] /\ exiting'[s] = exiting[s]
          /\ pc[t] # "book" /\ exiting'[t].trade = n
      BY <1>2 DEF Overruns, TypeOK
    <2>3. \A m \in Trades : m \notin Opened \cup torn' /\ contract'[m] # "none" => m \in open'
      <3>1. \A m \in Trades : m \notin Unused => contract'[m] = contract[m]
        BY <1>2 DEF Overruns
      <3> QED
        BY <2>1, <3>1 DEF Opened
    <2>4. \A m \in Opened : m \notin torn' => (m \in open' <=> m \in open)
      BY <2>1 DEF Opened
    <2> QED
      BY <2>1, <2>2, <2>3, <2>4, CreditsFrame
  <1> QED
    BY <1>1, <1>2, CreditsClose, CreditsBook DEF OrderOutcome

LEMMA CreditsEntry ==
    ASSUME TypeOK, Shape, CreditsKept, NEW t \in Threads, EntryOutcome(t)
    PROVE  CreditsKept'
  <1> USE DEF venue, memory, disk, pass, request, entry, history
  <1>1. /\ UNCHANGED <<credited, exiting>> /\ shaken \subseteq shaken'
        /\ \A s \in Threads \ {t} : pc'[s] = pc[s]
        /\ pc[t] # "book" /\ pc'[t] # "book"
    BY DEF EntryOutcome, BeginScan, ScanEnters, EndScan, ForceEntry, GivesUp, Assumes,
           LoadsEntry, Loads, Covers, Enters, Tracks, TrackFails, Untangles, AfterEntry, Goto,
           TypeOK
  <1>2. ASSUME NEW n \in Trades, Enters(t, n)
        PROVE  CreditsKept'
    <2>1. /\ torn \subseteq torn'
          /\ \A m \in Trades \ torn' : m # n => (m \in open' <=> m \in open)
          /\ n \in Trades \ Opened
          /\ \A m \in Opened : contract'[m] = contract[m]
      BY <1>2, EntersFacts
    <2>2. n \in open' /\ \A m \in Trades \ {n} : contract'[m] = contract[m]
      BY <1>2 DEF Enters, Stores, Store, TypeOK
    <2>3. \A m \in Trades : m \notin Opened \cup torn' /\ contract'[m] # "none" => m \in open'
      BY <2>2 DEF Opened
    <2>4. \A m \in Opened : m \notin torn' => (m \in open' <=> m \in open)
      BY <2>1 DEF Opened
    <2> QED
      BY <1>1, <2>1, <2>3, <2>4, CreditsFrame
  <1>3. CASE \A n \in Trades : ~Enters(t, n)
    <2>1. UNCHANGED contract
      BY <1>3 DEF EntryOutcome, BeginScan, ScanEnters, EndScan, ForceEntry, GivesUp, Assumes,
                  LoadsEntry, Loads, Covers, Tracks, TrackFails, Untangles
    <2>2. torn \subseteq torn' /\ \A m \in Trades \ torn' : m \in open' <=> m \in open
      BY <1>3, CoversFacts
         DEF EntryOutcome, BeginScan, ScanEnters, EndScan, ForceEntry, GivesUp, Assumes,
             LoadsEntry, Loads, Tracks, TrackFails, Untangles
    <2>3. \A m \in Trades : m \notin Opened \cup torn' /\ contract'[m] # "none" => m \in open'
      BY <2>1 DEF Opened
    <2>4. \A m \in Opened : m \notin torn' => (m \in open' <=> m \in open)
      BY <2>2 DEF Opened
    <2> QED
      BY <1>1, <2>1, <2>2, <2>3, <2>4, CreditsFrame
  <1> QED
    BY <1>2, <1>3

LEMMA CreditsOther ==
    ASSUME TypeOK, Shape, CreditsKept,
           \/ \E t \in Threads : RequestOutcome(t)
           \/ LoopMonitors \/ Crash \/ UNCHANGED vars
    PROVE  CreditsKept'
  <1> USE DEF venue, memory, disk, pass, request, entry, history
  <1>1. /\ UNCHANGED <<credited, contract, open, torn>> /\ shaken \subseteq shaken'
        /\ \A s \in Threads : \/ pc'[s] = pc[s] /\ exiting'[s] = exiting[s]
                              \/ pc[s] # "book" /\ pc'[s] # "book"
                              \/ pc[s] = "book" /\ pc'[s] = "idle" /\ exiting[s].trade \in shaken'
    <2>1. ASSUME NEW t \in Threads, RequestOutcome(t)
          PROVE  /\ UNCHANGED <<credited, contract, open, torn, exiting>>
                 /\ shaken \subseteq shaken'
                 /\ \A s \in Threads : pc'[s] = pc[s] \/ (pc[s] # "book" /\ pc'[s] # "book")
      BY <2>1 DEF RequestOutcome, RequestExits, Answer, BeginPass, Goto, TypeOK
    <2>2. CASE LoopMonitors
      BY <2>2, TheLoop DEF LoopMonitors, BeginPass, Goto, TypeOK
    <2>3. CASE Crash
      BY <2>3 DEF Crash
    <2>4. CASE UNCHANGED vars
      BY <2>4 DEF vars
    <2> QED
      BY <2>1, <2>2, <2>3, <2>4
  <1>2. \A m \in Trades : m \notin Opened \cup torn' /\ contract'[m] # "none" => m \in open'
    BY <1>1 DEF Opened
  <1> QED
    BY <1>1, <1>2, CreditsFrame

------------------------------------------------------------------------------
(* Answers *)

LEMMA AnswersInit == Init => AnswersKept
  BY DEF Init, AnswersKept, ReportedClosedIsClosed

(* Steps that neither ask nor answer.                                      *)
LEMMA AnswersFrame ==
    ASSUME TypeOK, Shape, AnswersKept, UNCHANGED claimed,
           shaken \subseteq shaken', torn \subseteq torn',
           \A m \in Opened : contract'[m] = contract[m],
           \A m \in Opened : m \in open' => m \in open \cup torn',
           \A m \in Opened : m \in InFlight' => m \in InFlight,
           \A s \in Threads : asked'[s] \subseteq asked[s],
           \A s \in Threads : \A m \in open \cap InFlight :
              AccountOf[contract[m]] \in unread[s]
                => AccountOf[contract[m]] \in unread'[s] \/ m \in shaken'
    PROVE  AnswersKept'
  <1>1. claimed \subseteq Opened /\ \A s \in Threads : asked[s] \subseteq Opened
    BY DEF Shape, PassShape
  <1>2. ReportedClosedIsClosed'
    BY <1>1 DEF AnswersKept, ReportedClosedIsClosed
  <1>3. ASSUME NEW s \in Threads, NEW n \in asked'[s] \cap open' \cap InFlight',
               n \notin shaken' \cup torn'
        PROVE  AccountOf[contract'[n]] \in unread'[s]
    <2>1. n \in Opened /\ n \in asked[s]
      BY <1>1, <1>3
    <2>2. n \in open \cap InFlight /\ n \notin shaken \cup torn
      BY <1>3, <2>1
    <2>3. AccountOf[contract[n]] \in unread[s]
      BY <2>1, <2>2 DEF AnswersKept
    <2> QED
      BY <1>3, <2>1, <2>2, <2>3
  <1> QED
    BY <1>2, <1>3 DEF AnswersKept

LEMMA AnswersPass ==
    ASSUME TypeOK, Shape, AnswersKept, NEW t \in Threads, PassOutcome(t)
    PROVE  AnswersKept'
  <1> USE DEF venue, memory, disk, pass, request, entry, history
  <1>1. /\ UNCHANGED <<contract, entering, asked, claimed>> /\ shaken \subseteq shaken'
    BY DEF PassOutcome, Reads, Skips, LoadsMarks, Loads, Exits, Keeps, Replace, Writes, Saves,
           SaveFails, Marks
  <1>2. torn \subseteq torn' /\ \A m \in Trades \ torn' : m \in open' <=> m \in open
    BY WritesFacts DEF PassOutcome, Reads, Skips, LoadsMarks, Loads, Exits, Keeps, Replace,
                       Saves, SaveFails, Marks
  <1>3. \A m \in Opened : m \in open' => m \in open \cup torn'
    BY <1>2 DEF Opened
  <1>4. InFlight' = InFlight
    BY <1>1 DEF InFlight
  <1>5. \A s \in Threads : \A m \in open \cap InFlight :
           AccountOf[contract[m]] \in unread[s]
             => AccountOf[contract[m]] \in unread'[s] \/ m \in shaken'
    <2>1. ASSUME NEW a \in Accounts, Reads(t, a) \/ Skips(t, a)
          PROVE  /\ unread'[t] = unread[t] \ {a}
                 /\ \A s \in Threads \ {t} : unread'[s] = unread[s]
                 /\ \A m \in open \cap InFlight : AccountOf[contract[m]] = a => m \in shaken'
      BY <2>1 DEF Reads, Skips, OpenIn, TypeOK
    <2>2. \/ \E a \in Accounts : Reads(t, a) \/ Skips(t, a)
          \/ UNCHANGED unread
      BY DEF PassOutcome, LoadsMarks, Loads, Exits, Keeps, Replace, Writes, Saves, SaveFails,
             Marks
    <2> QED
      BY <2>1, <2>2
  <1> QED
    BY <1>1, <1>2, <1>3, <1>4, <1>5, AnswersFrame

LEMMA AnswersOrder ==
    ASSUME TypeOK, Shape, AnswersKept, NEW t \in Threads, OrderOutcome(t)
    PROVE  AnswersKept'
  <1> USE DEF venue, memory, disk, pass, request, entry, history
  <1>1. UNCHANGED <<entering, asked, claimed, unread>> /\ shaken \subseteq shaken'
    BY DEF OrderOutcome, Sends, Refuses, Raises, LoadsExit, Loads, Closes, Overruns, Books,
           BookRaises
  <1>2. /\ torn \subseteq torn'
        /\ \A m \in Trades : m \in open' => m \in open \cup torn'
        /\ \A m \in Opened : contract'[m] = contract[m]
    <2>1. ASSUME NEW n \in Trades, Closes(t, n)
          PROVE  /\ torn \subseteq torn' /\ UNCHANGED contract
                 /\ \A m \in Trades : m \in open' => m \in open \cup torn'
      BY <2>1, ClosesFacts DEF Closes
    <2>2. ASSUME NEW n \in Trades, Overruns(t, n)
          PROVE  /\ torn \subseteq torn'
                 /\ \A m \in Trades : m \in open' => m \in open \cup torn'
                 /\ \A m \in Opened : contract'[m] = contract[m]
      BY <2>2, OverrunsFacts
    <2>3. CASE \A n \in Trades : ~Closes(t, n) /\ ~Overruns(t, n)
      BY <2>3 DEF OrderOutcome, Sends, Refuses, Raises, LoadsExit, Loads, Books, BookRaises
    <2> QED
      BY <2>1, <2>2, <2>3
  <1>3. \A m \in Opened : m \in open' => m \in open \cup torn'
    BY <1>2 DEF Opened
  <1>4. InFlight' = InFlight
    BY <1>1 DEF InFlight
  <1> QED
    BY <1>1, <1>2, <1>3, <1>4, AnswersFrame

LEMMA AnswersEntry ==
    ASSUME TypeOK, Shape, AnswersKept, NEW t \in Threads, EntryOutcome(t)
    PROVE  AnswersKept'
  <1> USE DEF venue, memory, disk, pass, request, entry, history
  <1>1. UNCHANGED <<asked, claimed, unread>> /\ shaken \subseteq shaken'
    BY DEF EntryOutcome, BeginScan, ScanEnters, EndScan, ForceEntry, GivesUp, Assumes,
           LoadsEntry, Loads, Covers, Enters, Tracks, TrackFails, Untangles
  <1>2. /\ torn \subseteq torn'
        /\ \A m \in Opened : m \in open' => m \in open \cup torn'
        /\ \A m \in Opened : contract'[m] = contract[m]
        /\ \A m \in Opened : m \in InFlight' => m \in InFlight
    <2>1. ASSUME NEW n \in Trades, Enters(t, n)
          PROVE  /\ torn \subseteq torn'
                 /\ \A m \in Opened : m \in open' => m \in open \cup torn'
                 /\ \A m \in Opened : contract'[m] = contract[m]
                 /\ \A m \in Opened : m \in InFlight' => m \in InFlight
      <3>1. /\ torn \subseteq torn' /\ n \in Trades \ Opened
            /\ \A m \in Trades \ torn' : m # n => (m \in open' <=> m \in open)
            /\ \A m \in Opened : contract'[m] = contract[m]
        BY <2>1, EntersFacts
      <3>2. InFlight' = InFlight \cup {n}
        BY <2>1, EntersFlight
      <3> QED
        BY <3>1, <3>2 DEF Opened
    <2>2. CASE Covers(t)
      BY <2>2, CoversFacts DEF Covers, InFlight, Opened
    <2>3. CASE Tracks(t) \/ TrackFails(t)
      <3>1. Untangles(t)
        BY <2>3 DEF Tracks, TrackFails
      <3> QED
        BY <3>1, UntanglesFlight DEF Untangles
    <2>4. CASE ScanEnters(t) \/ ForceEntry(t) \/ GivesUp(t)
      <3>1. /\ entering'[t].trade = 0
            /\ \A s \in Threads \ {t} : entering'[s] = entering[s]
            /\ UNCHANGED <<contract, open, torn>>
        BY <2>4 DEF ScanEnters, ForceEntry, GivesUp, NoEntry, TypeOK
      <3> QED
        BY <3>1, InFlightShrinks
    <2>5. CASE BeginScan(t) \/ EndScan(t) \/ Assumes(t) \/ LoadsEntry(t)
      BY <2>5 DEF BeginScan, EndScan, Assumes, LoadsEntry, Loads, InFlight
    <2> QED
      BY <2>1, <2>2, <2>3, <2>4, <2>5 DEF EntryOutcome
  <1> QED
    BY <1>1, <1>2, AnswersFrame

LEMMA AnswersOther ==
    ASSUME TypeOK, Shape, RecordsKept, AnswersKept,
           \/ \E t \in Threads : RequestOutcome(t)
           \/ LoopMonitors \/ Crash \/ UNCHANGED vars
    PROVE  AnswersKept'
  <1> USE DEF venue, memory, disk, pass, request, entry, history
  <1>1. ASSUME NEW t \in Threads, NEW matches \in SUBSET Contracts, RequestExits(t, matches)
        PROVE  AnswersKept'
    <2>1. /\ asked'[t] \subseteq open /\ unread'[t] = Accounts
          /\ \A s \in Threads \ {t} : asked'[s] = asked[s] /\ unread'[s] = unread[s]
          /\ UNCHANGED <<contract, open, shaken, torn, entering, claimed>>
      BY <1>1 DEF RequestExits, BeginPass, TypeOK
    <2>2. InFlight' = InFlight
      BY <2>1 DEF InFlight
    <2>3. \A n \in open : AccountOf[contract[n]] \in Accounts
      BY ConstantsAssumption DEF TypeOK
    <2> QED
      BY <2>1, <2>2, <2>3 DEF AnswersKept, ReportedClosedIsClosed
  <1>2. ASSUME NEW t \in Threads, Answer(t)
        PROVE  AnswersKept'
    <2>1. /\ unread[t] = {}
          /\ claimed' = claimed \cup {n \in asked[t] : tracking[contract[n]] = "none"}
          /\ asked'[t] = {} /\ \A s \in Threads \ {t} : asked'[s] = asked[s]
          /\ UNCHANGED <<contract, open, shaken, torn, entering, unread>>
      BY <1>2 DEF Answer, Shape, PassShape, TypeOK
    <2>2. ASSUME NEW n \in asked[t], n \in open, tracking[contract[n]] = "none"
          PROVE  n \in shaken \cup torn
      <3>1. CASE n \in InFlight
        BY <2>1, <2>2, <3>1 DEF AnswersKept
      <3>2. CASE n \notin InFlight
        BY <2>2, <3>2 DEF RecordsKept, OpenKeepsRecord
      <3> QED
        BY <3>1, <3>2
    <2>3. InFlight' = InFlight
      BY <2>1 DEF InFlight
    <2> QED
      BY <2>1, <2>2, <2>3 DEF AnswersKept, ReportedClosedIsClosed
  <1>3. CASE LoopMonitors \/ UNCHANGED vars
    <2>1. /\ UNCHANGED <<contract, open, shaken, torn, entering, claimed, asked>>
          /\ \A s \in Threads : unread'[s] \in {unread[s], Accounts}
      BY <1>3, TheLoop DEF LoopMonitors, BeginPass, TypeOK, vars
    <2>2. InFlight' = InFlight
      BY <2>1 DEF InFlight
    <2>3. \A n \in open : AccountOf[contract[n]] \in Accounts
      BY ConstantsAssumption DEF TypeOK
    <2> QED
      BY <2>1, <2>2, <2>3, AnswersFrame
  <1>4. CASE Crash
    BY <1>4 DEF Crash, AnswersKept, ReportedClosedIsClosed
  <1> QED
    BY <1>1, <1>2, <1>3, <1>4 DEF RequestOutcome

------------------------------------------------------------------------------
(* Entries *)

LEMMA EntriesInit == Init => EntriesKept
  BY DEF Init, EntriesKept, OneTradePerUnderlying, PendingAlone, LaterRaces

(* The check sees every undisturbed position.                              *)
LEMMA CheckSees ==
    ASSUME TypeOK, RecordsKept, NEW n \in open, Underlying(n) \notin TrackedUnderlyings
    PROVE  n \in shaken \cup torn \cup InFlight
  BY DEF RecordsKept, OpenKeepsRecord, TrackedUnderlyings, Underlying, TypeOK

(* Steps that fill or end no entry, among them the checks.                 *)
LEMMA EntriesFrame ==
    ASSUME TypeOK, Shape, RecordsKept, EntriesKept,
           shaken \subseteq shaken', torn \subseteq torn', raced \subseteq raced',
           InFlight \subseteq InFlight',
           \A m \in Opened : contract'[m] = contract[m],
           \A m \in open' : m \in open \cup torn',
           \A s \in Threads : entering'[s].trade # 0 => entering'[s] = entering[s],
           \A s \in Threads : \A u \in Underlyings :
              Pending(s, u)' => Pending(s, u) \/ u \notin TrackedUnderlyings
    PROVE  EntriesKept'
  <1>1. \A m \in open : m \in Opened /\ contract'[m] = contract[m]
    BY DEF TypeOK, Opened
  <1>2. OneTradePerUnderlying'
    BY <1>1 DEF EntriesKept, OneTradePerUnderlying
  <1>3. PendingAlone'
    <2> SUFFICES ASSUME NEW s \in Threads, NEW n \in open', Pending(s, Underlying(n))',
                        n \notin torn'
                 PROVE  n \in shaken' \cup raced' \cup InFlight'
      BY DEF PendingAlone
    <2>1. n \in open /\ Underlying(n)' = Underlying(n) /\ n \notin torn
      BY <1>1 DEF Underlying
    <2>2. Underlying(n) \in Underlyings
      BY <2>1, ConstantsAssumption DEF Underlying, TypeOK
    <2>3. PICK u : u = Underlying(n)
      OBVIOUS
    <2>4. Pending(s, u)'
      BY <2>1, <2>3
    <2>5. Pending(s, Underlying(n)) \/ Underlying(n) \notin TrackedUnderlyings
      BY <2>2, <2>3, <2>4
    <2>6. n \in shaken \cup torn \cup raced \cup InFlight
      BY <2>1, <2>5, CheckSees DEF EntriesKept, PendingAlone
    <2> QED
      BY <2>1, <2>6
  <1>4. LaterRaces'
    <2> SUFFICES ASSUME NEW s \in Threads, NEW n \in open', n \notin torn',
                        entering'[s].trade # 0, n > entering'[s].trade,
                        Underlying(n)' = UnderlyingOf[entering'[s].contract]
                 PROVE  n \in raced' \cup InFlight'
      BY DEF LaterRaces
    <2>1. /\ n \in open /\ Underlying(n)' = Underlying(n) /\ n \notin torn
          /\ entering'[s] = entering[s]
      BY <1>1 DEF Underlying
    <2> QED
      BY <2>1 DEF EntriesKept, LaterRaces
  <1> QED
    BY <1>2, <1>3, <1>4 DEF EntriesKept

LEMMA EntriesPass ==
    ASSUME TypeOK, Shape, RecordsKept, EntriesKept, NEW t \in Threads,
           PassOutcome(t) \/ OrderOutcome(t)
    PROVE  EntriesKept'
  <1> USE DEF venue, memory, disk, pass, request, entry, history
  <1>1. /\ UNCHANGED <<entering, raced, targets>> /\ shaken \subseteq shaken'
        /\ \A s \in Threads : pc'[s] \in Entering => pc'[s] = pc[s]
    <2>1. CASE PassOutcome(t)
      BY <2>1 DEF PassOutcome, Reads, Skips, LoadsMarks, Loads, Exits, Keeps, Replace, Writes,
                  Saves, SaveFails, Marks, AfterSave, AfterEntry, Goto, TypeOK, Entering
    <2>2. CASE OrderOutcome(t)
      BY <2>2 DEF OrderOutcome, Sends, Refuses, Raises, LoadsExit, Loads, Closes, Overruns,
                  Books, BookRaises, TypeOK, Entering
    <2> QED
      BY <2>1, <2>2
  <1>2. /\ torn \subseteq torn'
        /\ \A m \in Trades : m \in open' => m \in open \cup torn'
        /\ \A m \in Opened : contract'[m] = contract[m]
    <2>1. ASSUME NEW n \in Trades, Closes(t, n)
          PROVE  /\ torn \subseteq torn' /\ UNCHANGED contract
                 /\ \A m \in Trades : m \in open' => m \in open \cup torn'
      BY <2>1, ClosesFacts DEF Closes
    <2>2. ASSUME NEW n \in Trades, Overruns(t, n)
          PROVE  /\ torn \subseteq torn'
                 /\ \A m \in Trades : m \in open' => m \in open \cup torn'
                 /\ \A m \in Opened : contract'[m] = contract[m]
      BY <2>2, OverrunsFacts
    <2>3. CASE Writes(t)
      BY <2>3, WritesFacts DEF Writes
    <2>4. CASE ~Writes(t) /\ \A n \in Trades : ~Closes(t, n) /\ ~Overruns(t, n)
      BY <2>4 DEF OrderOutcome, Sends, Refuses, Raises, LoadsExit, Loads, Books, BookRaises,
                  PassOutcome, Reads, Skips, LoadsMarks, Exits, Keeps, Replace, Saves,
                  SaveFails, Marks
    <2> QED
      BY <2>1, <2>2, <2>3, <2>4
  <1>3. \A m \in open' : m \in open \cup torn'
    <2>1. open' \subseteq Trades
      <3>1. ASSUME NEW lots \in SUBSET Trades, Store(t, lots)
            PROVE  open' \subseteq Trades
        BY <3>1 DEF Store, TypeOK
      <3>2. copy[t].lots \subseteq Trades /\ Unused \subseteq Trades /\ open \subseteq Trades
        BY DEF TypeOK, Unused
      <3> QED
        BY <3>1, <3>2
           DEF OrderOutcome, Sends, Refuses, Raises, LoadsExit, Loads, Closes, Overruns, Stores,
               Books, BookRaises, PassOutcome, Reads, Skips, LoadsMarks, Exits, Keeps, Replace,
               Saves, SaveFails, Marks, Writes
    <2> QED
      BY <1>2, <2>1
  <1>4. InFlight' = InFlight
    BY <1>1 DEF InFlight
  <1>5. \A s \in Threads : \A u \in Underlyings : Pending(s, u)' => Pending(s, u)
    BY <1>1 DEF Pending
  <1> QED
    BY <1>1, <1>2, <1>3, <1>4, <1>5, EntriesFrame

(* A new fill.                                                             *)
LEMMA EntriesEnter ==
    ASSUME TypeOK, Shape, TypeOK', EntriesKept, NEW t \in Threads, NEW n \in Trades, Enters(t, n)
    PROVE  EntriesKept'
  <1>1. /\ entering'[t].trade = n /\ entering'[t].contract = entering[t].contract
        /\ pc[t] = "settleEntry" /\ pc'[t] = "track"
        /\ \A s \in Threads \ {t} : entering'[s] = entering[s] /\ pc'[s] = pc[s]
        /\ UNCHANGED <<raced, targets>>
    BY DEF Enters, TypeOK, pass, request
  <1>2. /\ torn \subseteq torn' /\ shaken \subseteq shaken'
        /\ \A m \in Trades \ torn' : m # n => (m \in open' <=> m \in open)
        /\ n \in Trades \ Opened
        /\ \A m \in Opened : contract'[m] = contract[m]
        /\ contract'[n] = entering[t].contract
    BY EntersFacts
  <1>3. InFlight' = InFlight \cup {n}
    BY EntersFlight
  <1>4. ASSUME NEW m \in open', m \notin torn', m # n
        PROVE  m \in open /\ m \in Opened /\ Underlying(m)' = Underlying(m) /\ m \notin torn
               /\ contract'[m] = contract[m]
    <2>1. m \in Trades
      BY DEF TypeOK
    <2>2. m \in open /\ m \in Opened
      BY <1>2, <1>4, <2>1 DEF TypeOK, Opened
    <2> QED
      BY <1>2, <1>4, <2>2 DEF Underlying
  <1>5. OneTradePerUnderlying'
    <2> SUFFICES ASSUME NEW k \in open', NEW m \in open', k < m,
                        UnderlyingOf[contract'[k]] = UnderlyingOf[contract'[m]],
                        k \notin torn' \cup InFlight', m \notin torn' \cup InFlight'
                 PROVE  k \in shaken' \/ {k, m} \cap raced' # {}
      BY DEF OneTradePerUnderlying
    <2>1. k # n /\ m # n /\ k \notin InFlight /\ m \notin InFlight
      BY <1>3
    <2>2. /\ k \in open /\ m \in open /\ k \notin torn /\ m \notin torn
          /\ UnderlyingOf[contract[k]] = UnderlyingOf[contract[m]]
      BY <1>4, <2>1
    <2> QED
      BY <1>1, <1>2, <2>1, <2>2 DEF EntriesKept, OneTradePerUnderlying
  <1>6. PendingAlone'
    <2> SUFFICES ASSUME NEW s \in Threads, NEW m \in open', Pending(s, Underlying(m))',
                        m \notin torn', m # n
                 PROVE  m \in shaken' \cup raced' \cup InFlight'
      BY <1>3 DEF PendingAlone
    <2>1. Pending(s, Underlying(m))
      BY <1>1, <1>4 DEF Pending, Entering
    <2> QED
      BY <1>1, <1>2, <1>3, <1>4, <2>1 DEF EntriesKept, PendingAlone
  <1>7. LaterRaces'
    <2> SUFFICES ASSUME NEW s \in Threads, NEW m \in open', m \notin torn', m # n,
                        entering'[s].trade # 0, m > entering'[s].trade,
                        Underlying(m)' = UnderlyingOf[entering'[s].contract]
                 PROVE  m \in raced' \cup InFlight'
      BY <1>3 DEF LaterRaces
    <2>1. CASE s = t
      <3>1. n < m /\ m \in Opened
        BY <1>1, <1>4, <2>1, Numbers DEF Opened
      <3> QED
        BY <1>2, <3>1 DEF Shape, Opened
    <2>2. CASE s # t
      BY <1>1, <1>2, <1>3, <1>4, <2>2 DEF EntriesKept, LaterRaces
    <2> QED
      BY <2>1, <2>2
  <1> QED
    BY <1>5, <1>6, <1>7 DEF EntriesKept

(* An entry ends: its trade has lost its record or it has written one, and *)
(* races whoever else has passed the check.                                *)
LEMMA EntriesTrack ==
    ASSUME TypeOK, Shape, RecordsKept, EntriesKept, NEW t \in Threads,
           Tracks(t) \/ TrackFails(t)
    PROVE  EntriesKept'
  <1> DEFINE n == entering[t].trade
             u == UnderlyingOf[entering[t].contract]
  <1>1. /\ pc[t] = "track" /\ n \in Trades \cup {0}
        /\ entering'[t].trade = 0
        /\ raced \subseteq raced' /\ shaken \subseteq shaken'
        /\ OtherEntry(t, u) /\ n # 0 => n \in raced'
        /\ \A s \in Threads \ {t} : entering'[s] = entering[s] /\ pc'[s] = pc[s]
        /\ pc'[t] \notin Entering
        /\ UNCHANGED <<contract, open, targets, torn>>
    BY DEF Tracks, TrackFails, Untangles, TypeOK, venue, NoEntry, AfterEntry, Entering
  <1>2. InFlight' \subseteq InFlight /\ InFlight \subseteq InFlight' \cup ({n} \ {0})
    BY <1>1, InFlightShrinks
  <1>3. ASSUME NEW s \in Threads \ {t}, Pending(s, u), n # 0
        PROVE  n \in raced'
    BY <1>1, <1>3 DEF Pending, OtherEntry, Entering
  <1>4. u \notin targets[t] /\ Pending(t, u) /\ (n # 0 => u = Underlying(n))
    BY <1>1 DEF Shape, EntryShape, Pending, Underlying, Entering
  <1>5. ASSUME NEW s \in Threads, NEW v, Pending(s, v)'
        PROVE  Pending(s, v)
    BY <1>1, <1>5 DEF Pending
  <1> HIDE DEF n, u
  <1>6. CASE n = 0
    <2>1. InFlight \subseteq InFlight'
      BY <1>2, <1>6
    <2>2. \A s \in Threads : entering'[s].trade # 0 => entering'[s] = entering[s]
      BY <1>1
    <2> QED
      BY <1>1, <1>5, <2>1, <2>2, EntriesFrame
  <1>7. CASE n # 0
    <2>1. n \in Trades /\ u = Underlying(n)
      BY <1>1, <1>4, <1>7
    <2>2. OneTradePerUnderlying'
      <3> SUFFICES ASSUME NEW k \in open, NEW m \in open, k < m, Underlying(k) = Underlying(m)
                   PROVE  k \in shaken' \/ {k, m} \cap (torn \cup raced' \cup InFlight') # {}
        BY <1>1 DEF OneTradePerUnderlying, Underlying
      <3>0. k \in Nat /\ m \in Nat
        BY Numbers DEF TypeOK
      <3>1. k \in shaken \/ {k, m} \cap (torn \cup raced \cup InFlight) # {}
        BY DEF EntriesKept, OneTradePerUnderlying, Underlying
      <3>2. CASE k = n
        <4>1. Underlying(m) = UnderlyingOf[entering[t].contract] /\ m > entering[t].trade
              /\ entering[t].trade # 0
          BY <1>7, <2>1, <3>0, <3>2 DEF n, u
        <4>2. m \in torn \cup raced \cup InFlight
          BY <4>1 DEF EntriesKept, LaterRaces
        <4>3. m # n
          BY <3>0, <3>2
        <4> QED
          BY <1>1, <1>2, <4>2, <4>3
      <3>3. CASE m = n
        <4>1. k \in shaken \cup torn \cup raced \cup InFlight
          BY <1>4, <2>1, <3>3 DEF EntriesKept, PendingAlone
        <4>2. k # n
          BY <3>0, <3>3
        <4> QED
          BY <1>1, <1>2, <4>1, <4>2
      <3> QED
        BY <1>1, <1>2, <3>1, <3>2, <3>3
    <2>3. PendingAlone'
      <3> SUFFICES ASSUME NEW s \in Threads, NEW m \in open, Pending(s, Underlying(m))'
                   PROVE  m \in shaken' \cup torn \cup raced' \cup InFlight'
        BY <1>1 DEF PendingAlone
      <3>1. Underlying(m)' = Underlying(m)
        BY <1>1 DEF Underlying
      <3>2. PICK v : v = Underlying(m)
        OBVIOUS
      <3>3. Pending(s, v)'
        BY <3>1, <3>2
      <3>4. Pending(s, Underlying(m))
        BY <1>5, <3>2, <3>3
      <3>5. m = n => s # t
        <4> SUFFICES ASSUME m = n, s = t PROVE FALSE
          OBVIOUS
        <4>1. v = u
          BY <2>1, <3>2
        <4> QED
          BY <1>1, <1>4, <3>3, <4>1 DEF Pending
      <3>6. m = n => n \in raced'
        BY <1>3, <1>7, <2>1, <3>4, <3>5
      <3> QED
        BY <1>1, <1>2, <3>4, <3>6 DEF EntriesKept, PendingAlone
    <2>4. LaterRaces'
      <3> SUFFICES ASSUME NEW s \in Threads, NEW m \in open, entering'[s].trade # 0,
                          Underlying(m) = UnderlyingOf[entering'[s].contract],
                          m > entering'[s].trade
                   PROVE  m \in torn \cup raced' \cup InFlight'
        BY <1>1 DEF LaterRaces, Underlying
      <3>1. s \in Threads \ {t} /\ entering'[s] = entering[s]
        BY <1>1
      <3>2. m \in torn \cup raced \cup InFlight
        BY <3>1 DEF EntriesKept, LaterRaces
      <3>3. pc[s] = "track"
        BY <3>1 DEF Shape, EntryShape
      <3>4. m = n => Pending(s, u)
        BY <2>1, <3>1, <3>3 DEF Pending, Entering
      <3> QED
        BY <1>1, <1>2, <1>3, <1>7, <3>1, <3>2, <3>4
    <2> QED
      BY <2>2, <2>3, <2>4 DEF EntriesKept
  <1> QED
    BY <1>6, <1>7

LEMMA EntriesEntry ==
    ASSUME TypeOK, Shape, TypeOK', RecordsKept, EntriesKept, NEW t \in Threads, EntryOutcome(t)
    PROVE  EntriesKept'
  <1> USE DEF venue, memory, disk, pass, request, entry, history
  <1>1. CASE BeginScan(t)
    <2>1. /\ targets'[t] = Underlyings \ TrackedUnderlyings /\ pc'[t] = "enter"
          /\ \A s \in Threads \ {t} : pc'[s] = pc[s] /\ targets'[s] = targets[s]
          /\ UNCHANGED <<contract, open, shaken, torn, raced, entering>>
      BY <1>1 DEF BeginScan, Goto, TypeOK
    <2>2. \A s \in Threads : \A u \in Underlyings :
             Pending(s, u)' => Pending(s, u) \/ u \notin TrackedUnderlyings
      BY <2>1 DEF Pending, Entering
    <2>3. InFlight' = InFlight
      BY <2>1 DEF InFlight
    <2> QED
      BY <2>1, <2>2, <2>3, EntriesFrame
  <1>2. CASE ScanEnters(t)
    <2>1. PICK c \in Contracts :
             /\ UnderlyingOf[c] \in targets[t]
             /\ targets' = [targets EXCEPT ![t] = @ \ {UnderlyingOf[c]}]
             /\ entering' = [entering EXCEPT ![t] = [contract |-> c, trade |-> 0]]
      BY <1>2 DEF ScanEnters
    <2>2. /\ entering'[t] = [contract |-> c, trade |-> 0] /\ entering[t].trade = 0
          /\ pc[t] = "enter" /\ pc'[t] = "place"
          /\ targets'[t] \subseteq targets[t]
          /\ \A s \in Threads \ {t} : /\ pc'[s] = pc[s] /\ entering'[s] = entering[s]
                                      /\ targets'[s] = targets[s]
          /\ UNCHANGED <<contract, open, shaken, torn, raced>>
      BY <1>2, <2>1 DEF ScanEnters, Goto, TypeOK, Shape, EntryShape
    <2>3. \A s \in Threads : \A u \in Underlyings : Pending(s, u)' => Pending(s, u)
      BY <2>1, <2>2 DEF Pending
    <2>4. InFlight \subseteq InFlight'
      BY <2>2, InFlightShrinks
    <2>5. \A s \in Threads : entering'[s].trade # 0 => entering'[s] = entering[s]
      BY <2>2
    <2> QED
      BY <2>2, <2>3, <2>4, <2>5, EntriesFrame
  <1>3. CASE EndScan(t)
    <2>1. /\ \A s \in Threads : targets'[s] \subseteq targets[s]
          /\ \A s \in Threads : pc'[s] \in Entering => pc'[s] = pc[s]
          /\ UNCHANGED <<contract, open, shaken, torn, raced, entering>>
      BY <1>3 DEF EndScan, Goto, TypeOK, Entering
    <2>2. \A s \in Threads : \A u \in Underlyings : Pending(s, u)' => Pending(s, u)
      BY <2>1 DEF Pending
    <2>3. InFlight' = InFlight
      BY <2>1 DEF InFlight
    <2> QED
      BY <2>1, <2>2, <2>3, EntriesFrame
  <1>4. CASE ForceEntry(t)
    <2>1. PICK c \in Contracts :
             /\ UnderlyingOf[c] \notin TrackedUnderlyings
             /\ entering' = [entering EXCEPT ![t] = [contract |-> c, trade |-> 0]]
      BY <1>4 DEF ForceEntry
    <2>2. /\ entering'[t] = [contract |-> c, trade |-> 0] /\ entering[t].trade = 0
          /\ pc[t] = "idle" /\ pc'[t] = "place"
          /\ \A s \in Threads \ {t} : pc'[s] = pc[s] /\ entering'[s] = entering[s]
          /\ UNCHANGED <<contract, open, shaken, torn, raced, targets>>
      BY <1>4, <2>1 DEF ForceEntry, Goto, TypeOK, Shape, EntryShape
    <2>3. \A s \in Threads : \A u \in Underlyings :
             Pending(s, u)' => Pending(s, u) \/ u \notin TrackedUnderlyings
      BY <2>1, <2>2 DEF Pending
    <2>4. InFlight \subseteq InFlight'
      BY <2>2, InFlightShrinks
    <2>5. \A s \in Threads : entering'[s].trade # 0 => entering'[s] = entering[s]
      BY <2>2
    <2> QED
      BY <2>2, <2>3, <2>4, <2>5, EntriesFrame
  <1>5. CASE GivesUp(t)
    <2>1. /\ pc[t] \in {"place", "settleEntry"} /\ pc'[t] \notin Entering
          /\ entering[t].trade = 0 /\ entering'[t].trade = 0
          /\ \A s \in Threads \ {t} : pc'[s] = pc[s] /\ entering'[s] = entering[s]
          /\ UNCHANGED <<contract, open, shaken, torn, raced, targets>>
      BY <1>5 DEF GivesUp, AfterEntry, NoEntry, TypeOK, Shape, EntryShape, Entering
    <2>2. \A s \in Threads : \A u \in Underlyings : Pending(s, u)' => Pending(s, u)
      BY <2>1 DEF Pending
    <2>3. InFlight \subseteq InFlight'
      BY <2>1, InFlightShrinks
    <2>4. \A s \in Threads : entering'[s].trade # 0 => entering'[s] = entering[s]
      BY <2>1
    <2> QED
      BY <2>1, <2>2, <2>3, <2>4, EntriesFrame
  <1>6. CASE Assumes(t) \/ LoadsEntry(t) \/ Covers(t)
    <2>1. /\ pc[t] \in Entering
          /\ \A s \in Threads \ {t} : pc'[s] = pc[s]
          /\ UNCHANGED <<contract, shaken, raced, targets, entering>>
      BY <1>6 DEF Assumes, LoadsEntry, Loads, Covers, TypeOK, Entering
    <2>2. torn \subseteq torn' /\ \A m \in Trades \ torn' : m \in open' <=> m \in open
      BY <1>6, CoversFacts DEF Assumes, LoadsEntry, Loads
    <2>3. \A m \in open' : m \in open \cup torn'
      BY <2>2 DEF TypeOK
    <2>4. \A s \in Threads : \A u \in Underlyings : Pending(s, u)' => Pending(s, u)
      BY <2>1 DEF Pending
    <2>5. InFlight' = InFlight
      BY <2>1 DEF InFlight
    <2> QED
      BY <2>1, <2>2, <2>3, <2>4, <2>5, EntriesFrame
  <1> QED
    BY <1>1, <1>2, <1>3, <1>4, <1>5, <1>6, EntriesEnter, EntriesTrack DEF EntryOutcome

LEMMA EntriesOther ==
    ASSUME TypeOK, Shape, RecordsKept, EntriesKept,
           \/ \E t \in Threads : RequestOutcome(t)
           \/ LoopMonitors \/ Crash \/ UNCHANGED vars
    PROVE  EntriesKept'
  <1> USE DEF venue, memory, disk, pass, request, entry, history
  <1>1. CASE (\E t \in Threads : RequestOutcome(t)) \/ LoopMonitors \/ UNCHANGED vars
    <2>1. /\ UNCHANGED <<contract, open, shaken, torn, raced, targets, entering>>
          /\ \A s \in Threads : pc'[s] \in Entering => pc'[s] = pc[s]
      <3>1. ASSUME NEW t \in Threads, RequestOutcome(t)
            PROVE  /\ UNCHANGED <<contract, open, shaken, torn, raced, targets, entering>>
                   /\ \A s \in Threads : pc'[s] \in Entering => pc'[s] = pc[s]
        BY <3>1 DEF RequestOutcome, RequestExits, Answer, BeginPass, Goto, TypeOK, Entering
      <3>2. CASE LoopMonitors
        BY <3>2, TheLoop DEF LoopMonitors, BeginPass, Goto, TypeOK, Entering
      <3>3. CASE UNCHANGED vars
        BY <3>3 DEF vars
      <3> QED
        BY <1>1, <3>1, <3>2, <3>3
    <2>2. \A s \in Threads : \A u \in Underlyings : Pending(s, u)' => Pending(s, u)
      BY <2>1 DEF Pending
    <2>3. InFlight' = InFlight
      BY <2>1 DEF InFlight
    <2> QED
      BY <2>1, <2>2, <2>3, EntriesFrame
  <1>2. CASE Crash
    <2>1. /\ \A s \in Threads : /\ pc'[s] = "idle" /\ targets'[s] = {}
                                /\ entering'[s].trade = 0
          /\ shaken \cup InFlight \subseteq shaken'
          /\ UNCHANGED <<contract, open, raced, torn>>
      BY <1>2 DEF Crash, NoEntry
    <2>2. OneTradePerUnderlying'
      <3> SUFFICES ASSUME NEW m \in open, NEW n \in open,
                          m < n, Underlying(m) = Underlying(n)
                   PROVE  m \in shaken' \/ {m, n} \cap (torn \cup raced) # {}
        BY <2>1 DEF OneTradePerUnderlying, Underlying
      <3>1. m \in shaken \/ {m, n} \cap (torn \cup raced \cup InFlight) # {}
        BY DEF EntriesKept, OneTradePerUnderlying, Underlying
      <3>2. n \in InFlight => m \in shaken \cup torn \cup raced \cup InFlight
        <4> SUFFICES ASSUME n \in InFlight PROVE m \in shaken \cup torn \cup raced \cup InFlight
          OBVIOUS
        <4>1. PICK s \in Threads : n = entering[s].trade /\ n # 0
          BY DEF InFlight
        <4>2. pc[s] = "track" /\ contract[n] = entering[s].contract
          BY <4>1 DEF Shape, EntryShape
        <4>3. Pending(s, Underlying(m))
          BY <4>2 DEF Pending, Underlying, Entering
        <4> QED
          BY <4>3 DEF EntriesKept, PendingAlone
      <3> QED
        BY <2>1, <3>1, <3>2
    <2>3. PendingAlone' /\ LaterRaces'
      BY <2>1 DEF PendingAlone, LaterRaces, Pending, Entering
    <2> QED
      BY <2>2, <2>3 DEF EntriesKept
  <1> QED
    BY <1>1, <1>2

------------------------------------------------------------------------------
(* The invariant *)

LEMMA Inductive == Spec => []IInv
  <1>1. Init => IInv
    BY TypeInit, ShapeInit, RecordsInit, CreditsInit, AnswersInit, EntriesInit DEF IInv
  <1>2. IInv /\ [Next]_vars => IInv'
    <2> SUFFICES ASSUME IInv, [Next]_vars PROVE IInv'
      OBVIOUS
    <2>1. ASSUME NEW t \in Threads, PassOutcome(t)
          PROVE  IInv'
      <3>1. TypeOK' /\ Shape'
        BY <2>1, TypePass, ShapePass DEF IInv
      <3> QED
        BY <2>1, <3>1, RecordsPass, CreditsPass, AnswersPass, EntriesPass DEF IInv
    <2>2. ASSUME NEW t \in Threads, OrderOutcome(t)
          PROVE  IInv'
      <3>1. TypeOK' /\ Shape'
        BY <2>2, TypeOrder, ShapeOrder DEF IInv
      <3> QED
        BY <2>2, <3>1, RecordsOrder, CreditsOrder, AnswersOrder, EntriesPass DEF IInv
    <2>3. ASSUME NEW t \in Threads, EntryOutcome(t)
          PROVE  IInv'
      <3>1. TypeOK' /\ Shape'
        BY <2>3, TypeEntry, ShapeEntry DEF IInv
      <3> QED
        BY <2>3, <3>1, RecordsEntry, CreditsEntry, AnswersEntry, EntriesEntry DEF IInv
    <2>4. CASE \/ \E t \in Threads : RequestOutcome(t)
               \/ LoopMonitors \/ Crash \/ UNCHANGED vars
      <3>1. ASSUME UNCHANGED vars
            PROVE  TypeOK' /\ Shape'
        <4>1. UNCHANGED <<contract, short, open, copy, tracking, saved, forced, credited, pc,
                          unread, todo, rebuilt, marks, exiting, added, asked, calls, scanning,
                          targets, entering, faults, shaken, torn, raced, claimed>>
          BY <3>1 DEF vars, venue, memory, disk, pass, request, entry, history
        <4>2. TypeOK'
          BY <4>1 DEF IInv, TypeOK
        <4>3. \A s \in Threads : PassShape(s)' /\ CopyShape(s)' /\ EntryShape(s)'
          BY <4>1 DEF IInv, Shape, PassShape, CopyShape, EntryShape, Opened, Aim, InPass
        <4>4. Shape'
          BY <4>1, <4>3 DEF IInv, Shape, Opened
        <4> QED
          BY <4>2, <4>4
      <3>2. ASSUME ~UNCHANGED vars
            PROVE  TypeOK' /\ Shape'
        BY <2>4, <3>2, TypeOther, ShapeOther DEF IInv
      <3>3. TypeOK' /\ Shape'
        BY <3>1, <3>2
      <3> QED
        BY <2>4, <3>3, RecordsOther, CreditsOther, AnswersOther, EntriesOther DEF IInv
    <2> QED
      BY <2>1, <2>2, <2>3, <2>4, Outcomes DEF IInv
  <1> QED
    BY <1>1, <1>2, PTL DEF Spec

(* Every variable keeps its type: a pass never evaluates, exits or books a *)
(* position that nothing opened, and no name outside the venue's symbols   *)
(* and underlyings enters the registry of forced exits.                    *)
THEOREM TypeCorrect == Spec => []TypeOK
  <1>1. IInv => TypeOK
    BY DEF IInv
  <1> QED
    BY <1>1, Inductive, PTL

(* An open position keeps the full record its entry wrote, whichever       *)
(* threads rebuild the dictionary, save the accounts over each other and   *)
(* exit other positions, and whenever the process restarts from the file,  *)
(* unless one of the named causes touched it.                              *)
THEOREM RecordsHold == Spec => []OpenKeepsRecord
  <1>1. IInv => OpenKeepsRecord
    BY DEF IInv, RecordsKept
  <1> QED
    BY <1>1, Inductive, PTL

(* The outcome of a position is credited to its strategy once, when it     *)
(* closes, though several passes may have sent an exit for it, as long as  *)
(* none of them was filled in part or overran the position and no account  *)
(* loaded before was saved over the close.                                 *)
THEOREM CreditedOnceHolds == Spec => []CreditedOnce
  <1>1. IInv => CreditedOnce
    BY DEF IInv, CreditsKept
  <1> QED
    BY <1>1, Inductive, PTL

(* A forced exit reports a position that is open as closed only if a named *)
(* cause cost it its record or tore its exit from the book.                *)
THEOREM AnswersHold == Spec => []ReportedClosedIsClosed
  <1>1. IInv => ReportedClosedIsClosed
    BY DEF IInv, AnswersKept
  <1> QED
    BY <1>1, Inductive, PTL

(* Two open positions on one underlying have a named cause: a lost record, *)
(* an exit or a save that opened one, or entries of the scans and the      *)
(* commander that raced.                                                   *)
THEOREM OneTradeHolds == Spec => []OneTradePerUnderlying
  <1>1. IInv => OneTradePerUnderlying
    BY DEF IInv, EntriesKept
  <1> QED
    BY <1>1, Inductive, PTL


=============================================================================
