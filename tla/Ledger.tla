-------------------------------- MODULE Ledger --------------------------------
(***************************************************************************)
(* What the paper account promises to the rest of the system: recorded     *)
(* trades are settled one at a time, each at most once, in full, and on    *)
(* top of everything settled before.  A recorded trade need not ever be    *)
(* settled (the program may die in between).                               *)
(***************************************************************************)
EXTENDS Netting, Sequences

VARIABLES trades,   \* the trade table, in insertion order
          applied,  \* ids of the trades the account reflects
          book,     \* open quantity per market and side
          booked    \* quantity whose profit or loss is in the account's cash

vars == <<trades, applied, book, booked>>

Init ==
    /\ trades = <<>>
    /\ applied = {}
    /\ book = EmptyBook
    /\ booked = 0

Record ==
    /\ trades' \in Seq(Trades)
    /\ Len(trades') = Len(trades) + 1
    /\ \A i \in DOMAIN trades : trades'[i] = trades[i]
    /\ UNCHANGED <<applied, book, booked>>

Settle(i) ==
    /\ applied' = applied \cup {i}
    /\ book' = Net(book, trades[i])
    /\ booked' = booked + ClosedBy(book, trades[i])
    /\ UNCHANGED trades

Next == Record \/ \E i \in DOMAIN trades \ applied : Settle(i)

Spec == Init /\ [][Next]_vars
=============================================================================
