------------------------------ MODULE SaleLedger ------------------------------
(***************************************************************************)
(* What a presale promises about money, without wallets, dates or prices:  *)
(* one account of the lamports raised, held and paid out and of the tokens *)
(* left to sell. A step says how the totals may change together, not by    *)
(* how much.                                                               *)
(***************************************************************************)
EXTENDS Integers

CONSTANT Reserve    \* what the escrow holds before anything is raised

VARIABLES
  opened,           \* the presale exists
  finalized,        \* it was settled as a success
  cancelled,        \* it was cancelled
  left,             \* tokens left to sell
  raised,           \* lamports paid in and not refunded
  held,             \* lamports in escrow
  paid              \* lamports paid out to the team and the admin

status == <<opened, finalized, cancelled>>
ledger_vars == <<status, left, raised, held, paid>>

Init ==
  /\ opened = FALSE /\ finalized = FALSE /\ cancelled = FALSE
  /\ left = 0 /\ raised = 0 /\ held = 0 /\ paid = 0

Open ==
  /\ ~opened /\ opened' = TRUE
  /\ left' \in Nat /\ held' = Reserve
  /\ UNCHANGED <<finalized, cancelled, raised, paid>>

\* What comes in is held, and only while there is something left to sell.
Sell ==
  /\ opened /\ ~cancelled
  /\ left' \in 0 .. left
  /\ raised' >= raised
  /\ left = 0 => raised' = raised
  /\ held' - held = raised' - raised
  /\ UNCHANGED <<status, paid>>

Cancel ==
  /\ opened /\ cancelled' = TRUE
  /\ UNCHANGED <<opened, finalized, left, raised, held, paid>>

Refund ==
  /\ cancelled
  /\ raised' \in 0 .. raised
  /\ held' \in 0 .. held /\ held - held' = raised - raised'
  /\ UNCHANGED <<status, left, paid>>

\* What is paid out comes from what is held.
PayOut ==
  /\ held' \in 0 .. held
  /\ paid' - paid = held - held'

Finalize ==
  /\ opened /\ ~cancelled
  /\ finalized' = TRUE
  /\ PayOut
  /\ UNCHANGED <<opened, cancelled, left, raised>>

Withdraw ==
  /\ finalized /\ ~cancelled
  /\ held' = 0 /\ PayOut
  /\ UNCHANGED <<status, left, raised>>

WriteOff ==
  /\ finalized /\ ~cancelled
  /\ left' = 0
  /\ UNCHANGED <<status, raised, held, paid>>

Next ==
  Open \/ Sell \/ Cancel \/ Refund \/ Finalize \/ Withdraw \/ WriteOff

Spec == Init /\ [][Next]_ledger_vars
=============================================================================
