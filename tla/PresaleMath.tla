----------------------------- MODULE PresaleMath -----------------------------
(***************************************************************************)
(* The integer arithmetic of the presale: basis points of a total, and how *)
(* a purchase is priced. Rust's `/` on u64 is \div here.                   *)
(***************************************************************************)
EXTENDS Integers

BasisPoints == 10000

\* part/10000 of whole, rounded down.
Share(whole, part) == (whole * part) \div BasisPoints

\* The sale sells out when what is asked for covers what is left.
SellsOut(remained, rate, amount) == remained <= rate * amount

\* Slips the checked properties must catch: what is asked for is allocated
\* though less is left; the buyer who takes the rest pays for all he asked;
\* the price of the rest is rounded up.
TokensUnclamped(remained, rate, amount) == rate * amount
SolUnclamped(remained, rate, amount) == amount
SolRoundedUp(remained, rate, amount) ==
  IF SellsOut(remained, rate, amount) THEN (remained + rate - 1) \div rate
  ELSE amount

\* tokens_to_allocate and sol_to_transfer of a purchase of `amount` lamports.
TokensToAllocate(remained, rate, amount) ==
  IF SellsOut(remained, rate, amount) THEN remained ELSE rate * amount

SolToTransfer(remained, rate, amount) ==
  IF SellsOut(remained, rate, amount) THEN remained \div rate ELSE amount
=============================================================================
