---------------------------- MODULE SolanaRuntime ----------------------------
(***************************************************************************)
(* What the presale program relies on from the machine under it: checked   *)
(* integers (Cargo.toml sets overflow-checks, so an overflowing operation  *)
(* aborts the transaction), and the runtime's rules for moving lamports.   *)
(* A transaction that fails leaves no trace, hence every rule here is a    *)
(* guard of the instruction that needs it.                                 *)
(***************************************************************************)
EXTENDS Integers

CONSTANTS
  MaxU64,             \* 2^64 - 1 on chain
  MaxU32,             \* 2^32 - 1 on chain
  MaxCounter,         \* where the program's u32 counters overflow: MaxU32 on
                      \* chain, a few in a checked instance
  RentExemptWallet,   \* least balance of a system account with no data
  RentExemptEscrow    \* least balance of the escrow account (16 data bytes)

ASSUME RuntimeAssumption ==
  /\ MaxU64 \in Nat
  /\ MaxU32 \in 0 .. MaxU64
  /\ MaxCounter \in 0 .. MaxU32
  /\ RentExemptWallet \in Nat \ {0}
  /\ RentExemptEscrow \in Nat
  /\ RentExemptWallet <= RentExemptEscrow

U64 == 0 .. MaxU64
U32 == 0 .. MaxU32
Counter == 0 .. MaxCounter
Flag == {0, 1}        \* a u8 the program uses as a boolean

-----------------------------------------------------------------------------
(* An account of the runtime is its balance and its owner. With no lamports *)
(* it does not exist: the runtime drops its data and its owner.             *)

Owners == {"none", "program", "system"}
Account == [lamports : Nat, owner : Owners]
NoAccount == [lamports |-> 0, owner |-> "none"]

\* The balance below which the runtime refuses to leave an account.
RentMinimum(owner) ==
  IF owner = "program" THEN RentExemptEscrow ELSE RentExemptWallet

\* No transaction may leave an account between zero and its rent minimum.
RentStateOK(balance, owner) == balance = 0 \/ balance >= RentMinimum(owner)

\* Only the owner program may take lamports out of an account.
CanDebit(acct, amount) ==
  /\ amount <= acct.lamports
  /\ amount > 0 => acct.owner = "program"
  /\ RentStateOK(acct.lamports - amount, acct.owner)

Debited(acct, amount) ==
  IF amount = acct.lamports THEN NoAccount
  ELSE [acct EXCEPT !.lamports = @ - amount]

\* A transfer to an address with no account creates one the system owns.
OwnerOnCredit(acct) == IF acct.owner = "none" THEN "system" ELSE acct.owner

CanCredit(acct, amount) ==
  RentStateOK(acct.lamports + amount, OwnerOnCredit(acct))

Credited(acct, amount) ==
  IF amount = 0 THEN acct
  ELSE [lamports |-> acct.lamports + amount, owner |-> OwnerOnCredit(acct)]
=============================================================================
