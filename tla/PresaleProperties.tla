-------------------------- MODULE PresaleProperties --------------------------
(***************************************************************************)
(* What the presale program promises, as properties of Presale.            *)
(***************************************************************************)
EXTENDS Presale, Functions

Initialized == admin_account # NoAdmin

Bought == [u \in Users |-> user[u].user_buy_amount]
Contributed == [u \in Users |-> user[u].user_sol_contributed]

\* What all buyers together have bought, have contributed, and still hold.
TokensSold == SumFunction(Bought)
SolPaid == SumFunction(Contributed)
SolHeld == SumFunctionOnSet(lamports, Users)

\* A wallet that has bought something, or paid, and was not refunded yet.
Unrefunded(u) ==
  /\ user[u].user_buy_amount > 0 \/ user[u].user_sol_contributed > 0
  /\ lamports[u] + user[u].user_sol_contributed = Funds[u]

NobodyRefundedTwice == \A u \in Users : lamports[u] <= Funds[u]

-----------------------------------------------------------------------------
(* Invariants *)

\* Every field keeps its width, every flag is 0 or 1, and balances are
\* never negative: the checked arithmetic leaves no other state.
TypeOK ==
  /\ now \in 0 .. MaxTime
  /\ admin_account \in Admins \cup {NoAdmin}
  /\ presale \in PresaleAccount
  /\ user \in [Users -> UserAccount]
  /\ escrow \in Account
  /\ lamports \in [Wallets -> Nat]
  /\ vault \in Nat
  /\ tokens \in [Users \cup Admins -> Nat]

\* No purchase is lost or double counted between the sale's counter
\* (buy_token) and the buyers' records: what was sold and what is left make
\* up the allotment fixed by initialize, until withdraw_token writes off
\* what is left; the sale never sells more than it allotted.
AllocationConserved ==
  /\ TokensSold + presale.total_token_remained <= presale.total_presale_token
  /\ \/ TokensSold + presale.total_token_remained
          = presale.total_presale_token
     \/ presale.is_finalized = 1 /\ presale.total_token_remained = 0

\* Every lamport total_sol_amount says was raised and not refunded is in the
\* escrow, with the team or with the admin, on top of the rent reserve:
\* buy_token, refund_token, finalize and withdraw, run in any order and any
\* number of times, agree with the counter.
RaisedIsAccountedFor ==
  Initialized =>
    escrow.lamports + lamports[Team] + lamports[admin_account]
      = RentExemptEscrow + presale.total_sol_amount

\* Until finalize has run, the escrow holds what was raised and not refunded, on
\* top of its own reserve, and the program owns it: no order of purchases and
\* refunds takes it out of the program's hands or lets total_sol_amount promise
\* more than is there. Whose lamports they are is another matter: a wallet
\* refunded twice uses up another's. After finalize the escrow owes nothing.
EscrowBacksRefunds ==
  Initialized /\ presale.is_finalized = 0 =>
    escrow = [lamports |-> RentExemptEscrow + presale.total_sol_amount,
              owner |-> "program"]

\* total_sol_amount is what the buyers are out of pocket, refunds deducted:
\* however refunds are repeated, the buyers together never get back more
\* than they paid.
RaisedIsWhatBuyersPaid ==
  presale.total_sol_amount = SumFunction(Funds) - SolHeld

\* However the purchases of a wallet fall, the one that sells out and is priced
\* by a division included, it gets at least presale_rate tokens per lamport.
NobodyOverpays ==
  \A u \in Users : presale.presale_rate * user[u].user_sol_contributed
                     <= user[u].user_buy_amount

\* Over the whole sale the rounding of the purchase that sells out gives away
\* less than one lamport's worth of tokens.
RoundingIsBounded ==
  presale.presale_rate > 0 =>
    TokensSold < presale.presale_rate * (SolPaid + 1)

\* The cap flags that finalize decides by agree with what is left: sold out
\* means nothing is left, and past a positive soft cap the sale is marked
\* soft-capped whichever purchase got it there.
CapsAgreeWithSales ==
  /\ presale.is_hardcapped = 1 => presale.total_token_remained = 0
  /\ presale.is_softcapped = 1 =>
       presale.total_token_remained < presale.soft_cap
  /\ presale.is_hardcapped = 1 /\ presale.soft_cap > 0 =>
       presale.is_softcapped = 1

\* total_whitelisted_wallets never exceeds the wallets on the list; repeated
\* removals of one wallet can only make it smaller.
WhitelistCountIsBounded ==
  presale.total_whitelisted_wallets
    <= Cardinality({u \in Users : user[u].is_whitelisted})

\* In a presale cancelled before finalize, and as long as no wallet was refunded
\* twice, refund_token accepts the first refund of every buyer, in whatever order
\* they come: escrow, total and the count of participants last for all of them,
\* though purchases may join a wallet more than once or for no tokens.
FirstRefundsAreAccepted ==
  presale.is_cancelled = 1 /\ presale.is_finalized = 0 /\ NobodyRefundedTwice =>
    \A u \in Users :
      Unrefunded(u) => MayRefund(u, user[u].user_sol_contributed)

-----------------------------------------------------------------------------
(* Strengthenings that make the invariants inductive *)

\* Before initialize there is no escrow, no user account, nothing is raised,
\* cancelled or finalized, and nobody was paid.
NothingBeforeInitialize ==
  ~Initialized =>
    /\ presale = ZeroedPresale
    /\ escrow = NoAccount
    /\ \A u \in Users : ~user[u].exists
    /\ lamports[Team] = 0

\* No wallet but the one that ran initialize is paid as the admin.
OnlyTheAdminIsPaid == \A a \in Admins : a # admin_account => lamports[a] = 0

\* The escrow account leaves the program's hands only after finalize, and is
\* never left between zero and its rent minimum.
EscrowOwnership ==
  /\ Initialized /\ escrow.owner # "program" => presale.is_finalized = 1
  /\ RentStateOK(escrow.lamports, escrow.owner)
  /\ escrow.owner = "none" <=> escrow.lamports = 0

FundsInv ==
  /\ TypeOK
  /\ NothingBeforeInitialize
  /\ OnlyTheAdminIsPaid
  /\ RaisedIsAccountedFor
  /\ EscrowBacksRefunds
  /\ EscrowOwnership

\* A wallet without a user account owns and owes nothing, and is not listed.
StrangersOwnNothing ==
  \A u \in Users : ~user[u].exists => user[u] = NewUser(FALSE)

SaleInv ==
  /\ TypeOK
  /\ StrangersOwnNothing
  /\ CapsAgreeWithSales
  /\ WhitelistCountIsBounded

\* What a wallet has is what it started with less what it paid; only refunds,
\* after a cancellation, give it more.
PaidOrRefunded ==
  \A u \in Users :
    LET has == lamports[u] + user[u].user_sol_contributed IN
    has >= Funds[u] /\ (presale.is_cancelled = 0 => has = Funds[u])

\* As long as no wallet was refunded twice, every wallet still to be refunded
\* is counted as a participant.
RefundsAreCounted ==
  NobodyRefundedTwice =>
    Cardinality({u \in Users : Unrefunded(u)}) <= presale.total_participants

RefundInv == PaidOrRefunded /\ RefundsAreCounted

\* Until a purchase sells out, every one is priced at the rate exactly.
PricedExactly ==
  presale.presale_rate > 0 /\ presale.is_hardcapped = 0 =>
    TokensSold = presale.presale_rate * SolPaid

TotalsInv ==
  /\ AllocationConserved
  /\ RaisedIsWhatBuyersPaid
  /\ PricedExactly
  /\ RoundingIsBounded

-----------------------------------------------------------------------------
(* Action properties *)

\* A presale cancelled before it was finalized stays that way: buyers' money
\* leaves the escrow only into buyers' wallets, lamport for lamport, nothing
\* reaches the team or the admin, and no token leaves the vault.
RefundsOnly ==
  presale.is_cancelled = 1 /\ presale.is_finalized = 0 =>
    /\ presale'.is_cancelled = 1 /\ presale'.is_finalized = 0
    /\ \A w \in Wallets \ Users : lamports'[w] = lamports[w]
    /\ \A u \in Users : lamports'[u] >= lamports[u]
    /\ escrow'.lamports + presale.total_sol_amount
         = escrow.lamports + presale'.total_sol_amount
    /\ vault' >= vault

CancelledFundsOnlyRefund == [][RefundsOnly]_vars

\* After the sale has sold out, or tokens were withdrawn, a purchase can
\* neither cost anything nor allocate anything.
NothingSold ==
  Initialized /\ presale.total_token_remained = 0 =>
    /\ Bought' = Bought
    /\ Contributed' = Contributed
    /\ presale'.total_sol_amount <= presale.total_sol_amount

NothingSoldWhenEmpty == [][NothingSold]_vars

\* A wallet removed from the whitelist keeps its record for good: it is never
\* listed again (add_whitelist refuses the existing account), buys nothing more
\* and receives no token of what it bought; all that is left to it is a refund.
RemovedStaysOut ==
  \A u \in Users : user[u].exists /\ ~user[u].is_whitelisted =>
    /\ user'[u] = user[u]
    /\ tokens'[u] = tokens[u]
    /\ lamports'[u] >= lamports[u]

RemovalIsFinal == [][RemovedStaysOut]_vars

-----------------------------------------------------------------------------
(* The program as an account of money *)

\* The abstract account behind the program's own: what was paid out is what the
\* team and the admin received.
Ledger == INSTANCE SaleLedger WITH
  Reserve <- RentExemptEscrow,
  opened <- Initialized,
  finalized <- presale.is_finalized = 1,
  cancelled <- presale.is_cancelled = 1,
  left <- presale.total_token_remained,
  raised <- presale.total_sol_amount,
  held <- escrow.lamports,
  paid <- lamports[Team]
            + (IF Initialized THEN lamports[admin_account] ELSE 0)

\* Every instruction changes the totals together in one of the ways the account
\* allows: what comes in is held, while something is left to sell; refunds
\* happen only after a cancellation and lower what was raised by what they cost;
\* the team and the admin are paid only what was held, only when the presale is
\* settled and not cancelled; cancellation and settlement are never undone.
PresaleImplementsLedger == Ledger!Spec

-----------------------------------------------------------------------------
(* Properties of a presale whose admin never forces finalize and never      *)
(* postpones the sale.                                                      *)

\* finalize without force settles the presale as finalized only when a cap
\* was reached: the sale sold out, or no more than soft_cap of the allotment
\* was left, and a presale that reached neither is cancelled.
FinalizedMeansCapReached ==
  presale.is_finalized = 1 =>
    \/ TokensSold = presale.total_presale_token
    \/ TokensSold + presale.soft_cap > presale.total_presale_token

\* The admin gets at the lamports and the unsold tokens before the end of the
\* sale only when everything was sold.
PaidOutEarlyMeansSoldOut ==
  Initialized /\ now < presale.end_time
    /\ \/ presale.is_finalized = 1
       \/ escrow.lamports < RentExemptEscrow + presale.total_sol_amount
  => TokensSold = presale.total_presale_token

\* Strengthening: what was finalized before the end of the sale is sold out.
FinalizedEarlyMeansSoldOut ==
  presale.is_finalized = 1 /\ now < presale.end_time =>
    TokensSold = presale.total_presale_token

\* The presale is not finalized by force; the end of the sale is not postponed.
NeverForced ==
  presale.is_finalized = 0 /\ presale'.is_finalized = 1 =>
    \E signer \in Admins : Finalize(signer, 0)

NeverPostponed == Initialized => presale'.end_time <= presale.end_time

-----------------------------------------------------------------------------
(* Liveness *)

Settled == presale.is_finalized = 1 \/ presale.is_cancelled = 1

\* The cluster's clock advances, and the admin goes on calling finalize
\* without force until it is accepted; nobody else has to do anything.
FairSpec ==
  /\ Spec
  /\ WF_vars(Tick)
  /\ WF_vars(\E signer \in Admins : Finalize(signer, 0))

\* What finalize needs in order to pay the team: a share of at most the whole,
\* a product with what can be raised that does not overflow, and a wallet of the
\* team's that the runtime lets it credit whatever the share.
TeamCanBePaid ==
  /\ presale.team_percent <= BasisPoints
  /\ presale.team_percent * SumFunction(Funds) \in U64
  /\ TeamFunds >= RentExemptWallet

\* Every presale whose team can be paid is settled: whatever the buyers bought
\* and however often the admin moves the dates, the end of the sale is reached
\* as long as it stays within the clock's bound, and finalize is then accepted
\* and either finalizes or cancels.
EveryPresaleSettles ==
  Initialized /\ presale.end_time <= MaxTime /\ TeamCanBePaid ~> Settled

-----------------------------------------------------------------------------
(* What the repository says of the program and the program does not do. *)

\* Readme.md: "Once finalized, no further operations can be performed on the
\* presale." buy_token does not look at is_finalized.
NoSaleAfterFinalize ==
  [][presale.is_finalized = 1 => Bought' = Bought /\ Contributed' = Contributed]_vars

\* Readme.md: a refund is "their SOL is transferred back". refund_token
\* leaves user_sol_contributed as it was, so a retry pays again.
RefundedAtMostOnce == NobodyRefundedTwice

\* Readme.md: on a refund "the user's tokens are returned". refund_token
\* leaves user_buy_amount, and claim_token does not look at is_cancelled.
RefundedHoldNoTokens ==
  \A u \in Users :
    lamports[u] + user[u].user_sol_contributed > Funds[u] => tokens[u] = 0

\* Readme.md: the admin can set "Max/wallet". buy_token compares user_max_buy
\* with one purchase and not with what the wallet contributed so far.
MaxPerWallet ==
  \A u \in Users : user[u].user_sol_contributed <= presale.user_max_buy

\* errors.rs: "User does not have any claimable tokens." claim_token looks at
\* user_buy_amount, which it leaves as it was, and not at is_claimed.
ClaimedAtMostBought == \A u \in Users : tokens[u] <= user[u].user_buy_amount

\* Readme.md: the admin can "withdraw SOL from the escrow account after the
\* presale has ended". Once withdraw emptied the account, a purchase recreates
\* it under the system program, out of withdraw's and refund_token's reach.
RaisedCanBeWithdrawn ==
  presale.is_finalized = 1 /\ escrow.lamports > 0 => CanDebit(escrow, escrow.lamports)
=============================================================================
