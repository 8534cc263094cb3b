# A formal model of the token presale program

This directory holds TLA+ modules that model the Anchor program of this
repository (`programs/solana_ido`) and the script that runs a presale with it
(`anchor_devnet.ts`), TLC configurations that check them on small instances,
and theorems about them with proofs that TLAPS checks for every value of the
constants.

    tlc -workers 4 -config MCPresale.cfg MCPresale      # a run of the program
    tlc -workers 4 -config MCCampaign.cfg MCCampaign    # a run of the script
    tlapm PresaleSaleProofs.tla                         # any of the eight *Proofs modules

The table of section 3 says which module each configuration belongs to.

## 1. The system

An admin sells part of a token supply for SOL. The program keeps five kinds of
accounts; all of them are shared by all instructions.

| Component | State it keeps | Operations | Source |
|---|---|---|---|
| lifecycle | `PresaleAccount` (dates, caps, flags, counters), `AdminAccount.super_admin` | `initialize`, `finalize`, `cancel_presale` | `initialize.rs`, `finalize.rs`, `cancel_presale.rs`, `lib.rs` |
| sale | what is left to sell, SOL raised, participants, cap flags; each `UserAccount`'s record | `buy_token`, `update_presale_details` | `buy_token.rs`, `update_presale_details.rs`, `state.rs` |
| whitelist | one `UserAccount` per wallet, `total_whitelisted_wallets` | `add_whitelist`, `remove_whitelist` | the two files |
| SOL escrow | lamports and owner of one program-owned account | `buy_token` pays in; `refund_token`, `finalize`, `withdraw` pay out | `refund_token.rs`, `withdraw.rs` |
| token vault | an SPL token account whose authority is the admin | `deposit_token`, `claim_token`, `withdraw_token` | the three files |
| Solana runtime, SPL token program (external) | balances, owners, clock | atomic transactions, rent and owner rules | modelled from how the program uses them |
| events, error codes | none that is read | | not modelled |
| `set_whitelist` | | commented out in the source | not modelled |
| campaign script | the token it created (`newToken`), which functions run and where each is, the list its claim loop works through, transactions that may still land | one mocha `it` per phase: initialize, deposit, add, remove, buy, finalize, claim, withdraw | `anchor_devnet.ts` (see *Left out* for `tests/anchor_local.ts`) |
| client | none | `client/client.ts` connects, loads the interface of another program and prints it | not modelled: calls no instruction |
| deployment script | none | `migrations/deploy.ts` sets the provider | not modelled: nothing else |

How the parts interact: every instruction is one atomic transaction over these
accounts. A transaction that returns an error leaves no trace, so the only
concurrency is the order in which transactions of the admin and of the buyers
land; and since a client that loses a confirmation sends again, any of them may
land more than once. What relates the parts is `PresaleAccount`: the sale
writes the counters and cap flags that `finalize` decides by; `finalize` opens
the vault and the escrow to claims and withdrawals; `cancel_presale` opens the
escrow to refunds.

The script uses the program from outside. It sends one transaction at a time
and awaits its confirmation; mocha runs its functions one after the other,
whatever became of the ones before, and stops waiting for one after 100 seconds
(`-t 100000` in `Anchor.toml`) while the function itself runs on.

What makes it hard:

- **Order.** Nothing forces the order finalize, claim, withdraw. `finalize` and
  the last purchases share one second (`end_time` itself); `cancel_presale` and
  `update_presale_details` are accepted at any time, also after `finalize`.
- **Repetition.** `refund_token`, `claim_token`, `finalize` and
  `remove_whitelist` do not look at whether they ran before.
- **Two ledgers.** `total_sol_amount` and the escrow's balance, the sale's
  counter and the buyers' records, are kept apart and must agree.
- **The escrow's life.** Its rent reserve is part of its balance; emptied, the
  account disappears and a later payment recreates it under another owner.
- **Lost confirmations.** A transaction whose confirmation the script does not
  see may land later, between any two steps of later functions or of a later
  run.
- **Partial failure.** A function that throws leaves the rest of its loop
  undone and the next function starts anyway; the creation of a token account
  stands outside the `try` block (`anchor_devnet.ts:994`), one assertion
  inside a `try` block that swallows it (747).
- **Stale lists.** The claim loop works through a list fetched at its start
  (978) and reads each account again (987).
- **Restarts.** A second run creates a new token, but presale, escrow and user
  accounts are at the same addresses as before.
- **Boundaries.** Integer division at the purchase that sells out, checked
  multiplication and counters, caps of zero, rate zero.

What makes each component correct: the lifecycle decides by what was sold and
settles every presale; the sale neither loses nor invents tokens or lamports
and honours its price; the whitelist counts wallets; the escrow has what
refunds need until it is paid out; the vault gives each wallet what it bought.
The script never makes the program do what repeated calls could do (deliver
twice, pay the team twice in one run), comes to an end, and, when no function
failed, has served everybody.

## 2. Modules

| Module | Models | Source, or who checks it |
|---|---|---|
| `SolanaRuntime` | the runtime: integer widths, accounts with balance and owner, who may debit, rent minimum | external, except the field widths of `state.rs` |
| `PresaleMath` | basis points, pricing of a purchase | `initialize.rs:79-81`, `buy_token.rs:47-56` |
| `Presale` | the program: one action per instruction | all of `instructions/` |
| `SaleLedger` | abstract: how the totals of a presale may change together | what the instructions promise about lamports and tokens |
| `PresaleProperties` | invariants, action properties, liveness, the refinement mapping to `SaleLedger`, the statements the code does not meet, and the strengthenings the proofs use | |
| `MCPresale` | values for TLC | |
| `Campaign` | the script composed with `Presale`: calls, confirmations, mocha, late transactions, reruns, buyers who act by themselves | `anchor_devnet.ts` |
| `CampaignProperties` | what a campaign promises, and its strengthenings | |
| `MCCampaign` | values for TLC | |
| `PresaleProofs` | arithmetic lemmas, type correctness | TLAPS |
| `PresaleFundsProofs` | where the lamports are | TLAPS |
| `PresaleSaleProofs` | counters, caps, the empty sale, removal from the whitelist | TLAPS |
| `SumProofs` | the library's sum over a finite set: what one changed term does to it | TLAPS |
| `PresaleTotalsProofs` | prices, the counters as sums of the buyers' records, first refunds, what `finalize` decides, `Presale` implements `SaleLedger` | TLAPS |
| `CampaignProofs` | type correctness; a campaign is a behaviour of `Presale` | TLAPS |
| `CampaignClaimProofs` | nobody receives more than was bought | TLAPS |
| `CampaignRunProofs` | what runs of the script come to: the team's shares, what a run without failures means, what `finalize` decides in a campaign | TLAPS |

State of `Presale`: `presale` is `PresaleAccount` field by field; `user[u]` is
the `UserAccount` at the address derived from wallet `u`, with `exists` for the
discriminator Anchor writes (`public_key` is `u` itself); `admin_account` is
`super_admin`, or `NoAdmin` while there is none; `escrow` the escrow account;
`lamports` the wallets (buyers start with `Funds`; for the team and the admins
only what they were paid is recorded, the team's own being `TeamFunds`); `vault` and `tokens` the SPL token
accounts; `now` the clock. One action per instruction carries the instruction's
name in camel case. `Sold`, `Purchased`, `Refunded`, `MayBuy`,
`MayRefund`, `CancelledByFinalize` and `SaleOver` are the parts of handlers that are ideas
of their own.

State of `Campaign`, on top of `Presale`'s: `run` numbers the runs of the script;
`mint` is `newToken`, named by the run that created it, 0 while undefined;
`current` is the function mocha waits for, `running` those called and not
returned, `step[k]` the call function `k` is about to make, `failed` those that
threw or timed out; `loop`, `accounts` and `claiming` are the place of the claim
function in its loop, its list and the wallet it serves; `presale_mint` is the
mint the vault was created for, `atas` the wallets with a token account for
`mint`, `in_flight` the set of what was sent and may still land; `faults` counts
the lost confirmations, failed reads and timeouts. `Its` lists the functions and the transactions of each, in the order
of the file. A call ends in one of three ways: `Confirmed` (it lands and the
function goes on), `Refused` (the simulation rejects it, nothing is sent, the
call throws), `Unconfirmed` (it is sent, the call throws, it may land later).
`CreateToken` is the part of the first function before `initialize`;
`FetchAccounts`, `VisitAccount` and `AllVisited` are the claim loop, `ReadFails`
its list or one of its accounts not being read, which throws; `GivesUp` is
mocha's time limit, `StartAgain` a new run, at any moment; `LandsLate` and
`Expires` are what becomes of an unconfirmed transaction; `OutsideStep` and
`OpensAta` are buyers acting by themselves. What a transaction does is `Lands`,
which is made of `Presale`'s own actions.

Conventions:

- An error return, an Anchor constraint that fails, an overflow
  (`overflow-checks = true` in `Cargo.toml`) or a runtime rule that refuses the
  transaction is a guard: the transaction is no step.
- `initialize` creates the vault, the escrow and the presale account with
  `init` at fixed addresses, so it succeeds once; the wallet that ran it is the
  only one with an `AdminAccount`. A second wallet in `Admins` shows what the
  admin checks are for.
- The accounts passed to an instruction are those the repository's own clients
  pass: the refund goes to the wallet the user account belongs to, the team's
  share to the team's wallet, a claim to the buyer's token account. Handlers
  take some of them without a constraint; what other accounts would do is
  outside this model.
- `claim_token` is signed by any wallet, but the vault's token authority is the
  wallet that ran `initialize` (`initialize.rs:18`), so the token program
  accepts only that signature (`VaultAuthority`).
- `total_participants` and `total_whitelisted_wallets` are `u32`; `MaxCounter`
  is where they overflow, `MaxU32` on chain and 3 in the checked instances so
  that overflow happens.
- In `Campaign`, an error while the script reads an account back after a
  confirmed transaction is not told apart from a lost confirmation whose
  transaction lands at once (`Unconfirmed`, then `LandsLate`); a transaction
  that passes simulation and fails on chain is a `Refused` one, as neither
  leaves a trace and both throw. When the first function fails before it has
  derived the addresses, every later call throws without sending (`mint = 0`).
- The vault's address is derived from the mint, so a call about another token
  than the presale's finds no vault and is refused (`HasVault`).
- `Acceptable`, whether the simulation accepts a call, is `ENABLED Lands(...)`. It
  also says that before `initialize` no other instruction is accepted, which
  follows from the guards of the instructions (each looks for an admin, a user
  account or the escrow, and there is none): the prover cannot look into
  `ENABLED`, so what it needs to know is stated. The states TLC reaches are the
  same without it.
- `in_flight` is a set of transactions, each with the run it belongs to. Two calls
  of one run that are alike in every argument, both unconfirmed, would be one
  element: lists in which one wallet buys the same amount twice, or is removed
  twice, could have such calls, the script's own lists have none.
- A new run forgets the token accounts of earlier tokens (`atas`): late
  creations of those change nothing that anything reads.
- Definitions commented "Slip for the properties to catch" are variants of the
  definition after them with a plausible error. No behaviour uses them. They
  record which error each property is there to catch, and are put in the place
  of the original to see that it does.

The rent rule is that of the escrow (`CanDebit`, `CanCredit`) and of the system
wallets the program pays into or is paid from: a buyer's in `buy_token` and
`refund_token`, the team's in `finalize`, which refuses to leave it between
nothing and the minimum.

Left out: transaction fees and the rent paid for creating accounts, events, error codes, SPL transfers made outside the program (the admin
is the vault's token authority and could make some), negative clocks, what the
script prints, the scenario of cancellation and refunds, which is commented out
in both scripts, and `tests/anchor_local.ts` as far as it differs: it makes the
same calls after airdrops, but the `try` around its last purchase is commented
out (705), so that function throws when the purchase does, and only its claim
is in a `try` block (984). What `Campaign` says of errors is `anchor_devnet.ts`.

## 3. What the runs check

### The program

These runs are of module `MCPresale`. Bounds common to all: clock `0 .. 2`
(`MaxTime`), sale of duration 1, purchases of 0 to 2 lamports (0 to 3 in
*corners*), wallets with 4 lamports, rent minimum 2 for wallets and 3 for the
escrow; the team's wallet starts with 2 lamports (in the campaigns with less, so
that a small share may be refused). Widths are capped at 100000, small enough for
the products of *corners* to overflow.

| Run | Instance | Shows |
|---|---|---|
| `presale` | 2 buyers, 1 admin, 9 tokens at 2 per lamport, soft cap 3, half for the team, dates may move to 0 or 2, finalize with and without force (964k states) | every invariant and action property below and the refinement of `SaleLedger`, for any order and repetition |
| `corners` | 1 buyer, 2 admins, seven parameter sets: rate 0 with and without tokens, no soft cap, no allotment, 200% for the team, shares that round, products that overflow; dates may move to 0, 1 or 2, finalize with and without force, fairness (212k) | funds, price, caps, first refunds, empty sale; every presale whose team can be paid is settled |
| `settles` | as `presale`, no force, dates may move to 0 or 1, so that the end comes earlier and never later (80k) | `finalize` decides by what was sold |

Why the bounds are enough: 9 tokens at 2 per lamport make the last token a
purchase that rounds; two purchases of 2 lamports reach the soft cap and a
third sells out, so every combination of cap flags occurs; wallets of 4 lamports
are stopped by the rent rule, by the funds and by the maximum; three ticks are
before, at and after `end_time`; two buyers are what repeated refunds need in
order to reach another buyer's lamports, and three counted participants
overflow the counter. `TokenSupply` equals one deposit, so the vault is empty,
full, or partly claimed.

Invariants of `presale`:

- `AllocationConserved`: sold plus left is the allotment until
  `withdraw_token` writes off the rest.
- `RaisedIsAccountedFor`: escrow, team and admin together hold the rent reserve
  and `total_sol_amount`.
- `EscrowBacksRefunds`: until `finalize`, the escrow alone does, and is the
  program's. It does not say whose the lamports are: a wallet refunded twice
  uses up another's.
- `FirstRefundsAreAccepted`: what refunds need. In a presale cancelled before
  `finalize`, `refund_token` accepts the first refund of every buyer, in any
  order: the escrow, `total_sol_amount` and the checked decrement of
  `total_participants` last for all of them. The condition is that no wallet was
  refunded twice (`refund_twice` below shows that the code allows it): one repeated
  refund already takes the count of participants, or the lamports, from
  under the next buyer.
- `RaisedIsWhatBuyersPaid`: `total_sol_amount` is what the buyers are out of
  pocket.
- `NobodyOverpays`: each wallet has at least the rate per lamport it is recorded
  with, the purchase priced by a division included.
- `RoundingIsBounded`: over the whole sale, rounding gives away less than one
  lamport's worth of tokens.
- `CapsAgreeWithSales`, `WhitelistCountIsBounded`: flags and a counter against
  the state they summarise.

Action properties: `CancelledFundsOnlyRefund` (a presale cancelled before
`finalize` only refunds), `NothingSoldWhenEmpty`, and `RemovalIsFinal` (a wallet
removed from the whitelist keeps its record for good, buys nothing more and
receives no token; a refund is all that is left to it).

Refinement: `PresaleImplementsLedger` is `SaleLedger`'s specification with
`left`, `raised` and `held` read off the sale's counter, `total_sol_amount` and
the escrow, and `paid` as what the team and the admin received. It says in one
place how the totals may move: what comes in is held, only while something is
left to sell; only refunds of a cancelled presale lower what was raised, and by
what they cost; payouts come out of what is held, and only when the presale is
settled and not cancelled; settlement and cancellation are never undone.

`settles`: `FinalizedMeansCapReached` and `PaidOutEarlyMeansSoldOut`, of an admin
who neither forces `finalize` (which makes both false, by design) nor moves the
end of the sale to a later time (which makes the second false).

`corners`, liveness (`EveryPresaleSettles`, under `FairSpec`): weak fairness of the
clock, which the cluster provides, and of the admin's unforced `finalize`, which
somebody has to call; nothing is assumed of buyers or of the admin's other
calls, so he may move the dates for ever, within the clock's bound. Weak
fairness is enough: once the clock passes every end, `finalize` is enabled until it
runs. The condition `TeamCanBePaid` names the cases in which `finalize` is
refused however often it is sent, and in which only `cancel_presale` or
`finalize` of a presale that missed its caps settles anything: a `team_percent`
above 10000 may ask for more than the escrow can give, its product with the
total may overflow, and a share below the rent minimum cannot be paid to a team
wallet that is empty. One of the parameter sets of the run has twice the whole as
the team's share, so that nothing is promised of it.

CHECK_DEADLOCK is on: an initialized presale always accepts `cancel_presale`.

### The campaign

These runs are of module `MCCampaign`. The small campaign adds buyer `b1` by a
function of its own, `o1` and `b2` in the loop, and removes `o1`; it sells 9 tokens
at 2 per lamport: `b2`'s purchase takes 4 and `b1`'s, of more than is left, the
rest. The other has the script's own eight wallets and numbers, in
units of a hundredth of a SOL.

| Run | Instance | Shows |
|---|---|---|
| `campaign` | small; two runs of the script, one fault; `o1` also buys once and asks for refunds by himself, `b2` may open a token account by himself; clock to the end of the sale (470k states) | all that is listed below but liveness |
| `campaign_real` | the script's own lists; one run, one fault, an open sale, fairness (65k) | `CampaignEnds`, `CampaignServes` |

- `DeliveredAtMostBought`: `claim_token` would pay a repeated claim, but in a
  campaign nobody receives more than was bought. The creation of the token
  account, refused the second time, keeps the script from it: at most one
  claim per wallet and token is ever due, in flight or delivered.
- `TeamPaidPerRun`: at most one share per run, a late `finalize` included. That a
  second run may pay a second share (its `initialize` is refused, its `finalize`
  is not) is what the bound says: the presale has one address whatever the token.
- `GreenMeansServed`: a run in which no function failed, and that ends before
  the sale does, has given every wallet on the list exactly what it bought,
  emptied vault and escrow, and paid the team its share, whatever buyers did in
  between, and though the script swallows what goes wrong in the purchase of
  more than is left. The mocha report can be relied on.
- `NothingOwedIsWithdrawn`: the withdrawal of tokens takes nothing that a wallet
  on the list has bought and not received, unless a function of that run has
  failed before. (Of a sold-out sale it may take what a removed wallet bought.)
- `CampaignEnds`: the script comes to its end whatever fails. `CampaignServes`:
  when nothing fails, everybody is served.

Why the bounds are enough: one lost confirmation already gives a transaction
that may land at any later point, one time limit a function that runs beside
its successor, and a second run meets what the first left behind. Two wallets
in a loop are what a partial failure needs (one done, one not), and `b2`'s own
token account makes the claim function throw with `b1` still to serve. `o1`'s
purchase before its removal is the case the removal is about. The clock's one
tick reaches `end_time`, where `finalize` and purchases are both accepted.

Fairness (`FairCampaign`): the event loop is not idle for ever while a function of
the script can go on, and a call it awaits settles one way or another, which the
connection's confirmation timeout provides. It is stated of the script as a
whole, so nothing is assumed of which function goes first, nor of mocha's
patience, the buyers or what is in flight. `CampaignServes` has as its condition
that nothing fails (`faults` stays 0); its instance leaves out buyers who act or
open token accounts by themselves and the end of the sale, so it follows one
execution, of the script's own lists and numbers, to its end.

CHECK_DEADLOCK is FALSE here: the script comes to its end.

### Where the code departs from what the repository says

Each of these runs checks one statement and ends with a counterexample.

| Run | Said | Done |
|---|---|---|
| `sale_after_finalize` | `Readme.md:69` no operations once finalized | `buy_token` never looks at `is_finalized` |
| `refund_twice` | `Readme.md:37` their SOL is transferred back | the refunded amount stays on record and is paid again |
| `refund_and_claim` | `Readme.md:37` the tokens are returned | the allocation stays on record, and cancellation does not stop claims of a finalized presale |
| `max_per_wallet` | `Readme.md:13` Max/wallet | the maximum is per purchase |
| `claim_twice` | `errors.rs:25` no claimable tokens | `is_claimed` is written and never read |
| `stranded_sol` | `Readme.md:53` withdraw the SOL | after `withdraw` emptied the account, later payments recreate it out of reach |
| `all_buyers_claim` | `anchor_devnet.ts:977` all who bought claim | wallets taken off the whitelist after buying are skipped, and the admin withdraws their tokens |

The last is of module `MCCampaign`.

## 4. What is proved

From the named assumptions of `SolanaRuntime` (`RuntimeAssumption`: widths and
rent minimums are naturals, the wallet's minimum positive and at most the
escrow's) and `Presale` (`PresaleAssumption`: finitely many buyers; buyers,
admins and the team are different wallets; arguments have their Rust types;
buyers' wallets and the team's are empty or rent-exempt; the clock fits u64), for every value of the
constants:

| Theorem | Module | Property |
|---|---|---|
| `TypeCorrect` | `PresaleProofs` | `TypeOK` |
| `RaisedAccounted` | `PresaleFundsProofs` | `RaisedIsAccountedFor` |
| `RefundsBacked` | `PresaleFundsProofs` | `EscrowBacksRefunds` |
| `CancelledOnlyRefunds` | `PresaleFundsProofs` | `CancelledFundsOnlyRefund` |
| `CapsAgree` | `PresaleSaleProofs` | `CapsAgreeWithSales` |
| `WhitelistBounded` | `PresaleSaleProofs` | `WhitelistCountIsBounded` |
| `EmptySaleIsOver` | `PresaleSaleProofs` | `NothingSoldWhenEmpty` |
| `RemovedForGood` | `PresaleSaleProofs` | `RemovalIsFinal` |
| `PriceKept` | `PresaleTotalsProofs` | `NobodyOverpays` |
| `AllocationIsConserved` | `PresaleTotalsProofs` | `AllocationConserved` |
| `RaisedIsPaid` | `PresaleTotalsProofs` | `RaisedIsWhatBuyersPaid` |
| `RoundingBounded` | `PresaleTotalsProofs` | `RoundingIsBounded` |
| `FirstRefundsAccepted` | `PresaleTotalsProofs` | `FirstRefundsAreAccepted` |
| `FinalizedReachedACap` | `PresaleTotalsProofs` | `FinalizedMeansCapReached`, if `finalize` is never forced |
| `PaidOutEarlySoldOut` | `PresaleTotalsProofs` | `PaidOutEarlyMeansSoldOut`, if `finalize` is never forced and the end never postponed |
| `LedgerImplemented` | `PresaleTotalsProofs` | `PresaleImplementsLedger` |
| `CampaignTypeCorrect` | `CampaignProofs` | `CampaignTypeOK` |
| `ClaimsAreBounded` | `CampaignClaimProofs` | `DeliveredAtMostBought` |
| `TeamIsPaidPerRun` | `CampaignRunProofs` | `TeamPaidPerRun` |
| `GreenRunServes` | `CampaignRunProofs` | `GreenMeansServed` |
| `WithdrawsNothingOwed` | `CampaignRunProofs` | `NothingOwedIsWithdrawn` |
| `CampaignReachesACap` | `CampaignRunProofs` | `FinalizedMeansCapReached`, of campaigns |
| `CampaignPaysOutSoldOut` | `CampaignRunProofs` | `PaidOutEarlyMeansSoldOut`, of campaigns |

Those of the `Campaign*Proofs` modules also rest on `CampaignAssumption`
(`Campaign`): the script's wallets, arguments and purchases are ones the
program's model accepts, its loop over other wallets is not empty and removes at
least one of them, and it is run at least once. The lists, the number of runs
and the number of faults are arbitrary.

The argument. `TypeOK` is inductive as it stands: each checked operation bounds
the field it writes, a debit is bounded by the balance, and the rent rule keeps
a buyer's wallet from going negative. Its one arithmetic point is that a
quotient of naturals is a natural no larger than the dividend
(`QuotientBounds`).

`FundsInv` adds to the lamport invariants what makes them inductive:
`NothingBeforeInitialize` (no escrow, no user account, nothing raised or
cancelled before `initialize`: otherwise a purchase or a refund could happen
before the reserve is there), `EscrowOwnership` (the account leaves the program's
hands only after `finalize`, and exists as long as it holds lamports) and
`OnlyTheAdminIsPaid` (the other wallets in
`Admins` have received nothing, so that initializing starts from zero). Steps
that move lamports go through `FundsMoved`, the others through
`FundsUntouched`. `CancelledOnlyRefunds` follows from `FundsInv` step by step.

`SaleInv` adds `StrangersOwnNothing` (a wallet without a user account has no
allocation and is not listed), without which `add_whitelist` could wipe a
buyer. The counter of the list is proved over the cardinality of the list: an
addition lists the wallet it counts, a removal takes off at most the one it counts
down.

`RemovedForGood` needs only that `add_whitelist` refuses an existing account and
that purchases and claims ask for `is_whitelisted`. `PriceKept` takes one wallet
at a time: a purchase priced by the product is exact, and one priced by the
quotient costs at most what the product would.

`AllocationIsConserved`, `RaisedIsPaid` and `RoundingBounded` are about sums over
all buyers. The library defines a sum by recursion over the set, so what is
needed of it is proved once, in `SumProofs`, for any finite set: the sum of
natural amounts is the number of units owned, a unit being a pair of an owner and
a number up to the amount (`Units`). That the recursion agrees with this count
is shown by looking at a smallest set on which it would not, which exists
because strict inclusion of finite sets is well-founded. From the count follow
`SumSplits` and `SumChanges` (when one term changes, the sum changes by as much), and
each instruction changes one buyer's record. `TotalsInv` joins the three
statements with `PricedExactly`, without which `RoundingIsBounded` is not
inductive: rounding happens once, at the purchase that sells out, and until
then the tokens sold are the rate times what was paid. `FundsInv` and `SaleInv`
give what purchases and refunds move.

`FirstRefundsAccepted` rests on all of these and on `RefundInv`. `PaidOrRefunded` says
that before a cancellation a wallet has what it started with less what it paid,
and afterwards no less; so while nobody was refunded twice, a wallet is either owed
its whole refund or has had it, and a refund that leaves nobody refunded twice
takes one wallet out of those owed. `RefundsAreCounted` compares their number with
`total_participants`: a purchase that brings a new wallet in finds no allocation on
its record and is counted. That the escrow and the total cover the refund is
`OwedIsRaised`, over the sum of the wallets: refunding this one still leaves every
wallet at most what it started with, and `RaisedIsWhatBuyersPaid` says what the
total is then.

`FinalizedReachedACap` and `PaidOutEarlySoldOut` have hypotheses about the behaviour:
`NeverForced` (the presale becomes finalized only by a `finalize` without force)
and `NeverPostponed` (once initialized, the end moves only to earlier times).
The flag of `finalize` makes both statements false otherwise, a later end the
second, by design; the run `settles` is an instance that satisfies both hypotheses.
An unforced `finalize` reads the cap flags, `CapsAgreeWithSales` says what they mean
of what is left, `AllocationConserved` what that means of what was sold, and a
finalized presale sells on only within its allotment (`FinalizedStays`). Before
its end a presale is over only when sold out, and stays so (`SoldOutStays`).

`LedgerImplemented` uses `FundsInv` for the mapping: an instruction that passes
its guards moves the totals as one of `SaleLedger`'s steps, or leaves them as
they are. `NothingBeforeInitialize` is what makes the initial states agree,
`OnlyTheAdminIsPaid` that `paid` starts at zero when `initialize` fixes who is
meant.

A campaign is a behaviour of `Presale` by construction, since `Lands` is made of
its actions; the lemma `CampaignInProgram` records it, so that every theorem about
the program can be used of campaigns. What it takes is that every call has
arguments the model accepts: the shape of the script, whatever the lists (the
`k`-th function makes `Calls(k)` calls and each is a transaction, `ItsShape`), and
`ScriptInv` (where the functions are, which tokens transactions are about, where
the claim loop is).

`ClaimsAreBounded` rests on `ClaimInv`. `OneClaimEach` says that of each wallet and
token at most one claim is due (the next call of the claim function), in flight,
or delivered, and none while the wallet has no account for the token: the claim
becomes due by creating the account, and is no longer due once it was sent. A
function left running by mocha and a second run are covered by `ServingOK` and by
`NothingOfLaterRuns`: nothing is in flight about a token not yet created.

`TeamIsPaidPerRun` rests on `TeamInv`. A run is spent when its `finalize` has landed or
never will (`Spent`); a run has one `finalize` to call and, once sent, one that may
land, so a landing spends its run and the team has at most one share for each
spent run. The share is a part of `total_sol_amount`, which purchases raise
later and refunds could lower; `PaidForGood` rules the latter out: once the
team was paid, a cap is reached and nothing the script sends cancels the
presale.

`GreenRunServes` and `WithdrawsNothingOwed` rest on `RunInv`. What is known while no
function of the run has failed: it runs one function at a time, the presale and
its vault are its own, and nothing but purchases whose errors are caught (and
`initialize`, refused by now) can still land (`OwnPresale`). That
a run whose first function passed owns the presale is why the invariant also
speaks of transactions sent before `initialize` landed (`OnlyInitializeBefore`). A
`finalize` that passes before the end of the sale finds it sold out, and of a
sold-out sale nothing that buyers do changes anything; so what the functions
after it achieve stays (`ServedSoFar`): the claim loop has each unserved wallet
still before it (`StillToServe`), the withdrawal of tokens empties the vault, and
the withdrawal of SOL the escrow.

`CampaignReachesACap` and `CampaignPaysOutSoldOut` are the two settlement theorems
without their hypotheses: the script calls `finalize` without force and has no
call that moves the dates (`CampaignIsUnforced`), so every campaign satisfies them.

Model-checked only: `EveryPresaleSettles`, `CampaignEnds` and `CampaignServes`, which
are liveness under fairness, out of the prover's reach. Every invariant, action
property and refinement that a passing run checks is also a theorem, the two of
`settles` under the hypotheses named above.

## 5. Plan

Done, in this order: `SolanaRuntime`, `PresaleMath`, `Presale`,
`PresaleProperties` and their runs; `PresaleProofs`, `PresaleFundsProofs`,
`PresaleSaleProofs`; `SaleLedger` and its refinement; `Campaign`,
`CampaignProperties` and their runs; `CampaignProofs` and `CampaignClaimProofs`;
`SumProofs` and `PresaleTotalsProofs`; `CampaignRunProofs`.

Left: `PresaleMath` against a reference definition over a grid of inputs.

### Not modelled

- Fees, compute limits, and the rent paid for creating accounts: outside the
  program.
- Events and error codes: written and never read.
- `set_whitelist`: commented out; there is no such instruction.
- `client/client.ts`, `client/client_test.ts`, `migrations/deploy.ts`: templates
  that call no instruction of this program.
- The scenario of cancellation and refunds in the scripts: commented out. The
  instructions it would call are modelled in `Presale`, in any order.
