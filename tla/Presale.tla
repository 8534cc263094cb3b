------------------------------- MODULE Presale -------------------------------
(***************************************************************************)
(* The token presale program: one action per instruction, executed as one  *)
(* atomic transaction. An instruction that returns an error, or whose      *)
(* checked arithmetic or runtime rules fail, changes nothing, so every     *)
(* error path is a guard and leaves no step. Any interleaving of the       *)
(* admin's and the buyers' transactions is a behaviour, and so is a        *)
(* transaction sent twice.                                                 *)
(***************************************************************************)
EXTENDS SolanaRuntime, PresaleMath, FiniteSets

CONSTANTS
  Users,          \* wallets of buyers
  Admins,         \* wallets that may run initialize and the admin calls
  Team,           \* the wallet passed to finalize as team_account
  NoAdmin,        \* stands for "the admin account does not exist yet"
  InitArgs,       \* argument records initialize may be called with
  BuyAmounts,     \* lamports a buyer may ask to spend
  DepositAmounts, \* tokens the admin may deposit
  NewTimes,       \* times update_presale_details may be called with
  ForceFlags,     \* values of finalize's forcible_finalize
  Funds,          \* lamports of every buyer's wallet at the start
  TeamFunds,      \* lamports of the team's wallet at the start
  TokenSupply,    \* tokens of every admin's token account at the start
  MaxTime         \* bound: the last second of the clock

Wallets == Users \cup Admins \cup {Team}

InitArg == [team_percent : U32, presale_rate : U64, user_max_buy : U64,
            presale_duration : U64, total_token_amount : U64,
            token_allocation : U32, softcap_precent : U32]

ASSUME PresaleAssumption ==
  /\ IsFiniteSet(Users)
  /\ Users \cap Admins = {}
  /\ Team \notin Users \cup Admins
  /\ NoAdmin \notin Admins
  /\ InitArgs \subseteq InitArg
  /\ BuyAmounts \subseteq U64
  /\ DepositAmounts \subseteq U64
  /\ NewTimes \subseteq U64
  /\ ForceFlags \subseteq Flag
  /\ Funds \in [Users -> Nat]
  /\ \A u \in Users : RentStateOK(Funds[u], "system")
  /\ TeamFunds \in Nat
  /\ RentStateOK(TeamFunds, "system")
  /\ TokenSupply \in Nat
  /\ MaxTime \in U64

VARIABLES
  now,            \* Clock::get().unix_timestamp
  admin_account,  \* AdminAccount.super_admin, NoAdmin before initialize
  presale,        \* PresaleAccount
  user,           \* the UserAccount at each buyer's derived address
  escrow,         \* the account that holds the lamports raised
  lamports,       \* buyers' balances; what the team and the admins received
  vault,          \* tokens in the token vault
  tokens          \* tokens in the token accounts of buyers and admins

vars == <<now, admin_account, presale, user, escrow, lamports, vault, tokens>>

PresaleAccount ==
  [team_percent : U32, presale_rate : U64, total_whitelisted_wallets : Counter,
   user_max_buy : U64, start_time : U64, end_time : U64,
   presale_duration : U64, total_participants : Counter,
   total_sol_amount : U64, total_token_remained : U64,
   total_presale_token : U64, is_finalized : Flag, is_cancelled : Flag,
   soft_cap : U64, token_allocation : U32, is_hardcapped : Flag,
   is_softcapped : Flag]

\* `exists` is the discriminator anchor writes when it creates the account.
UserAccount ==
  [exists : BOOLEAN, is_whitelisted : BOOLEAN, user_buy_amount : U64,
   user_sol_contributed : U64, is_claimed : Flag]

ZeroedPresale ==
  [team_percent |-> 0, presale_rate |-> 0, total_whitelisted_wallets |-> 0,
   user_max_buy |-> 0, start_time |-> 0, end_time |-> 0,
   presale_duration |-> 0, total_participants |-> 0,
   total_sol_amount |-> 0, total_token_remained |-> 0,
   total_presale_token |-> 0, is_finalized |-> 0, is_cancelled |-> 0,
   soft_cap |-> 0, token_allocation |-> 0, is_hardcapped |-> 0,
   is_softcapped |-> 0]

NewUser(whitelisted) ==
  [exists |-> whitelisted, is_whitelisted |-> whitelisted,
   user_buy_amount |-> 0, user_sol_contributed |-> 0, is_claimed |-> 0]

\* Nothing is deployed; buyers hold their funds and admins the token supply.
Init ==
  /\ now = 0
  /\ admin_account = NoAdmin
  /\ presale = ZeroedPresale
  /\ user = [u \in Users |-> NewUser(FALSE)]
  /\ escrow = NoAccount
  /\ lamports = [w \in Wallets |-> IF w \in Users THEN Funds[w] ELSE 0]
  /\ vault = 0
  /\ tokens = [w \in Users \cup Admins |->
                IF w \in Admins THEN TokenSupply ELSE 0]

-----------------------------------------------------------------------------
(* The checks the instructions share. *)

\* Slips for the properties to catch: a check that lets everything through.
AnySigner(signer) == TRUE
AnyTime == TRUE

\* False for every wallet before initialize.
is_admin(signer) == admin_account = signer

is_finalized == presale.is_finalized # 0

is_presale_live == presale.start_time <= now /\ now <= presale.end_time

\* The vault's token authority is the wallet that ran initialize, so the
\* token program lets only that wallet's transactions take tokens out.
VaultAuthority(signer) == admin_account = signer

-----------------------------------------------------------------------------
(* The clock. Solana's cluster time never goes back. *)
Tick ==
  /\ now < MaxTime
  /\ now' = now + 1
  /\ UNCHANGED <<admin_account, presale, user, escrow, lamports, vault, tokens>>

(* Every account it creates must be new, so it succeeds only once. *)
Initialize(signer, a) ==
  /\ admin_account = NoAdmin
  /\ now + a.presale_duration \in U64
  /\ a.total_token_amount * a.softcap_precent \in U64
  /\ a.total_token_amount * a.token_allocation \in U64
  /\ admin_account' = signer
  /\ LET allotted == Share(a.total_token_amount, a.token_allocation)
     IN  presale' =
           [ZeroedPresale EXCEPT
              !.team_percent = a.team_percent,
              !.presale_rate = a.presale_rate,
              !.user_max_buy = a.user_max_buy,
              !.presale_duration = a.presale_duration,
              !.start_time = now,
              !.end_time = now + a.presale_duration,
              !.soft_cap = Share(a.total_token_amount, a.softcap_precent),
              !.token_allocation = a.token_allocation,
              !.total_token_remained = allotted,
              !.total_presale_token = allotted]
  /\ escrow' = [lamports |-> RentExemptEscrow, owner |-> "program"]
  /\ UNCHANGED <<now, user, lamports, vault, tokens>>

DepositToken(signer, amount) ==
  /\ is_admin(signer)
  /\ amount <= tokens[signer]
  /\ tokens' = [tokens EXCEPT ![signer] = @ - amount]
  /\ vault' = vault + amount
  /\ UNCHANGED <<now, admin_account, presale, user, escrow, lamports>>

\* Slip for the properties to catch: `init_if_needed` instead of `init`.
AlwaysInit(u) == TRUE

(* `init` refuses an existing account: a wallet can be added only once,    *)
(* also after remove_whitelist.                                            *)
CanInit(u) == ~user[u].exists

AddWhitelist(signer, u) ==
  /\ is_admin(signer)
  /\ CanInit(u)
  /\ presale.total_whitelisted_wallets + 1 \in Counter
  /\ user' = [user EXCEPT ![u] = NewUser(TRUE)]
  /\ presale' = [presale EXCEPT !.total_whitelisted_wallets = @ + 1]
  /\ UNCHANGED <<now, admin_account, escrow, lamports, vault, tokens>>

(* It does not look at is_whitelisted, so it may run again on one wallet.  *)
RemoveWhitelist(signer, u) ==
  /\ is_admin(signer)
  /\ user[u].exists
  /\ presale.total_whitelisted_wallets - 1 \in Counter
  /\ user' = [user EXCEPT ![u].is_whitelisted = FALSE]
  /\ presale' = [presale EXCEPT !.total_whitelisted_wallets = @ - 1]
  /\ UNCHANGED <<now, admin_account, escrow, lamports, vault, tokens>>

UpdatePresaleDetails(signer, start_time, end_time) ==
  /\ is_admin(signer)
  /\ now <= end_time
  /\ start_time < end_time
  /\ presale' = [presale EXCEPT !.start_time = start_time,
                                !.end_time = end_time]
  /\ UNCHANGED <<now, admin_account, user, escrow, lamports, vault, tokens>>

-----------------------------------------------------------------------------
(* The guards of buy_token, up to the transfer to the escrow. A sale at    *)
(* rate zero that sells out divides by zero and aborts.                    *)
MayBuy(u, amount, sells_out, sol) ==
  /\ user[u].exists
  /\ is_presale_live
  /\ presale.is_cancelled # 1
  /\ user[u].is_whitelisted
  /\ amount <= presale.user_max_buy
  /\ amount <= lamports[u]
  /\ presale.presale_rate * amount \in U64
  /\ sells_out => presale.presale_rate # 0
  /\ RentStateOK(lamports[u] - sol, "system")
  /\ CanCredit(escrow, sol)

\* Slips for the properties to catch: the participant is not counted; tokens
\* are added up as lamports; the soft cap is judged before the sale is taken
\* off what is left; a purchase overwrites the one before.
SoldToNobody(p, joined, bought, sol, sells_out) ==
  [p EXCEPT !.is_hardcapped = IF sells_out THEN 1 ELSE @,
            !.total_sol_amount = @ + sol,
            !.total_token_remained = @ - bought]
SoldForTokens(p, joined, bought, sol, sells_out) ==
  [p EXCEPT !.is_hardcapped = IF sells_out THEN 1 ELSE @,
            !.total_participants = @ + joined,
            !.total_sol_amount = @ + bought,
            !.total_token_remained = @ - bought]
SoldJudgedEarly(p, joined, bought, sol, sells_out) ==
  [p EXCEPT !.is_hardcapped = IF sells_out THEN 1 ELSE @,
            !.total_participants = @ + joined,
            !.total_sol_amount = @ + sol,
            !.total_token_remained = @ - bought,
            !.is_softcapped =
               IF p.total_token_remained < p.soft_cap THEN 1 ELSE @]
PurchasedAfresh(acct, bought, sol) ==
  [acct EXCEPT !.user_sol_contributed = sol, !.user_buy_amount = bought]

\* The presale account after a sale of `bought` tokens for `sol` lamports.
Sold(p, joined, bought, sol, sells_out) ==
  [p EXCEPT
     !.is_hardcapped = IF sells_out THEN 1 ELSE @,
     !.total_participants = @ + joined,
     !.total_sol_amount = @ + sol,
     !.total_token_remained = @ - bought,
     !.is_softcapped =
        IF p.total_token_remained - bought < p.soft_cap THEN 1 ELSE @]

\* The user account after it.
Purchased(acct, bought, sol) ==
  [acct EXCEPT !.user_sol_contributed = @ + sol,
               !.user_buy_amount = @ + bought]

BuyToken(u, amount) ==
  LET remained  == presale.total_token_remained
      sells_out == SellsOut(remained, presale.presale_rate, amount)
      bought    == TokensToAllocate(remained, presale.presale_rate, amount)
      sol       == SolToTransfer(remained, presale.presale_rate, amount)
      joined    == IF user[u].user_buy_amount = 0 THEN 1 ELSE 0
  IN
  /\ MayBuy(u, amount, sells_out, sol)
  /\ presale.total_participants + joined \in Counter
  /\ presale.total_sol_amount + sol \in U64
  /\ user[u].user_sol_contributed + sol \in U64
  /\ user[u].user_buy_amount + bought \in U64
  /\ lamports' = [lamports EXCEPT ![u] = @ - sol]
  /\ escrow' = Credited(escrow, sol)
  /\ user' = [user EXCEPT ![u] = Purchased(@, bought, sol)]
  /\ presale' = Sold(presale, joined, bought, sol, sells_out)
  /\ UNCHANGED <<now, admin_account, vault, tokens>>

CancelPresale(signer) ==
  /\ is_admin(signer)
  /\ presale' = [presale EXCEPT !.is_cancelled = 1]
  /\ UNCHANGED <<now, admin_account, user, escrow, lamports, vault, tokens>>

(* The guards of refund_token: a user account with nothing contributed is  *)
(* accepted whatever the escrow holds.                                     *)
MayRefund(u, amount) ==
  /\ presale.is_cancelled # 0
  /\ user[u].exists
  /\ amount > 0 =>
       /\ CanDebit(escrow, amount)
       /\ RentStateOK(lamports[u] + amount, "system")
       /\ presale.total_sol_amount - amount \in U64
       /\ presale.total_participants - 1 \in Counter

\* Slip for the properties to catch: the refund is not taken off the total.
RefundedUncounted(p, amount) == [p EXCEPT !.total_participants = @ - 1]

\* The presale account after a refund of `amount`.
Refunded(p, amount) ==
  [p EXCEPT !.total_sol_amount = @ - amount, !.total_participants = @ - 1]

(* The amount refunded stays on record in user_sol_contributed.            *)
RefundToken(u) ==
  LET amount == user[u].user_sol_contributed IN
  /\ MayRefund(u, amount)
  /\ \/ /\ amount = 0
        /\ UNCHANGED <<presale, escrow, lamports>>
     \/ /\ amount > 0
        /\ escrow' = Debited(escrow, amount)
        /\ lamports' = [lamports EXCEPT ![u] = @ + amount]
        /\ presale' = Refunded(presale, amount)
  /\ UNCHANGED <<now, admin_account, user, vault, tokens>>

-----------------------------------------------------------------------------
\* Slips for the properties to catch: the soft cap ends the sale early; the
\* error SoftCapNotReached, commented out in the code, is returned; finalize
\* does not mind a cancellation, or a cap that was missed.
SaleOverAtSoftCap == presale.end_time <= now \/ presale.is_softcapped # 0
SaleOverOnlyWithCap ==
  /\ presale.end_time <= now \/ presale.is_hardcapped # 0
  /\ presale.is_softcapped # 0 \/ presale.is_hardcapped # 0
CancelledIfMissed(forced) ==
  IF ~forced /\ presale.is_softcapped = 0 /\ presale.is_hardcapped = 0
  THEN 1 ELSE 0
CancelledBefore(forced) == presale.is_cancelled

\* When finalize need not be forced: the sale has ended or has sold out.
SaleOver == presale.end_time <= now \/ presale.is_hardcapped # 0

\* is_cancelled as finalize leaves it: unforced, it turns into a cancellation
\* when neither cap was reached.
CancelledByFinalize(forced) ==
  IF ~forced /\ presale.is_softcapped = 0 /\ presale.is_hardcapped = 0
  THEN 1 ELSE presale.is_cancelled

(* It does not ask whether it has run before.                              *)
Finalize(signer, forcible_finalize) ==
  LET forced == forcible_finalize # 0
      cancelled == CancelledByFinalize(forced)
      team_amount == Share(presale.total_sol_amount, presale.team_percent)
  IN
  /\ is_admin(signer)
  /\ forced \/ SaleOver
  /\ \/ /\ cancelled # 0
        /\ presale' = [presale EXCEPT !.is_cancelled = cancelled]
        /\ UNCHANGED <<escrow, lamports>>
     \/ /\ cancelled = 0
        /\ presale.team_percent * presale.total_sol_amount \in U64
        /\ CanDebit(escrow, team_amount)
        /\ RentStateOK(TeamFunds + lamports[Team] + team_amount, "system")
        /\ escrow' = Debited(escrow, team_amount)
        /\ lamports' = [lamports EXCEPT ![Team] = @ + team_amount]
        /\ presale' = [presale EXCEPT !.is_finalized = 1]
  /\ UNCHANGED <<now, admin_account, user, vault, tokens>>

(* It asks for is_finalized only: the presale may be cancelled since, and  *)
(* is_claimed is written and never read.                                   *)
ClaimToken(signer, u) ==
  LET amount == user[u].user_buy_amount IN
  /\ is_finalized
  /\ user[u].exists
  /\ amount > 0
  /\ user[u].is_whitelisted
  /\ amount <= vault
  /\ VaultAuthority(signer)
  /\ vault' = vault - amount
  /\ tokens' = [tokens EXCEPT ![u] = @ + amount]
  /\ user' = [user EXCEPT ![u].is_claimed = 1]
  /\ UNCHANGED <<now, admin_account, presale, escrow, lamports>>

WithdrawToken(signer) ==
  /\ is_admin(signer)
  /\ is_finalized
  /\ presale.is_cancelled # 1
  /\ VaultAuthority(signer)
  /\ tokens' = [tokens EXCEPT ![signer] = @ + vault]
  /\ vault' = 0
  /\ presale' = [presale EXCEPT !.total_token_remained = 0]
  /\ UNCHANGED <<now, admin_account, user, escrow, lamports>>

(* It takes the whole balance, the rent reserve included, after which the  *)
(* escrow account no longer exists.                                        *)
Withdraw(signer) ==
  LET amount == escrow.lamports IN
  /\ is_admin(signer)
  /\ is_finalized
  /\ presale.is_cancelled # 1
  /\ CanDebit(escrow, amount)
  /\ escrow' = Debited(escrow, amount)
  /\ lamports' = [lamports EXCEPT ![signer] = @ + amount]
  /\ UNCHANGED <<now, admin_account, presale, user, vault, tokens>>

-----------------------------------------------------------------------------
AdminNext(signer) ==
  \/ \E a \in InitArgs : Initialize(signer, a)
  \/ \E amount \in DepositAmounts : DepositToken(signer, amount)
  \/ \E u \in Users : AddWhitelist(signer, u)
  \/ \E u \in Users : RemoveWhitelist(signer, u)
  \/ \E s, e \in NewTimes : UpdatePresaleDetails(signer, s, e)
  \/ CancelPresale(signer)
  \/ \E f \in ForceFlags : Finalize(signer, f)
  \/ \E u \in Users : ClaimToken(signer, u)
  \/ WithdrawToken(signer)
  \/ Withdraw(signer)

BuyerNext(u) ==
  \/ \E amount \in BuyAmounts : BuyToken(u, amount)
  \/ RefundToken(u)

Next ==
  \/ Tick
  \/ \E signer \in Admins : AdminNext(signer)
  \/ \E u \in Users : BuyerNext(u)

Spec == Init /\ [][Next]_vars
=============================================================================
