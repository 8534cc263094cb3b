------------------------------- MODULE Campaign -------------------------------
(***************************************************************************)
(* The campaign script anchor_devnet.ts on top of the program: mocha runs  *)
(* the functions passed to `it` one after the other, each sends its        *)
(* transactions one at a time, and each goes on, throws, or is given up by *)
(* mocha after a time limit. What a function that threw left undone stays  *)
(* undone, and the next one starts all the same.                           *)
(*                                                                         *)
(* A transaction whose confirmation is lost may land later, while other    *)
(* functions run, or never. A function mocha gave up on keeps running      *)
(* beside the next ones. The script may be killed and run again at any     *)
(* time. Buyers may send transactions of their own.                        *)
(***************************************************************************)
EXTENDS Presale, Sequences

CONSTANTS
  Admin,          \* the wallet that runs the script
  SaleArgs,       \* the arguments of initialize
  DepositAmount,  \* the tokens deposited
  Buyers,         \* the wallets added by one `it` each, in order
  Others,         \* walletLists: wallets added by one loop, in order
  Removals,       \* how many of Others a second loop removes
  Purchases,      \* the purchases made by one `it` each, in order
  LastPurchase,   \* the purchase for more than is left
  Outsiders,      \* wallets that also use the program by themselves
  OutsideAmounts, \* lamports they may ask to spend
  AtaOpeners,     \* wallets that may open a token account by themselves
  Nobody,         \* no wallet
  MaxRuns,        \* bound: how often the script is started
  MaxFaults       \* bound: how many calls, reads or functions time out

Purchase == [u : Users, amount : BuyAmounts]

ASSUME CampaignAssumption ==
  /\ Admin \in Admins
  /\ SaleArgs \in InitArgs
  /\ 0 \in ForceFlags
  /\ DepositAmount \in DepositAmounts
  /\ Buyers \in Seq(Users) /\ Others \in Seq(Users) /\ Others # << >>
  /\ Removals \in 1 .. Len(Others)
  /\ Purchases \in Seq(Purchase)
  /\ LastPurchase \in Purchase
  /\ Outsiders \subseteq Users
  /\ OutsideAmounts \subseteq BuyAmounts
  /\ AtaOpeners \subseteq Users
  /\ Nobody \notin Users
  /\ MaxRuns \in Nat \ {0}
  /\ MaxFaults \in Nat

VARIABLES
  run,          \* number of the run
  mint,         \* newToken: the run that created it, 0 while undefined
  current,      \* the function mocha waits for
  running,      \* the functions called that have not returned
  step,         \* per function, the call it is about to make
  failed,       \* the functions of this run that threw or timed out
  loop,         \* where the claim function is in its loop
  accounts,     \* user accounts it fetched and has not visited yet
  claiming,     \* the wallet it is serving
  presale_mint, \* the mint of the presale's token vault, 0 before initialize
  atas,         \* wallets with an associated token account for newToken
  in_flight,    \* transactions sent that may still land
  faults        \* lost confirmations, failed reads and timeouts so far

progress == <<current, running, step, failed>>
visiting == <<loop, accounts, claiming>>
chain == <<vars, presale_mint, atas>>
script == <<run, mint, progress, visiting, faults>>
campaign_vars == <<chain, script, in_flight>>

Tx ==
  [op : {"initialize", "depositToken", "finalize", "withdrawToken", "withdraw"},
   mint : 1 .. MaxRuns]
  \cup
  [op : {"addWhitelist", "removeWhitelist", "createAta", "claimToken"},
   u : Users, mint : 1 .. MaxRuns]
  \cup
  [op : {"buyToken"}, u : Users, amount : BuyAmounts, mint : 1 .. MaxRuns]

-----------------------------------------------------------------------------
(* The script: the transactions of each function passed to `it`.           *)

Tell(op) == [op |-> op, mint |-> mint]
About(op, u) == [op |-> op, u |-> u, mint |-> mint]

InitializePresaleVault == <<Tell("initialize")>>
DepositToVault == <<Tell("depositToken")>>
AddBuyer(b) == <<About("addWhitelist", b)>>
AddOthers == [i \in 1 .. Len(Others) |-> About("addWhitelist", Others[i])]
RemoveOthers == [i \in 1 .. Removals |-> About("removeWhitelist", Others[i])]
Buy(p) ==
  <<[op |-> "buyToken", u |-> p.u, amount |-> p.amount, mint |-> mint]>>
BuyMoreThanIsLeft == Buy(LastPurchase)
FinalizePresale == <<Tell("finalize")>>
ClaimForOne == <<About("createAta", claiming), About("claimToken", claiming)>>
WithdrawRemainingTokens == <<Tell("withdrawToken")>>
WithdrawSol == <<Tell("withdraw")>>

Its ==
  <<InitializePresaleVault, DepositToVault>>
  \o [i \in 1 .. Len(Buyers) |-> AddBuyer(Buyers[i])]
  \o <<AddOthers, RemoveOthers>>
  \o [i \in 1 .. Len(Purchases) |-> Buy(Purchases[i])]
  \o <<BuyMoreThanIsLeft, FinalizePresale, ClaimForOne,
       WithdrawRemainingTokens, WithdrawSol>>

\* The place of some functions in Its.
Last == Len(Buyers) + Len(Purchases) + 9
InitializeIt == 1
LastPurchaseIt == Last - 4
ClaimIt == Last - 2

NextCall(k) == Its[k][step[k]]

-----------------------------------------------------------------------------
(* What a transaction does when it lands. The vault's address is derived   *)
(* from the mint, so a transaction about another mint than the presale's   *)
(* finds no vault.                                                         *)

HasVault(tx) == tx.mint = presale_mint

OnPresale(tx) ==
  \/ tx.op = "depositToken" /\ HasVault(tx) /\ DepositToken(Admin, DepositAmount)
  \/ tx.op = "addWhitelist" /\ AddWhitelist(Admin, tx.u)
  \/ tx.op = "removeWhitelist" /\ RemoveWhitelist(Admin, tx.u)
  \/ tx.op = "buyToken" /\ BuyToken(tx.u, tx.amount)
  \/ tx.op = "finalize" /\ Finalize(Admin, 0)
  \/ tx.op = "claimToken" /\ HasVault(tx) /\ ClaimToken(Admin, tx.u)
  \/ tx.op = "withdrawToken" /\ HasVault(tx) /\ WithdrawToken(Admin)
  \/ tx.op = "withdraw" /\ Withdraw(Admin)

(* createAssociatedTokenAccount refuses a wallet that has the account.     *)
CreatesAta(u) ==
  /\ u \notin atas
  /\ atas' = atas \cup {u}
  /\ UNCHANGED <<vars, presale_mint>>

Lands(tx) ==
  \/ /\ tx.op = "initialize"
     /\ Initialize(Admin, SaleArgs)
     /\ presale_mint' = tx.mint
     /\ UNCHANGED atas
  \/ OnPresale(tx) /\ UNCHANGED <<presale_mint, atas>>
  \/ tx.op = "createAta" /\ tx.mint = mint /\ CreatesAta(tx.u)

-----------------------------------------------------------------------------
(* mocha: when a function returns or throws, the next one starts, unless   *)
(* mocha had given up on it and started the next one before.               *)

FirstStep == [k \in 1 .. Last |-> 1]

\* Slip for the properties to catch: the last function starts another one.
StartsOneMore(k) ==
  /\ current' = IF k = current THEN k + 1 ELSE current
  /\ running' = (running \ {k}) \cup {current'}
  /\ step' = [step EXCEPT ![k] = 1]

Returns(k) ==
  /\ current' = IF k = current THEN k + 1 ELSE current
  /\ running' = (running \ {k}) \cup ({current'} \cap 1 .. Last)
  /\ step' = [step EXCEPT ![k] = 1]

Passes(k) == Returns(k) /\ UNCHANGED failed
Throws(k) == Returns(k) /\ failed' = failed \cup {k}

-----------------------------------------------------------------------------
(* One call of a function, and the ways it can end.                        *)

\* Slip for the properties to catch: an error of the claim function is
\* swallowed too.
CaughtInClaims(k) ==
  k \in {LastPurchaseIt, ClaimIt} /\ user[LastPurchase.u].exists

(* The purchase for more than is left stands in a try block, and so does   *)
(* the assertion that it must not succeed; the handler only reads the      *)
(* buyer's user account, which throws when there is none.                  *)
Caught(k) == k = LastPurchaseIt /\ user[LastPurchase.u].exists

\* Slip for the properties to catch: a call that timed out is made again.
CallsAgain(k) == UNCHANGED progress

\* What an error, or a confirmation that does not come, does to function k.
BreaksOff(k) == IF Caught(k) THEN Passes(k) ELSE Throws(k)
BreaksOffUnconfirmed(k) == BreaksOff(k)

AtCall(k) ==
  /\ k \in running
  /\ k = InitializeIt => mint # 0
  /\ k = ClaimIt => loop = "serve"

NextStep(k) ==
  /\ step[k] < Len(Its[k])
  /\ step' = [step EXCEPT ![k] = @ + 1]
  /\ UNCHANGED <<current, running, failed, visiting>>

NextAccount(k) ==
  /\ step[k] = Len(Its[k]) /\ k = ClaimIt
  /\ step' = [step EXCEPT ![k] = 1]
  /\ loop' = "next"
  /\ claiming' = Nobody
  /\ UNCHANGED <<current, running, failed, accounts>>

LastCallDone(k) ==
  /\ step[k] = Len(Its[k]) /\ k # ClaimIt
  /\ Passes(k)
  /\ UNCHANGED visiting

(* The transaction is accepted and its confirmation arrives.               *)
Confirmed(k) ==
  /\ AtCall(k) /\ mint # 0
  /\ Lands(NextCall(k))
  /\ NextStep(k) \/ NextAccount(k) \/ LastCallDone(k)
  /\ UNCHANGED <<run, mint, in_flight, faults>>

\* Whether the node's simulation accepts the transaction; without the
\* addresses the first function derives nothing can be sent, and before
\* initialize every other instruction finds no account of the presale.
Acceptable(k) ==
  /\ mint # 0
  /\ admin_account = NoAdmin => NextCall(k).op = "initialize"
  /\ ENABLED Lands(NextCall(k))

(* The simulation refuses it: the call throws and nothing is sent.         *)
Refused(k) ==
  /\ AtCall(k)
  /\ ~Acceptable(k)
  /\ BreaksOff(k)
  /\ UNCHANGED <<chain, run, mint, visiting, in_flight, faults>>

(* It is sent and its confirmation does not arrive in time: the call       *)
(* throws, and the transaction may still land.                             *)
Unconfirmed(k) ==
  /\ AtCall(k)
  /\ Acceptable(k)
  /\ faults < MaxFaults
  /\ faults' = faults + 1
  /\ in_flight' = in_flight \cup {NextCall(k)}
  /\ BreaksOffUnconfirmed(k)
  /\ UNCHANGED <<chain, run, mint, visiting>>

Call(k) == Confirmed(k) \/ Refused(k) \/ Unconfirmed(k)

-----------------------------------------------------------------------------
(* The first function creates the token and derives every address before   *)
(* it calls initialize.                                                    *)
CreateToken ==
  /\ InitializeIt \in running /\ mint = 0
  /\ \/ mint' = run /\ UNCHANGED <<progress, faults>>
     \/ /\ faults < MaxFaults
        /\ faults' = faults + 1
        /\ Throws(InitializeIt)
        /\ UNCHANGED mint
  /\ UNCHANGED <<chain, run, visiting, in_flight>>

\* Slip for the properties to catch: an account that is not due is not taken
\* off the list.
KeepsAll(u) == accounts

(* The claim function fetches all user accounts once, in no order, and     *)
(* then reads each again before it decides whether to serve the wallet.    *)
FetchAccounts ==
  /\ ClaimIt \in running /\ loop = "fetch"
  /\ accounts' = {u \in Users : user[u].exists}
  /\ loop' = "next"
  /\ UNCHANGED <<chain, run, mint, progress, claiming, in_flight, faults>>

Owed(u) == user[u].is_whitelisted /\ user[u].user_buy_amount > 0

StillToVisit(u) == accounts \ {u}

VisitAccount(u) ==
  /\ ClaimIt \in running /\ loop = "next" /\ u \in accounts
  /\ accounts' = StillToVisit(u)
  /\ \/ Owed(u) /\ loop' = "serve" /\ claiming' = u
     \/ ~Owed(u) /\ UNCHANGED <<loop, claiming>>
  /\ UNCHANGED <<chain, run, mint, progress, in_flight, faults>>

AllVisited ==
  /\ ClaimIt \in running /\ loop = "next" /\ accounts = {}
  /\ Passes(ClaimIt)
  /\ UNCHANGED <<chain, run, mint, visiting, in_flight, faults>>

(* The list, or an account on it, is not read: the function throws.        *)
ReadFails ==
  /\ ClaimIt \in running
  /\ loop = "fetch" \/ (loop = "next" /\ accounts # {})
  /\ faults < MaxFaults
  /\ faults' = faults + 1
  /\ Throws(ClaimIt)
  /\ UNCHANGED <<chain, run, mint, visiting, in_flight>>

(* mocha stops waiting for the current function, which keeps running.      *)
GivesUp ==
  /\ current \in running
  /\ faults < MaxFaults
  /\ faults' = faults + 1
  /\ failed' = failed \cup {current}
  /\ current' = current + 1
  /\ running' = running \cup ({current + 1} \cap 1 .. Last)
  /\ UNCHANGED <<chain, run, mint, step, visiting, in_flight>>

(* The script is killed, or has ended, and is run again: it creates a new  *)
(* token, of which nobody has an account. What was sent may still land.    *)
StartAgain ==
  /\ run < MaxRuns
  /\ run' = run + 1
  /\ mint' = 0 /\ atas' = {}
  /\ current' = 1 /\ running' = {1} /\ step' = FirstStep /\ failed' = {}
  /\ loop' = "fetch" /\ accounts' = {} /\ claiming' = Nobody
  /\ UNCHANGED <<vars, presale_mint, in_flight, faults>>

-----------------------------------------------------------------------------
(* Besides the script: late transactions, the clock, and the buyers.       *)

LandsLate(tx) ==
  /\ Lands(tx)
  /\ in_flight' = in_flight \ {tx}
  /\ UNCHANGED script

Expires(tx) ==
  /\ in_flight' = in_flight \ {tx}
  /\ UNCHANGED <<chain, script>>

OutsideStep(u) ==
  /\ \/ \E amount \in OutsideAmounts : BuyToken(u, amount)
     \/ RefundToken(u)
  /\ UNCHANGED <<presale_mint, atas, script, in_flight>>

OpensAta(u) == mint # 0 /\ CreatesAta(u) /\ UNCHANGED <<script, in_flight>>

ClockStep == Tick /\ UNCHANGED <<presale_mint, atas, script, in_flight>>

CampaignInit ==
  /\ Init
  /\ run = 1 /\ mint = 0 /\ presale_mint = 0
  /\ current = 1 /\ running = {1} /\ step = FirstStep /\ failed = {}
  /\ loop = "fetch" /\ accounts = {} /\ claiming = Nobody
  /\ atas = {} /\ in_flight = {} /\ faults = 0

ScriptStep ==
  \/ CreateToken
  \/ \E k \in 1 .. Last : Call(k)
  \/ FetchAccounts
  \/ \E u \in Users : VisitAccount(u)
  \/ AllVisited
  \/ ReadFails

CampaignNext ==
  \/ ScriptStep
  \/ GivesUp
  \/ StartAgain
  \/ \E tx \in in_flight : LandsLate(tx) \/ Expires(tx)
  \/ \E u \in Outsiders : OutsideStep(u)
  \/ \E u \in AtaOpeners : OpensAta(u)
  \/ ClockStep

CampaignSpec == CampaignInit /\ [][CampaignNext]_campaign_vars
=============================================================================
