-------------------------- MODULE PresaleTotalsProofs --------------------------
(***************************************************************************)
(* What a presale sells and raises altogether: proofs, for every set of    *)
(* buyers and admins, every argument and every order of transactions, that *)
(* no buyer pays more than the announced price, that the counters of the   *)
(* sale are the sums of the buyers' records, that a cancelled presale can  *)
(* refund every buyer once, of what finalize decides, and that the program *)
(* keeps the abstract account SaleLedger.                                  *)
(***************************************************************************)
EXTENDS PresaleSaleProofs, SumProofs

-----------------------------------------------------------------------------
(* The price *)

\* Dividing and multiplying back gives at most what was divided.
LEMMA QuotientProduct ==
  ASSUME NEW n \in Nat, NEW d \in Nat \ {0}
  PROVE  d * (n \div d) <= n
  OBVIOUS

\* A purchase costs at most what its tokens are worth at the rate: exactly
\* that, or rounded down in the purchase that sells out (buy_token).
LEMMA PurchaseIsPriced ==
  ASSUME NEW remained \in Nat, NEW rate \in Nat, NEW amount \in Nat,
         SellsOut(remained, rate, amount) => rate # 0
  PROVE  rate * SolToTransfer(remained, rate, amount)
           <= TokensToAllocate(remained, rate, amount)
  <1>1. CASE SellsOut(remained, rate, amount)
    <2>1. rate * (remained \div rate) <= remained
      BY <1>1, QuotientProduct
    <2> QED
      BY <1>1, <2>1 DEF SolToTransfer, TokensToAllocate
  <1>2. CASE ~SellsOut(remained, rate, amount)
    <2>1. rate * amount \in Nat
      OBVIOUS
    <2> QED
      BY <1>2, <2>1 DEF SolToTransfer, TokensToAllocate
  <1> QED
    BY <1>1, <1>2

\* Two purchases at or above the rate are at or above it together.
LEMMA PricesAddUp ==
  ASSUME NEW rate \in Nat, NEW paid \in Nat, NEW sol \in Nat,
         NEW owned \in Nat, NEW bought \in Nat,
         rate * paid <= owned, rate * sol <= bought
  PROVE  rate * (paid + sol) <= owned + bought
  <1>1. rate * (paid + sol) = rate * paid + rate * sol
    OBVIOUS
  <1>2. rate * paid \in Nat /\ rate * sol \in Nat
    OBVIOUS
  <1> QED
    BY <1>1, <1>2

\* Wallets without a record have paid nothing, at any rate.
LEMMA StrangersPaidNothing ==
  ASSUME SaleInv, NEW u \in Users, ~user[u].exists, NEW rate \in Nat
  PROVE  rate * user[u].user_sol_contributed <= user[u].user_buy_amount
  <1>1. user[u] = NewUser(FALSE)
    BY DEF SaleInv, StrangersOwnNothing
  <1>2. rate * 0 <= 0
    OBVIOUS
  <1> QED
    BY <1>1, <1>2 DEF NewUser

\* A step that leaves the rate alone, and every buyer's record but for marks,
\* leaves the price alone.
LEMMA PriceUntouched ==
  ASSUME NobodyOverpays, presale'.presale_rate = presale.presale_rate,
         \A u \in Users :
           /\ user'[u].user_sol_contributed = user[u].user_sol_contributed
           /\ user'[u].user_buy_amount = user[u].user_buy_amount
  PROVE  NobodyOverpays'
  BY DEF NobodyOverpays

\* buy_token keeps the price.
LEMMA BuyKeepsPrice ==
  ASSUME SaleInv, NobodyOverpays, NEW u \in Users, NEW amount \in BuyAmounts,
         BuyToken(u, amount)
  PROVE  NobodyOverpays'
  <1>1. TypeOK
    BY DEF SaleInv
  <1>2. PICK bought \in U64, sol \in U64, joined \in {0, 1},
             sells_out \in BOOLEAN :
           /\ bought = TokensToAllocate(presale.total_token_remained,
                                        presale.presale_rate, amount)
           /\ sol = SolToTransfer(presale.total_token_remained,
                                  presale.presale_rate, amount)
           /\ sells_out = SellsOut(presale.total_token_remained,
                                   presale.presale_rate, amount)
           /\ MayBuy(u, amount, sells_out, sol)
           /\ user' = [user EXCEPT ![u] = Purchased(@, bought, sol)]
           /\ presale' = Sold(presale, joined, bought, sol, sells_out)
    BY <1>1, BuyFacts
  <1> DEFINE rate == presale.presale_rate
             paid == user[u].user_sol_contributed
             owned == user[u].user_buy_amount
  <1>3. /\ presale \in PresaleAccount /\ user \in [Users -> UserAccount]
        /\ presale.total_token_remained \in Nat /\ amount \in Nat
        /\ rate \in Nat /\ paid \in Nat /\ owned \in Nat
        /\ bought \in Nat /\ sol \in Nat
    BY <1>1, RuntimeAssumption, PresaleAssumption
    DEF TypeOK, PresaleAccount, UserAccount, U64
  <1>4. SellsOut(presale.total_token_remained, rate, amount) => rate # 0
    <2>1. sells_out => rate # 0
      BY <1>2 DEF MayBuy
    <2> QED
      BY <1>2, <2>1, Zenon
  <1>5. rate * sol <= bought
    BY <1>2, <1>3, <1>4, PurchaseIsPriced
  <1>6. rate * paid <= owned
    BY DEF NobodyOverpays
  <1>7. rate * (paid + sol) <= owned + bought
    BY <1>3, <1>5, <1>6, PricesAddUp
  <1>8. /\ user'[u].user_sol_contributed = paid + sol
        /\ user'[u].user_buy_amount = owned + bought
        /\ \A w \in Users \ {u} : user'[w] = user[w]
    BY <1>2, <1>3 DEF Purchased, UserAccount
  <1>9. presale'.presale_rate = rate
    BY <1>2, <1>3 DEF Sold, PresaleAccount
  <1> HIDE DEF rate, paid, owned
  <1> QED
    BY <1>7, <1>8, <1>9 DEF NobodyOverpays, rate

\* An admin's instruction keeps the price: initialize sets the rate while
\* nobody has a record, and no other one changes the rate or a purchase.
LEMMA AdminKeepsPrice ==
  ASSUME FundsInv, SaleInv, NobodyOverpays, NEW signer \in Admins,
         AdminNext(signer)
  PROVE  NobodyOverpays'
  <1>1. /\ TypeOK /\ presale \in PresaleAccount
        /\ user \in [Users -> UserAccount]
    BY DEF SaleInv, TypeOK
  <1>2. ASSUME NEW a \in InitArgs, Initialize(signer, a)
        PROVE  NobodyOverpays'
    <2>1. TypeOK' /\ UNCHANGED user
      BY <1>1, <1>2, InitializeTyped DEF Initialize
    <2>2. presale'.presale_rate \in Nat
      BY <2>1, RuntimeAssumption DEF TypeOK, PresaleAccount, U64
    <2>3. \A u \in Users : ~user[u].exists
      BY <1>2
      DEF Initialize, Initialized, FundsInv, NothingBeforeInitialize
    <2> QED
      BY <2>1, <2>2, <2>3, StrangersPaidNothing DEF NobodyOverpays
  <1>3. ASSUME NEW u \in Users, AddWhitelist(signer, u)
        PROVE  NobodyOverpays'
    <2>1. user[u] = NewUser(FALSE)
      BY <1>3 DEF AddWhitelist, CanInit, SaleInv, StrangersOwnNothing
    <2> QED
      BY <1>1, <1>3, <2>1, PriceUntouched
      DEF AddWhitelist, NewUser, PresaleAccount
  <1>4. ASSUME NEW u \in Users, RemoveWhitelist(signer, u)
        PROVE  NobodyOverpays'
    BY <1>1, <1>4, PriceUntouched
    DEF RemoveWhitelist, UserAccount, PresaleAccount
  <1>5. ASSUME NEW u \in Users, ClaimToken(signer, u)
        PROVE  NobodyOverpays'
    BY <1>1, <1>5, PriceUntouched DEF ClaimToken, UserAccount
  <1>6. ASSUME UNCHANGED user,
               presale'.presale_rate = presale.presale_rate
        PROVE  NobodyOverpays'
    BY <1>6, PriceUntouched
  <1>7. ASSUME NEW f \in ForceFlags, Finalize(signer, f)
        PROVE  NobodyOverpays'
    BY <1>1, <1>6, <1>7 DEF Finalize, PresaleAccount
  <1>8. ASSUME \/ \E amount \in DepositAmounts : DepositToken(signer, amount)
               \/ \E s, e \in NewTimes : UpdatePresaleDetails(signer, s, e)
               \/ CancelPresale(signer)
               \/ WithdrawToken(signer)
               \/ Withdraw(signer)
        PROVE  NobodyOverpays'
    BY <1>1, <1>6, <1>8
    DEF DepositToken, UpdatePresaleDetails, CancelPresale, WithdrawToken,
        Withdraw, PresaleAccount
  <1> QED
    BY <1>2, <1>3, <1>4, <1>5, <1>7, <1>8 DEF AdminNext

\* However the purchases of a wallet fall, it gets at least presale_rate
\* tokens per lamport it paid.
THEOREM PriceKept == Spec => []NobodyOverpays
  <1>1. Init => NobodyOverpays
    <2> SUFFICES ASSUME Init PROVE NobodyOverpays
      OBVIOUS
    <2>1. presale.presale_rate = 0 /\ user = [u \in Users |-> NewUser(FALSE)]
      BY DEF Init, ZeroedPresale
    <2> QED
      BY <2>1 DEF NobodyOverpays, NewUser
  <1>2. FundsInv /\ SaleInv /\ NobodyOverpays /\ [Next]_vars
          => NobodyOverpays'
    <2> SUFFICES ASSUME FundsInv, SaleInv, NobodyOverpays, [Next]_vars
                 PROVE  NobodyOverpays'
      OBVIOUS
    <2>1. CASE Tick \/ UNCHANGED vars
      BY <2>1, PriceUntouched DEF Tick, vars
    <2>2. ASSUME NEW u \in Users, RefundToken(u)
          PROVE  NobodyOverpays'
      BY <2>2, PriceUntouched
      DEF RefundToken, Refunded, SaleInv, TypeOK, PresaleAccount
    <2> QED
      BY <2>1, <2>2, AdminKeepsPrice, BuyKeepsPrice DEF Next, BuyerNext
  <1> QED
    BY <1>1, <1>2, FundsInvariant, SaleInvariant, PTL DEF Spec

-----------------------------------------------------------------------------
(* The totals, and how a step changes them *)

\* The totals are natural numbers, sums over the buyers.
LEMMA TotalsAre ==
  ASSUME TypeOK
  PROVE  /\ TokensSold = SumFunctionOnSet(Bought, Users) /\ TokensSold \in Nat
         /\ SolPaid = SumFunctionOnSet(Contributed, Users) /\ SolPaid \in Nat
         /\ SolHeld = SumFunctionOnSet(lamports, Users) /\ SolHeld \in Nat
         /\ \A u \in Users : /\ Bought[u] \in Nat /\ Contributed[u] \in Nat
                             /\ lamports[u] \in Nat
  <1>1. \A u \in Users : /\ Bought[u] \in Nat /\ Contributed[u] \in Nat
                         /\ lamports[u] \in Nat
    BY RuntimeAssumption
    DEF TypeOK, UserAccount, U64, Bought, Contributed, Wallets
  <1>2. DOMAIN Bought = Users /\ DOMAIN Contributed = Users
    BY DEF Bought, Contributed
  <1>3. /\ TokensSold = SumFunctionOnSet(Bought, Users)
        /\ SolPaid = SumFunctionOnSet(Contributed, Users)
        /\ SolHeld = SumFunctionOnSet(lamports, Users)
    BY <1>2 DEF TokensSold, SolPaid, SolHeld, SumFunction
  <1> QED
    BY <1>1, <1>3, SumCounts, PresaleAssumption

\* And so they are in the next state.
LEMMA TotalsAreNext ==
  ASSUME TypeOK'
  PROVE  /\ TokensSold' = SumFunctionOnSet(Bought', Users)
         /\ SolPaid' = SumFunctionOnSet(Contributed', Users)
         /\ SolHeld' = SumFunctionOnSet(lamports', Users)
         /\ \A u \in Users : /\ Bought'[u] \in Nat /\ Contributed'[u] \in Nat
                             /\ lamports'[u] \in Nat
  <1>1. \A u \in Users : /\ Bought'[u] \in Nat /\ Contributed'[u] \in Nat
                         /\ lamports'[u] \in Nat
    BY RuntimeAssumption
    DEF TypeOK, UserAccount, U64, Bought, Contributed, Wallets
  <1>2. DOMAIN Bought' = Users /\ DOMAIN Contributed' = Users
    BY DEF Bought, Contributed
  <1> QED
    BY <1>1, <1>2 DEF TokensSold, SolPaid, SolHeld, SumFunction

\* The first state has sold nothing.
LEMMA InitTotals == Init => TokensSold = 0 /\ SolPaid = 0
                              /\ SolHeld = SumFunction(Funds)
  <1> SUFFICES ASSUME Init
               PROVE  TokensSold = 0 /\ SolPaid = 0
                        /\ SolHeld = SumFunction(Funds)
    OBVIOUS
  <1>1. TypeOK
    BY InitTyped
  <1>2. \A u \in Users : Bought[u] = 0 /\ Contributed[u] = 0
    BY DEF Init, NewUser, Bought, Contributed
  <1>3. \A u \in Users : Funds[u] \in Nat /\ lamports[u] = Funds[u]
    BY PresaleAssumption DEF Init, Wallets
  <1>4. SumFunction(Funds) = SumFunctionOnSet(Funds, Users)
    BY PresaleAssumption DEF SumFunction
  <1> QED
    BY <1>1, <1>2, <1>3, <1>4, TotalsAre, SumOfNothing, SumOfSame,
       PresaleAssumption

\* Dividing rounds down by less than one.
LEMMA QuotientRemainder ==
  ASSUME NEW n \in Nat, NEW d \in Nat \ {0}
  PROVE  n < d * (n \div d + 1)
  OBVIOUS

\* A purchase that does not sell out is priced exactly, one that does is
\* rounded by less than one lamport's worth (buy_token).
LEMMA PurchaseIsRounded ==
  ASSUME NEW remained \in Nat, NEW rate \in Nat, NEW amount \in Nat,
         SellsOut(remained, rate, amount) => rate # 0
  PROVE  LET bought == TokensToAllocate(remained, rate, amount)
             sol == SolToTransfer(remained, rate, amount)
         IN  /\ SellsOut(remained, rate, amount) =>
                  bought = remained /\ bought < rate * (sol + 1)
             /\ ~SellsOut(remained, rate, amount) => bought = rate * sol
  <1>1. CASE SellsOut(remained, rate, amount)
    <2>1. remained < rate * (remained \div rate + 1)
      BY <1>1, QuotientRemainder
    <2> QED
      BY <1>1, <2>1 DEF SolToTransfer, TokensToAllocate
  <1>2. CASE ~SellsOut(remained, rate, amount)
    BY <1>2 DEF SolToTransfer, TokensToAllocate
  <1> QED
    BY <1>1, <1>2

\* What initialize sets, and is_finalized, are as they were.
TermsKept ==
  /\ presale'.presale_rate = presale.presale_rate
  /\ presale'.total_presale_token = presale.total_presale_token
  /\ presale'.soft_cap = presale.soft_cap
  /\ presale'.end_time = presale.end_time
  /\ presale'.is_finalized = presale.is_finalized

\* What purchases change is as it was.
SaleKept ==
  /\ presale'.total_token_remained = presale.total_token_remained
  /\ presale'.is_hardcapped = presale.is_hardcapped
  /\ presale'.is_softcapped = presale.is_softcapped

\* A purchase moves the totals by what it allocates and what it costs.
LEMMA BuyMovesTotals ==
  ASSUME TypeOK, NEW u \in Users, NEW amount \in BuyAmounts,
         BuyToken(u, amount)
  PROVE  \E bought, sol \in Nat, sells_out \in BOOLEAN :
           /\ bought <= presale.total_token_remained
           /\ sells_out => bought = presale.total_token_remained
                             /\ bought < presale.presale_rate * (sol + 1)
           /\ ~sells_out => bought = presale.presale_rate * sol
           /\ TokensSold' = TokensSold + bought
           /\ SolPaid' = SolPaid + sol
           /\ SolHeld' = SolHeld - sol
           /\ presale'.is_hardcapped
                = IF sells_out THEN 1 ELSE presale.is_hardcapped
           /\ presale'.total_sol_amount = presale.total_sol_amount + sol
           /\ presale'.total_token_remained
                = presale.total_token_remained - bought
           /\ TermsKept
  <1>1. PICK bought \in U64, sol \in U64, joined \in {0, 1},
             sells_out \in BOOLEAN :
           /\ bought = TokensToAllocate(presale.total_token_remained,
                                        presale.presale_rate, amount)
           /\ sol = SolToTransfer(presale.total_token_remained,
                                  presale.presale_rate, amount)
           /\ sells_out = SellsOut(presale.total_token_remained,
                                   presale.presale_rate, amount)
           /\ bought <= presale.total_token_remained
           /\ MayBuy(u, amount, sells_out, sol)
           /\ lamports' = [lamports EXCEPT ![u] = @ - sol]
           /\ user' = [user EXCEPT ![u] = Purchased(@, bought, sol)]
           /\ presale' = Sold(presale, joined, bought, sol, sells_out)
    BY BuyFacts
  <1>2. /\ presale \in PresaleAccount /\ user \in [Users -> UserAccount]
        /\ lamports \in [Wallets -> Nat] /\ u \in Wallets
        /\ presale.total_token_remained \in Nat /\ amount \in Nat
        /\ presale.presale_rate \in Nat /\ presale.total_sol_amount \in Nat
        /\ user[u].user_buy_amount \in Nat
        /\ user[u].user_sol_contributed \in Nat
        /\ bought \in Nat /\ sol \in Nat
    BY RuntimeAssumption, PresaleAssumption
    DEF TypeOK, PresaleAccount, UserAccount, U64, Wallets
  <1>3. SellsOut(presale.total_token_remained, presale.presale_rate, amount)
          => presale.presale_rate # 0
    <2>1. sells_out => presale.presale_rate # 0
      BY <1>1 DEF MayBuy
    <2> QED
      BY <1>1, <2>1, Zenon
  <1>4. /\ sells_out => bought = presale.total_token_remained
                          /\ bought < presale.presale_rate * (sol + 1)
        /\ ~sells_out => bought = presale.presale_rate * sol
    <2> DEFINE out == SellsOut(presale.total_token_remained,
                               presale.presale_rate, amount)
    <2>1. /\ out => bought = presale.total_token_remained
                      /\ bought < presale.presale_rate * (sol + 1)
          /\ ~out => bought = presale.presale_rate * sol
      BY <1>1, <1>2, <1>3, PurchaseIsRounded
    <2>2. out \in BOOLEAN /\ sells_out = out
      BY <1>1 DEF SellsOut
    <2> HIDE DEF out
    <2> QED
      BY <2>1, <2>2, Zenon
  <1>5. TypeOK'
    BY BuyTyped
  <1>6. /\ \A w \in Users \ {u} : /\ Bought'[w] = Bought[w]
                                  /\ Contributed'[w] = Contributed[w]
                                  /\ lamports'[w] = lamports[w]
        /\ Bought'[u] = Bought[u] + bought
        /\ Contributed'[u] = Contributed[u] + sol
        /\ lamports'[u] = lamports[u] - sol
    BY <1>1, <1>2 DEF Bought, Contributed, Purchased, UserAccount
  <1>7. /\ TokensSold' = TokensSold + bought
        /\ SolPaid' = SolPaid + sol
        /\ SolHeld' = SolHeld - sol
    <2>1. IsFiniteSet(Users)
      BY PresaleAssumption
    <2>2. /\ TokensSold' = TokensSold + Bought'[u] - Bought[u]
          /\ SolPaid' = SolPaid + Contributed'[u] - Contributed[u]
          /\ SolHeld' = SolHeld + lamports'[u] - lamports[u]
      BY <1>5, <1>6, <2>1, TotalsAre, TotalsAreNext, SumChanges
    <2> QED
      BY <1>2, <1>6, <2>2, TotalsAre
  <1>8. /\ presale'.is_hardcapped
             = IF sells_out THEN 1 ELSE presale.is_hardcapped
        /\ presale'.total_sol_amount = presale.total_sol_amount + sol
        /\ presale'.total_token_remained
             = presale.total_token_remained - bought
        /\ TermsKept
    BY <1>1, <1>2 DEF Sold, PresaleAccount, TermsKept
  <1> QED
    BY <1>1, <1>2, <1>4, <1>7, <1>8

\* A refund gives back what it takes off the total, and moves no tokens.
LEMMA RefundMovesTotals ==
  ASSUME TypeOK, NEW u \in Users, RefundToken(u)
  PROVE  \E amount \in Nat :
           /\ TokensSold' = TokensSold /\ SolPaid' = SolPaid
           /\ SolHeld' = SolHeld + amount
           /\ presale'.total_sol_amount = presale.total_sol_amount - amount
           /\ TermsKept /\ SaleKept
  <1> DEFINE amount == user[u].user_sol_contributed
  <1>1. /\ presale \in PresaleAccount /\ lamports \in [Wallets -> Nat]
        /\ u \in Wallets /\ amount \in Nat /\ lamports[u] \in Nat
        /\ presale.total_sol_amount \in Nat
        /\ presale.total_participants \in Nat
    BY RuntimeAssumption
    DEF TypeOK, PresaleAccount, UserAccount, U64, Counter, Wallets
  <1>2. UNCHANGED user
    BY DEF RefundToken
  <1>3. TokensSold' = TokensSold /\ SolPaid' = SolPaid
    BY <1>2 DEF TokensSold, SolPaid, Bought, Contributed
  <1>4. CASE amount = 0 /\ UNCHANGED <<presale, lamports>>
    <2>1. SolHeld' = SolHeld
      BY <1>4 DEF SolHeld
    <2>2. /\ presale'.total_sol_amount = presale.total_sol_amount
          /\ TermsKept /\ SaleKept
      BY <1>4 DEF TermsKept, SaleKept
    <2>3. SolHeld \in Nat
      BY TotalsAre
    <2> WITNESS 0 \in Nat
    <2> QED
      BY <1>1, <1>3, <2>1, <2>2, <2>3
  <1>5. CASE /\ lamports' = [lamports EXCEPT ![u] = @ + amount]
             /\ presale' = Refunded(presale, amount)
    <2> HIDE DEF amount
    <2>1. SolHeld' = SolHeld + lamports'[u] - lamports[u]
      <3>1. TypeOK'
        BY RefundTyped
      <3>2. \A w \in Users \ {u} : lamports'[w] = lamports[w]
        BY <1>1, <1>5 DEF Wallets
      <3> QED
        BY <3>1, <3>2, TotalsAre, TotalsAreNext, SumChanges, PresaleAssumption
    <2>2. SolHeld' = SolHeld + amount
      BY <1>1, <1>5, <2>1, TotalsAre
    <2>3. /\ presale'.total_sol_amount = presale.total_sol_amount - amount
          /\ TermsKept /\ SaleKept
      BY <1>1, <1>5 DEF Refunded, TermsKept, SaleKept, PresaleAccount
    <2> QED
      BY <1>1, <1>3, <2>2, <2>3
  <1> QED
    BY <1>4, <1>5 DEF RefundToken

\* No other step changes what a buyer has, has bought or has paid.
LEMMA OthersLeaveBuyers ==
  ASSUME SaleInv, Next,
         ~ \E u \in Users, amount \in BuyAmounts : BuyToken(u, amount),
         ~ \E u \in Users : RefundToken(u)
  PROVE  /\ Bought' = Bought /\ Contributed' = Contributed
         /\ \A u \in Users : lamports'[u] = lamports[u]
  <1>1. Bought' = Bought /\ Contributed' = Contributed
    <2>1. CASE Initialized
      BY <2>1, OthersSellNothing
    <2>2. CASE ~Initialized
      <3>1. UNCHANGED user
        BY <2>2, PresaleAssumption
        DEF Next, Tick, AdminNext, BuyerNext, Initialized, is_admin,
            Initialize, DepositToken, AddWhitelist, RemoveWhitelist,
            UpdatePresaleDetails, CancelPresale, Finalize, ClaimToken,
            VaultAuthority, WithdrawToken, Withdraw
      <3> QED
        BY <3>1 DEF Bought, Contributed
    <2> QED
      BY <2>1, <2>2
  <1>2. \A u \in Users : lamports'[u] = lamports[u]
    <2>1. /\ lamports \in [Wallets -> Nat]
          /\ \A u \in Users, signer \in Admins :
               u # signer /\ u # Team /\ u \in Wallets
      BY PresaleAssumption DEF SaleInv, TypeOK, Wallets
    <2>2. CASE Tick
      BY <2>2 DEF Tick
    <2>3. ASSUME NEW signer \in Admins, AdminNext(signer)
          PROVE  \A u \in Users : lamports'[u] = lamports[u]
      BY <2>1, <2>3
      DEF AdminNext, Initialize, DepositToken, AddWhitelist, RemoveWhitelist,
          UpdatePresaleDetails, CancelPresale, Finalize, ClaimToken,
          WithdrawToken, Withdraw
    <2> QED
      BY <2>2, <2>3 DEF Next, BuyerNext
  <1> QED
    BY <1>1, <1>2

\* So it moves no total.
LEMMA OthersMoveNoTotal ==
  ASSUME SaleInv, Next,
         ~ \E u \in Users, amount \in BuyAmounts : BuyToken(u, amount),
         ~ \E u \in Users : RefundToken(u)
  PROVE  TokensSold' = TokensSold /\ SolPaid' = SolPaid /\ SolHeld' = SolHeld
  <1>1. /\ Bought' = Bought /\ Contributed' = Contributed
        /\ \A u \in Users : lamports'[u] = lamports[u]
    BY OthersLeaveBuyers
  <1>2. SolHeld' = SolHeld
    <2>1. TypeOK /\ TypeOK'
      BY StepTyped DEF SaleInv
    <2> QED
      BY <1>1, <2>1, TotalsAre, TotalsAreNext, SumOfSame, PresaleAssumption
  <1> QED
    BY <1>1, <1>2 DEF TokensSold, SolPaid

-----------------------------------------------------------------------------
(* The invariant of the totals *)

\* The first state satisfies it.
LEMMA InitTotalsInv == Init => TotalsInv
  <1> SUFFICES ASSUME Init PROVE TotalsInv
    OBVIOUS
  <1>1. TokensSold = 0 /\ SolHeld = SumFunction(Funds) /\ SolHeld \in Nat
    BY InitTyped, InitTotals, TotalsAre
  <1>2. /\ presale.total_token_remained = 0 /\ presale.total_presale_token = 0
        /\ presale.total_sol_amount = 0 /\ presale.presale_rate = 0
    BY DEF Init, ZeroedPresale
  <1> QED
    BY <1>1, <1>2
    DEF TotalsInv, AllocationConserved, RaisedIsWhatBuyersPaid,
        PricedExactly, RoundingIsBounded

\* A step that moves no total, leaves the terms and what is raised alone, and
\* lowers what is left, if at all, to nothing in a finalized presale.
LEMMA TotalsUntouched ==
  ASSUME SaleInv, TotalsInv,
         TokensSold' = TokensSold, SolPaid' = SolPaid, SolHeld' = SolHeld,
         presale'.total_sol_amount = presale.total_sol_amount,
         presale'.presale_rate = presale.presale_rate,
         presale'.total_presale_token = presale.total_presale_token,
         presale'.is_hardcapped = presale.is_hardcapped,
         presale'.is_finalized \in {presale.is_finalized, 1},
         \/ presale'.total_token_remained = presale.total_token_remained
         \/ presale'.total_token_remained = 0 /\ presale'.is_finalized = 1
  PROVE  TotalsInv'
  <1>1. /\ TokensSold \in Nat /\ presale.total_token_remained \in Nat
        /\ presale.total_presale_token \in Nat
    BY TotalsAre, RuntimeAssumption DEF SaleInv, TypeOK, PresaleAccount, U64
  <1>2. AllocationConserved'
    BY <1>1 DEF TotalsInv, AllocationConserved
  <1>3. RaisedIsWhatBuyersPaid' /\ PricedExactly' /\ RoundingIsBounded'
    BY DEF TotalsInv, RaisedIsWhatBuyersPaid, PricedExactly,
           RoundingIsBounded
  <1> QED
    BY <1>2, <1>3 DEF TotalsInv

\* Before initialize nobody has paid anything.
LEMMA NothingPaidBeforeInitialize ==
  ASSUME FundsInv, SaleInv, ~Initialized
  PROVE  TokensSold = 0 /\ SolPaid = 0
  <1>1. \A u \in Users : user[u] = NewUser(FALSE)
    BY DEF FundsInv, NothingBeforeInitialize, SaleInv, StrangersOwnNothing
  <1>2. \A u \in Users : Bought[u] = 0 /\ Contributed[u] = 0
    BY <1>1 DEF NewUser, Bought, Contributed
  <1> QED
    BY <1>2, TotalsAre, SumOfNothing, PresaleAssumption DEF SaleInv

\* Two purchases priced at the rate are priced at it together.
LEMMA RatesAddUp ==
  ASSUME NEW rate \in Nat, NEW paid \in Nat, NEW sol \in Nat
  PROVE  /\ rate * (paid + sol) = rate * paid + rate * sol
         /\ rate * paid + rate * (sol + 1) = rate * (paid + sol + 1)
         /\ rate * paid \in Nat /\ rate * sol \in Nat
         /\ rate * (paid + sol + 1) = rate * (paid + sol) + rate
         /\ rate * (sol + 1) = rate * sol + rate
         /\ rate * (paid + 1) = rate * paid + rate
  OBVIOUS

\* buy_token keeps the invariant.
LEMMA BuyTotals ==
  ASSUME SaleInv, TotalsInv, NEW u \in Users, NEW amount \in BuyAmounts,
         BuyToken(u, amount)
  PROVE  TotalsInv'
  <1> DEFINE rate == presale.presale_rate
             remained == presale.total_token_remained
  <1>1. /\ TypeOK /\ rate \in Nat /\ remained \in Nat
        /\ presale.total_presale_token \in Nat
        /\ presale.total_sol_amount \in Nat
        /\ presale.is_hardcapped \in {0, 1}
    BY RuntimeAssumption DEF SaleInv, TypeOK, PresaleAccount, U64, Flag
  <1>2. TokensSold \in Nat /\ SolPaid \in Nat /\ SolHeld \in Nat
    BY <1>1, TotalsAre
  <1>3. PICK bought \in Nat, sol \in Nat, sells_out \in BOOLEAN :
           /\ bought <= remained
           /\ sells_out => bought = remained /\ bought < rate * (sol + 1)
           /\ ~sells_out => bought = rate * sol
           /\ TokensSold' = TokensSold + bought
           /\ SolPaid' = SolPaid + sol
           /\ SolHeld' = SolHeld - sol
           /\ presale'.is_hardcapped
                = IF sells_out THEN 1 ELSE presale.is_hardcapped
           /\ presale'.total_sol_amount = presale.total_sol_amount + sol
           /\ presale'.total_token_remained = remained - bought
           /\ TermsKept
    BY <1>1, BuyMovesTotals
  <1>4. AllocationConserved'
    BY <1>1, <1>2, <1>3 DEF TotalsInv, AllocationConserved, TermsKept
  <1>5. RaisedIsWhatBuyersPaid'
    <2>1. SumFunction(Funds) \in Int
      <3>1. DOMAIN Funds = Users /\ \A w \in Users : Funds[w] \in Nat
        BY PresaleAssumption
      <3> QED
        BY <3>1, SumCounts, PresaleAssumption DEF SumFunction
    <2> QED
      BY <1>1, <1>2, <1>3, <2>1 DEF TotalsInv, RaisedIsWhatBuyersPaid
  <1>6. /\ rate * (SolPaid + sol) = rate * SolPaid + rate * sol
        /\ rate * SolPaid + rate * (sol + 1) = rate * (SolPaid + sol + 1)
        /\ rate * SolPaid \in Nat /\ rate * sol \in Nat
        /\ rate * (SolPaid + sol + 1) = rate * (SolPaid + sol) + rate
        /\ rate * (sol + 1) = rate * sol + rate
        /\ rate * (SolPaid + 1) = rate * SolPaid + rate
    <2> HIDE DEF rate
    <2>1. rate \in Nat /\ SolPaid \in Nat /\ sol \in Nat
      BY <1>1, <1>2
    <2> QED
      BY <2>1, RatesAddUp
  <1>7. PricedExactly' /\ RoundingIsBounded'
    <2> SUFFICES ASSUME rate > 0
                 PROVE  /\ presale'.is_hardcapped = 0 =>
                             TokensSold' = rate * SolPaid'
                        /\ TokensSold' < rate * (SolPaid' + 1)
      BY <1>3 DEF PricedExactly, RoundingIsBounded, TermsKept
    <2>1. CASE presale.is_hardcapped = 0
      <3>1. TokensSold = rate * SolPaid
        BY <2>1 DEF TotalsInv, PricedExactly
      <3>2. CASE sells_out
        BY <1>1, <1>2, <1>3, <1>6, <3>1, <3>2
      <3>3. CASE ~sells_out
        BY <1>1, <1>2, <1>3, <1>6, <3>1, <3>3
      <3> QED
        BY <3>2, <3>3
    <2>2. CASE presale.is_hardcapped = 1
      <3>1. bought = 0
        BY <1>1, <1>3, <2>2 DEF SaleInv, CapsAgreeWithSales
      <3>2. TokensSold < rate * (SolPaid + 1)
        BY DEF TotalsInv, RoundingIsBounded
      <3>3. rate * (SolPaid + 1) <= rate * (SolPaid + sol + 1)
        <4> HIDE DEF rate
        <4> QED
          BY <1>1, <1>2, <1>3, <1>6
      <3>4. rate * (SolPaid + 1) \in Nat /\ rate * (SolPaid + sol + 1) \in Nat
        BY <1>1, <1>2, <1>3, <1>6
      <3>5. presale'.is_hardcapped = 1
        BY <1>3, <2>2
      <3> QED
        BY <1>2, <1>3, <3>1, <3>2, <3>3, <3>4, <3>5
    <2> QED
      BY <1>1, <2>1, <2>2
  <1> QED
    BY <1>4, <1>5, <1>7 DEF TotalsInv

\* refund_token keeps the invariant.
LEMMA RefundTotals ==
  ASSUME SaleInv, TotalsInv, NEW u \in Users, RefundToken(u)
  PROVE  TotalsInv'
  <1>1. TypeOK /\ presale.total_sol_amount \in Nat
    BY RuntimeAssumption DEF SaleInv, TypeOK, PresaleAccount, U64
  <1>2. SolHeld \in Nat /\ SumFunction(Funds) \in Int
    <2>1. DOMAIN Funds = Users /\ \A w \in Users : Funds[w] \in Nat
      BY PresaleAssumption
    <2> QED
      BY <1>1, <2>1, TotalsAre, SumCounts, PresaleAssumption DEF SumFunction
  <1>3. PICK amount \in Nat :
           /\ TokensSold' = TokensSold /\ SolPaid' = SolPaid
           /\ SolHeld' = SolHeld + amount
           /\ presale'.total_sol_amount = presale.total_sol_amount - amount
           /\ TermsKept /\ SaleKept
    BY <1>1, RefundMovesTotals
  <1>4. RaisedIsWhatBuyersPaid'
    BY <1>1, <1>2, <1>3 DEF TotalsInv, RaisedIsWhatBuyersPaid
  <1>5. AllocationConserved' /\ PricedExactly' /\ RoundingIsBounded'
    BY <1>3 DEF TotalsInv, AllocationConserved, PricedExactly,
                RoundingIsBounded, TermsKept, SaleKept
  <1> QED
    BY <1>4, <1>5 DEF TotalsInv

\* initialize starts the totals while nobody has paid anything.
LEMMA InitializeTotals ==
  ASSUME FundsInv, SaleInv, TotalsInv, NEW signer \in Admins,
         NEW a \in InitArgs, Initialize(signer, a),
         TokensSold' = TokensSold, SolPaid' = SolPaid, SolHeld' = SolHeld
  PROVE  TotalsInv'
  <1>1. ~Initialized /\ presale = ZeroedPresale
    BY DEF Initialize, Initialized, FundsInv, NothingBeforeInitialize
  <1>2. TokensSold = 0 /\ SolPaid = 0
    BY <1>1, NothingPaidBeforeInitialize
  <1>3. TypeOK'
    BY InitializeTyped DEF SaleInv
  <1>4. /\ presale'.total_token_remained \in Nat
        /\ presale'.presale_rate \in Nat
    BY <1>3, RuntimeAssumption DEF TypeOK, PresaleAccount, U64
  <1>5. /\ presale'.total_presale_token = presale'.total_token_remained
        /\ presale'.total_sol_amount = presale.total_sol_amount
    BY <1>1 DEF Initialize, ZeroedPresale
  <1>6. AllocationConserved'
    BY <1>2, <1>4, <1>5 DEF AllocationConserved
  <1>7. RaisedIsWhatBuyersPaid'
    BY <1>5 DEF TotalsInv, RaisedIsWhatBuyersPaid
  <1>8. PricedExactly' /\ RoundingIsBounded'
    BY <1>2, <1>4 DEF PricedExactly, RoundingIsBounded
  <1> QED
    BY <1>6, <1>7, <1>8 DEF TotalsInv

\* The other instructions keep it: withdraw_token writes off what is left of a
\* finalized presale, finalize only finalizes or cancels.
LEMMA OtherTotals ==
  ASSUME FundsInv, SaleInv, TotalsInv, NEW signer \in Admins,
         AdminNext(signer),
         TokensSold' = TokensSold, SolPaid' = SolPaid, SolHeld' = SolHeld
  PROVE  TotalsInv'
  <1>1. presale \in PresaleAccount /\ presale.is_finalized \in {0, 1}
    BY DEF SaleInv, TypeOK, PresaleAccount, Flag
  <1>2. ASSUME \/ \E amount \in DepositAmounts : DepositToken(signer, amount)
               \/ \E u \in Users : \/ AddWhitelist(signer, u)
                                   \/ RemoveWhitelist(signer, u)
                                   \/ ClaimToken(signer, u)
               \/ \E s, e \in NewTimes : UpdatePresaleDetails(signer, s, e)
               \/ CancelPresale(signer)
               \/ \E f \in ForceFlags : Finalize(signer, f)
               \/ Withdraw(signer)
        PROVE  TotalsInv'
    BY <1>1, <1>2, TotalsUntouched
    DEF DepositToken, AddWhitelist, RemoveWhitelist, ClaimToken,
        UpdatePresaleDetails, CancelPresale, Finalize, Withdraw,
        PresaleAccount
  <1>3. ASSUME WithdrawToken(signer)
        PROVE  TotalsInv'
    BY <1>1, <1>3, TotalsUntouched
    DEF WithdrawToken, is_finalized, PresaleAccount
  <1> QED
    BY <1>2, <1>3, InitializeTotals DEF AdminNext

\* Every step keeps the invariant of the totals.
LEMMA StepTotals ==
  FundsInv /\ SaleInv /\ TotalsInv /\ [Next]_vars => TotalsInv'
  <1> SUFFICES ASSUME FundsInv, SaleInv, TotalsInv, [Next]_vars
               PROVE  TotalsInv'
    OBVIOUS
  <1>1. CASE \E u \in Users, amount \in BuyAmounts : BuyToken(u, amount)
    BY <1>1, BuyTotals
  <1>2. CASE \E u \in Users : RefundToken(u)
    BY <1>2, RefundTotals
  <1>3. ASSUME Next,
               ~ \E u \in Users, amount \in BuyAmounts : BuyToken(u, amount),
               ~ \E u \in Users : RefundToken(u)
        PROVE  TotalsInv'
    <2>1. /\ TokensSold' = TokensSold /\ SolPaid' = SolPaid
          /\ SolHeld' = SolHeld
      BY <1>3, OthersMoveNoTotal
    <2>2. CASE Tick
      BY <2>1, <2>2, TotalsUntouched DEF Tick
    <2> QED
      BY <1>3, <2>1, <2>2, OtherTotals DEF Next, BuyerNext
  <1>4. CASE UNCHANGED vars
    <2>1. /\ TokensSold' = TokensSold /\ SolPaid' = SolPaid
          /\ SolHeld' = SolHeld
      BY <1>4 DEF vars, TokensSold, SolPaid, SolHeld, Bought, Contributed
    <2> QED
      BY <1>4, <2>1, TotalsUntouched DEF vars
  <1> QED
    BY <1>1, <1>2, <1>3, <1>4

LEMMA TotalsInvariant == Spec => []TotalsInv
  BY InitTotalsInv, StepTotals, FundsInvariant, SaleInvariant, PTL DEF Spec

\* No purchase is lost or double counted between the sale's counter and the
\* buyers' records, and no more is sold than was allotted.
THEOREM AllocationIsConserved == Spec => []AllocationConserved
  <1>1. TotalsInv => AllocationConserved
    BY DEF TotalsInv
  <1> QED
    BY <1>1, TotalsInvariant, PTL

\* total_sol_amount is what the buyers together are out of pocket, after any
\* purchases and any, also repeated, refunds.
THEOREM RaisedIsPaid == Spec => []RaisedIsWhatBuyersPaid
  <1>1. TotalsInv => RaisedIsWhatBuyersPaid
    BY DEF TotalsInv
  <1> QED
    BY <1>1, TotalsInvariant, PTL

\* Over the whole sale rounding gives away less than one lamport's worth.
THEOREM RoundingBounded == Spec => []RoundingIsBounded
  <1>1. TotalsInv => RoundingIsBounded
    BY DEF TotalsInv
  <1> QED
    BY <1>1, TotalsInvariant, PTL

-----------------------------------------------------------------------------
(* Refunds *)

\* The wallets still to be refunded.
Refundable == {u \in Users : Unrefunded(u)}

\* They are finitely many, now and in the next state.
LEMMA RefundableFinite ==
  /\ IsFiniteSet(Refundable) /\ Cardinality(Refundable) \in Nat
  /\ IsFiniteSet(Refundable') /\ Cardinality(Refundable') \in Nat
  <1>1. Refundable \subseteq Users /\ Refundable' \subseteq Users
    BY DEF Refundable
  <1>2. IsFiniteSet(Refundable) /\ IsFiniteSet(Refundable')
    BY <1>1, PresaleAssumption, FS_Subset
  <1> QED
    BY <1>2, FS_CardinalityType

\* The counter of participants against them.
LEMMA RefundsAreCountedFor ==
  /\ RefundsAreCounted <=>
       (NobodyRefundedTwice => Cardinality(Refundable) <= presale.total_participants)
  /\ RefundsAreCounted' <=>
       (NobodyRefundedTwice' =>
          Cardinality(Refundable') <= presale'.total_participants)
  BY DEF RefundsAreCounted, Refundable

\* The first state owes nobody anything.
LEMMA InitRefunds == Init => RefundInv
  <1> SUFFICES ASSUME Init PROVE RefundInv
    OBVIOUS
  <1>1. \A u \in Users : /\ user[u].user_buy_amount = 0
                         /\ user[u].user_sol_contributed = 0
                         /\ lamports[u] = Funds[u] /\ Funds[u] \in Nat
    BY PresaleAssumption DEF Init, NewUser, Wallets
  <1>2. PaidOrRefunded
    BY <1>1 DEF PaidOrRefunded
  <1>3. Refundable = {}
    BY <1>1 DEF Refundable, Unrefunded
  <1>4. presale.total_participants = 0
    BY DEF Init, ZeroedPresale
  <1>5. RefundsAreCounted
    BY <1>3, <1>4, FS_EmptySet, RefundsAreCountedFor
  <1> QED
    BY <1>2, <1>5 DEF RefundInv

\* A step that leaves the buyers and the count of participants alone, and
\* undoes no cancellation, keeps the invariant.
LEMMA RefundsUntouched ==
  ASSUME RefundInv, Bought' = Bought, Contributed' = Contributed,
         \A u \in Users : lamports'[u] = lamports[u],
         presale'.total_participants = presale.total_participants,
         presale'.is_cancelled = 0 => presale.is_cancelled = 0
  PROVE  RefundInv'
  <1>1. \A u \in Users :
          /\ user'[u].user_buy_amount = user[u].user_buy_amount
          /\ user'[u].user_sol_contributed = user[u].user_sol_contributed
    <2> SUFFICES ASSUME NEW u \in Users
                 PROVE  /\ user'[u].user_buy_amount = user[u].user_buy_amount
                        /\ user'[u].user_sol_contributed
                             = user[u].user_sol_contributed
      OBVIOUS
    <2>1. /\ Bought[u] = user[u].user_buy_amount
          /\ Contributed[u] = user[u].user_sol_contributed
          /\ Bought'[u] = user'[u].user_buy_amount
          /\ Contributed'[u] = user'[u].user_sol_contributed
      BY DEF Bought, Contributed
    <2> QED
      BY <2>1
  <1>2. PaidOrRefunded'
    BY <1>1 DEF RefundInv, PaidOrRefunded
  <1>3. Refundable' = Refundable /\ NobodyRefundedTwice' = NobodyRefundedTwice
    BY <1>1 DEF Refundable, Unrefunded, NobodyRefundedTwice
  <1>4. RefundsAreCounted'
    BY <1>3, RefundsAreCountedFor DEF RefundInv
  <1> QED
    BY <1>2, <1>4 DEF RefundInv

\* buy_token keeps it: it runs only before a cancellation, and counts the buyer
\* unless his record shows that he was counted before.
LEMMA BuyRefunds ==
  ASSUME TypeOK, RefundInv, NEW u \in Users, NEW amount \in BuyAmounts,
         BuyToken(u, amount)
  PROVE  RefundInv'
  <1>1. PICK bought \in U64, sol \in U64, joined \in {0, 1},
             sells_out \in BOOLEAN :
           /\ joined = IF user[u].user_buy_amount = 0 THEN 1 ELSE 0
           /\ MayBuy(u, amount, sells_out, sol)
           /\ lamports' = [lamports EXCEPT ![u] = @ - sol]
           /\ user' = [user EXCEPT ![u] = Purchased(@, bought, sol)]
           /\ presale' = Sold(presale, joined, bought, sol, sells_out)
    BY BuyFacts
  <1>2. /\ presale \in PresaleAccount /\ user \in [Users -> UserAccount]
        /\ lamports \in [Wallets -> Nat] /\ u \in Wallets
        /\ bought \in Nat /\ sol \in Nat /\ presale.total_participants \in Nat
        /\ \A w \in Users : /\ user[w].user_buy_amount \in Nat
                            /\ user[w].user_sol_contributed \in Nat
                            /\ lamports[w] \in Nat /\ Funds[w] \in Nat
    BY RuntimeAssumption, PresaleAssumption
    DEF TypeOK, PresaleAccount, UserAccount, U64, Counter, Wallets
  <1>3. presale.is_cancelled = 0
    BY <1>1, <1>2 DEF MayBuy, PresaleAccount, Flag
  <1>4. /\ presale'.is_cancelled = 0
        /\ presale'.total_participants = presale.total_participants + joined
    BY <1>1, <1>2, <1>3 DEF Sold, PresaleAccount
  <1>5. /\ \A w \in Users \ {u} : user'[w] = user[w] /\ lamports'[w] = lamports[w]
        /\ user'[u].user_buy_amount = user[u].user_buy_amount + bought
        /\ user'[u].user_sol_contributed = user[u].user_sol_contributed + sol
        /\ lamports'[u] = lamports[u] - sol
    BY <1>1, <1>2 DEF Purchased, UserAccount, Wallets
  <1>6. \A w \in Users : /\ lamports[w] + user[w].user_sol_contributed = Funds[w]
                         /\ lamports'[w] + user'[w].user_sol_contributed = Funds[w]
    BY <1>2, <1>3, <1>5 DEF RefundInv, PaidOrRefunded
  <1>7. PaidOrRefunded'
    BY <1>2, <1>4, <1>6 DEF PaidOrRefunded
  <1>8. NobodyRefundedTwice
    BY <1>2, <1>6 DEF NobodyRefundedTwice
  <1>9. Cardinality(Refundable') <= Cardinality(Refundable) + joined
    <2>1. Refundable' \subseteq Refundable \cup {u}
      BY <1>5 DEF Refundable, Unrefunded
    <2>2. CASE u \in Refundable
      <3>1. Refundable' \subseteq Refundable
        BY <2>1, <2>2
      <3> QED
        BY <1>1, <3>1, RefundableFinite, FS_Subset
    <2>3. CASE u \notin Refundable
      <3>1. joined = 1
        BY <1>1, <1>2, <1>6, <2>3 DEF Refundable, Unrefunded
      <3> QED
        BY <2>1, <3>1, RefundableFinite, GrowsByOne
    <2> QED
      BY <2>2, <2>3
  <1>10. RefundsAreCounted'
    <2>1. Cardinality(Refundable) <= presale.total_participants
      BY <1>8, RefundsAreCountedFor DEF RefundInv
    <2>2. Cardinality(Refundable') <= presale'.total_participants
      BY <1>1, <1>2, <1>4, <1>9, <2>1, RefundableFinite
    <2> QED
      BY <2>2, RefundsAreCountedFor
  <1> QED
    BY <1>7, <1>10 DEF RefundInv

\* refund_token keeps it: unless the wallet is refunded for the second time, it
\* was owed its refund, and is not any more.
LEMMA RefundRefunded ==
  ASSUME TypeOK, RefundInv, NEW u \in Users, RefundToken(u)
  PROVE  RefundInv'
  <1> DEFINE amount == user[u].user_sol_contributed
  <1>1. /\ presale \in PresaleAccount /\ lamports \in [Wallets -> Nat]
        /\ u \in Wallets /\ amount \in Nat
        /\ presale.total_participants \in Nat
        /\ \A w \in Users : /\ user[w].user_buy_amount \in Nat
                            /\ user[w].user_sol_contributed \in Nat
                            /\ lamports[w] \in Nat /\ Funds[w] \in Nat
    BY RuntimeAssumption, PresaleAssumption
    DEF TypeOK, PresaleAccount, UserAccount, U64, Counter, Wallets
  <1>2. UNCHANGED user /\ presale.is_cancelled # 0
    BY DEF RefundToken, MayRefund
  <1>3. CASE UNCHANGED <<presale, lamports>>
    BY <1>2, <1>3, RefundsUntouched DEF Bought, Contributed
  <1>4. CASE /\ amount > 0
             /\ lamports' = [lamports EXCEPT ![u] = @ + amount]
             /\ presale' = Refunded(presale, amount)
    <2>1. /\ presale'.total_participants = presale.total_participants - 1
          /\ presale'.is_cancelled # 0
      BY <1>1, <1>2, <1>4 DEF Refunded, PresaleAccount
    <2>2. /\ \A w \in Users \ {u} : lamports'[w] = lamports[w]
          /\ lamports'[u] = lamports[u] + amount
      BY <1>1, <1>4 DEF Wallets
    <2>3. PaidOrRefunded'
      BY <1>1, <1>2, <2>1, <2>2 DEF RefundInv, PaidOrRefunded
    <2>4. ASSUME NobodyRefundedTwice'
          PROVE  Cardinality(Refundable') <= presale'.total_participants
      <3>1. NobodyRefundedTwice
        BY <1>1, <2>2, <2>4 DEF NobodyRefundedTwice
      <3>2. lamports[u] + amount = Funds[u]
        <4>1. lamports[u] + amount <= Funds[u]
          BY <2>2, <2>4 DEF NobodyRefundedTwice
        <4>2. lamports[u] + amount >= Funds[u]
          BY DEF RefundInv, PaidOrRefunded
        <4> QED
          BY <1>1, <4>1, <4>2
      <3>3. u \in Refundable
        BY <1>4, <3>2 DEF Refundable, Unrefunded
      <3>4. Refundable' \subseteq Refundable \ {u}
        <4>1. u \notin Refundable'
          BY <1>1, <1>2, <1>4, <2>2, <3>2 DEF Refundable, Unrefunded
        <4>2. Refundable' \subseteq Refundable \cup {u}
          BY <1>2, <2>2 DEF Refundable, Unrefunded
        <4> QED
          BY <4>1, <4>2
      <3>5. /\ IsFiniteSet(Refundable \ {u})
            /\ Cardinality(Refundable \ {u}) = Cardinality(Refundable) - 1
        BY <3>3, RefundableFinite, FS_RemoveElement
      <3>6. Cardinality(Refundable') <= Cardinality(Refundable) - 1
        BY <3>4, <3>5, FS_Subset
      <3>7. Cardinality(Refundable) <= presale.total_participants
        BY <3>1, RefundsAreCountedFor DEF RefundInv
      <3> QED
        BY <1>1, <2>1, <3>6, <3>7, RefundableFinite
    <2> QED
      BY <2>3, <2>4, RefundsAreCountedFor DEF RefundInv
  <1> QED
    BY <1>3, <1>4 DEF RefundToken

\* The instructions of the admin keep it: initialize finds nobody counted, and
\* none of the others counts a buyer or undoes a cancellation.
LEMMA AdminCountsNobody ==
  ASSUME FundsInv, NEW signer \in Admins, AdminNext(signer)
  PROVE  /\ presale'.total_participants = presale.total_participants
         /\ presale'.is_cancelled = 0 => presale.is_cancelled = 0
  <1>1. presale \in PresaleAccount
    BY DEF FundsInv, TypeOK
  <1>2. ASSUME NEW a \in InitArgs, Initialize(signer, a)
        PROVE  /\ presale'.total_participants = presale.total_participants
               /\ presale'.is_cancelled = 0 => presale.is_cancelled = 0
    <2>1. presale = ZeroedPresale
      BY <1>2 DEF Initialize, FundsInv, NothingBeforeInitialize, Initialized
    <2> QED
      BY <1>2, <2>1 DEF Initialize, ZeroedPresale
  <1>3. ASSUME NEW f \in ForceFlags, Finalize(signer, f)
        PROVE  /\ presale'.total_participants = presale.total_participants
               /\ presale'.is_cancelled = 0 => presale.is_cancelled = 0
    BY <1>1, <1>3 DEF Finalize, CancelledByFinalize, PresaleAccount
  <1>4. ASSUME \/ \E amount \in DepositAmounts : DepositToken(signer, amount)
               \/ \E u \in Users : ClaimToken(signer, u)
               \/ Withdraw(signer)
        PROVE  /\ presale'.total_participants = presale.total_participants
               /\ presale'.is_cancelled = 0 => presale.is_cancelled = 0
    BY <1>4 DEF DepositToken, ClaimToken, Withdraw
  <1>5. ASSUME \/ \E u \in Users : \/ AddWhitelist(signer, u)
                                   \/ RemoveWhitelist(signer, u)
               \/ \E s, e \in NewTimes : UpdatePresaleDetails(signer, s, e)
               \/ WithdrawToken(signer)
        PROVE  /\ presale'.total_participants = presale.total_participants
               /\ presale'.is_cancelled = 0 => presale.is_cancelled = 0
    BY <1>1, <1>5
    DEF AddWhitelist, RemoveWhitelist, UpdatePresaleDetails, WithdrawToken,
        PresaleAccount
  <1>6. ASSUME CancelPresale(signer)
        PROVE  /\ presale'.total_participants = presale.total_participants
               /\ presale'.is_cancelled = 0 => presale.is_cancelled = 0
    BY <1>1, <1>6 DEF CancelPresale, PresaleAccount
  <1> QED
    BY <1>2, <1>3, <1>4, <1>5, <1>6 DEF AdminNext

\* Every step keeps the invariant of refunds.
LEMMA StepRefunds ==
  FundsInv /\ SaleInv /\ RefundInv /\ [Next]_vars => RefundInv'
  <1> SUFFICES ASSUME FundsInv, SaleInv, RefundInv, [Next]_vars
               PROVE  RefundInv'
    OBVIOUS
  <1>1. CASE \E u \in Users, amount \in BuyAmounts : BuyToken(u, amount)
    BY <1>1, BuyRefunds DEF FundsInv
  <1>2. CASE \E u \in Users : RefundToken(u)
    BY <1>2, RefundRefunded DEF FundsInv
  <1>3. ASSUME Next,
               ~ \E u \in Users, amount \in BuyAmounts : BuyToken(u, amount),
               ~ \E u \in Users : RefundToken(u)
        PROVE  RefundInv'
    <2>1. /\ Bought' = Bought /\ Contributed' = Contributed
          /\ \A u \in Users : lamports'[u] = lamports[u]
      BY <1>3, OthersLeaveBuyers
    <2>2. CASE Tick
      BY <2>1, <2>2, RefundsUntouched DEF Tick
    <2>3. ASSUME NEW signer \in Admins, AdminNext(signer)
          PROVE  RefundInv'
      BY <2>1, <2>3, AdminCountsNobody, RefundsUntouched
    <2> QED
      BY <1>3, <2>2, <2>3 DEF Next, BuyerNext
  <1>4. CASE UNCHANGED vars
    BY <1>4, RefundsUntouched DEF vars, Bought, Contributed
  <1> QED
    BY <1>1, <1>2, <1>3, <1>4

LEMMA RefundInvariant == Spec => []RefundInv
  BY InitRefunds, StepRefunds, FundsInvariant, SaleInvariant, PTL DEF Spec

\* As long as no wallet was refunded twice, what one of them is still owed is
\* part of what total_sol_amount says was raised.
LEMMA OwedIsRaised ==
  ASSUME TypeOK, RaisedIsWhatBuyersPaid, NobodyRefundedTwice,
         NEW u \in Users, Unrefunded(u)
  PROVE  user[u].user_sol_contributed <= presale.total_sol_amount
  <1> DEFINE amount == user[u].user_sol_contributed
             after == [lamports EXCEPT ![u] = Funds[u]]
  <1>1. /\ lamports \in [Wallets -> Nat] /\ u \in Wallets /\ amount \in Nat
        /\ Funds \in [Users -> Nat] /\ IsFiniteSet(Users)
        /\ \A w \in Users : lamports[w] \in Nat /\ Funds[w] \in Nat
    BY RuntimeAssumption, PresaleAssumption DEF TypeOK, UserAccount, U64, Wallets
  <1>2. /\ \A w \in Users \ {u} : after[w] = lamports[w]
        /\ after[u] = Funds[u]
    BY <1>1 DEF Wallets
  <1>3. \A w \in Users : after[w] \in Nat /\ after[w] <= Funds[w]
    BY <1>1, <1>2 DEF NobodyRefundedTwice
  <1> HIDE DEF after, amount
  <1>4. SumFunctionOnSet(after, Users)
          = SumFunctionOnSet(lamports, Users) + after[u] - lamports[u]
    BY <1>1, <1>2, <1>3, SumChanges
  <1>5. SumFunctionOnSet(after, Users) <= SumFunctionOnSet(Funds, Users)
    BY <1>1, <1>3, SumAtMost
  <1>6. /\ SumFunction(Funds) = SumFunctionOnSet(Funds, Users)
        /\ SumFunctionOnSet(Funds, Users) \in Nat
        /\ SumFunctionOnSet(after, Users) \in Nat
        /\ SolHeld = SumFunctionOnSet(lamports, Users) /\ SolHeld \in Nat
    BY <1>1, <1>3, SumCounts, TotalsAre DEF SumFunction
  <1>7. Funds[u] = lamports[u] + amount
    BY DEF Unrefunded, amount
  <1>8. amount <= presale.total_sol_amount
    BY <1>1, <1>2, <1>4, <1>5, <1>6, <1>7 DEF RaisedIsWhatBuyersPaid
  <1> QED
    BY <1>8 DEF amount

\* In a presale cancelled before finalize, as long as no wallet was refunded
\* twice, refund_token accepts the first refund of every buyer.
THEOREM FirstRefundsAccepted == Spec => []FirstRefundsAreAccepted
  <1>1. ASSUME FundsInv, SaleInv, TotalsInv, RefundInv
        PROVE  FirstRefundsAreAccepted
    <2> SUFFICES ASSUME presale.is_cancelled = 1, presale.is_finalized = 0,
                        NobodyRefundedTwice, NEW u \in Users, Unrefunded(u)
                 PROVE  MayRefund(u, user[u].user_sol_contributed)
      BY DEF FirstRefundsAreAccepted
    <2> DEFINE amount == user[u].user_sol_contributed
    <2>1. /\ TypeOK /\ amount \in Nat /\ presale.total_sol_amount \in U64
          /\ presale.total_sol_amount \in Nat
          /\ presale.total_participants \in Counter
          /\ presale.total_participants \in Nat
      BY <1>1, RuntimeAssumption
      DEF FundsInv, TypeOK, UserAccount, PresaleAccount, U64, Counter
    <2>2. Initialized
      BY <1>1 DEF FundsInv, NothingBeforeInitialize, ZeroedPresale
    <2>3. user[u].exists
      BY <1>1 DEF SaleInv, StrangersOwnNothing, NewUser, Unrefunded
    <2>4. amount <= presale.total_sol_amount
      BY <1>1, <2>1, OwedIsRaised DEF TotalsInv
    <2>5. presale.total_participants >= 1
      <3>1. u \in Refundable
        BY DEF Refundable
      <3>2. Cardinality(Refundable) # 0
        BY <3>1, RefundableFinite, FS_EmptySet
      <3>3. Cardinality(Refundable) <= presale.total_participants
        BY <1>1, RefundsAreCountedFor DEF RefundInv
      <3> QED
        BY <2>1, <3>2, <3>3, RefundableFinite
    <2> HIDE DEF amount
    <2>6. CanDebit(escrow, amount)
      <3>1. escrow = [lamports |-> RentExemptEscrow + presale.total_sol_amount,
                      owner |-> "program"]
        BY <1>1, <2>2 DEF FundsInv, EscrowBacksRefunds
      <3> QED
        BY <2>1, <2>4, <3>1, RuntimeAssumption
        DEF CanDebit, RentStateOK, RentMinimum
    <2>7. RentStateOK(lamports[u] + amount, "system")
      BY PresaleAssumption DEF Unrefunded, amount
    <2>8. /\ presale.total_sol_amount - amount \in U64
          /\ presale.total_participants - 1 \in Counter
      BY <2>1, <2>4, <2>5, RuntimeAssumption DEF U64, Counter
    <2> QED
      BY <2>3, <2>6, <2>7, <2>8 DEF MayRefund, amount
  <1> QED
    BY <1>1, FundsInvariant, SaleInvariant, TotalsInvariant, RefundInvariant,
       PTL

-----------------------------------------------------------------------------
(* What finalize decides, when it is never forced *)

\* A finalized presale stays so, and sells on only within its allotment.
LEMMA FinalizedStays ==
  ASSUME FundsInv, SaleInv, Next, presale.is_finalized = 1
  PROVE  /\ presale'.is_finalized = 1
         /\ TokensSold' >= TokensSold
         /\ presale'.total_presale_token = presale.total_presale_token
         /\ presale'.soft_cap = presale.soft_cap
         /\ now' >= now
  <1>1. /\ presale \in PresaleAccount /\ TokensSold \in Nat /\ now \in Nat
        /\ Initialized
    BY TotalsAre
    DEF SaleInv, TypeOK, FundsInv, NothingBeforeInitialize, ZeroedPresale
  <1>2. ASSUME NEW u \in Users, NEW amount \in BuyAmounts, BuyToken(u, amount)
        PROVE  /\ TermsKept /\ TokensSold' >= TokensSold /\ now' = now
    <2>1. now' = now
      BY <1>2 DEF BuyToken
    <2>2. PICK bought \in Nat : TermsKept /\ TokensSold' = TokensSold + bought
      BY <1>2, BuyMovesTotals DEF SaleInv
    <2> QED
      BY <1>1, <2>1, <2>2
  <1>3. ASSUME NEW u \in Users, RefundToken(u)
        PROVE  /\ TermsKept /\ TokensSold' = TokensSold /\ now' = now
    <2>1. now' = now
      BY <1>3 DEF RefundToken
    <2> QED
      BY <1>3, <2>1, RefundMovesTotals DEF SaleInv
  <1>4. ASSUME ~ \E u \in Users, amount \in BuyAmounts : BuyToken(u, amount),
               ~ \E u \in Users : RefundToken(u)
        PROVE  TokensSold' = TokensSold
    BY <1>4, OthersMoveNoTotal
  <1>5. ASSUME NEW signer \in Admins, AdminNext(signer)
        PROVE  /\ presale'.is_finalized = 1
               /\ presale'.total_presale_token = presale.total_presale_token
               /\ presale'.soft_cap = presale.soft_cap
               /\ now' = now
    BY <1>1, <1>5
    DEF AdminNext, Initialize, Initialized, DepositToken, AddWhitelist,
        RemoveWhitelist, UpdatePresaleDetails, CancelPresale, Finalize,
        ClaimToken, WithdrawToken, Withdraw, PresaleAccount
  <1>6. CASE Tick
    <2>1. TokensSold' = TokensSold
      BY <1>6 DEF Tick, TokensSold, Bought
    <2> QED
      BY <1>1, <1>6, <2>1 DEF Tick
  <1> QED
    BY <1>1, <1>2, <1>3, <1>4, <1>5, <1>6 DEF Next, BuyerNext, TermsKept

\* Unforced, finalize finalizes only a sale that is over and reached a cap.
LEMMA UnforcedFinalizes ==
  ASSUME TypeOK, NeverForced, presale.is_finalized = 0, presale'.is_finalized = 1
  PROVE  /\ SaleOver
         /\ presale.is_softcapped = 1 \/ presale.is_hardcapped = 1
         /\ TokensSold' = TokensSold
         /\ presale' = [presale EXCEPT !.is_finalized = 1]
         /\ now' = now
  <1>1. presale \in PresaleAccount
    BY DEF TypeOK
  <1>2. PICK signer \in Admins : Finalize(signer, 0)
    BY DEF NeverForced
  <1>3. TokensSold' = TokensSold
    BY <1>2 DEF Finalize, TokensSold, Bought
  <1>4. presale.is_softcapped \in {0, 1} /\ presale.is_hardcapped \in {0, 1}
    BY <1>1 DEF PresaleAccount, Flag
  <1> QED
    BY <1>1, <1>2, <1>3, <1>4 DEF Finalize, CancelledByFinalize, PresaleAccount

\* What is left when finalize runs: nothing of a sale that sold out, less than
\* soft_cap of one that is marked soft-capped.
LEMMA CapsMeanSold ==
  ASSUME SaleInv, TotalsInv, presale.is_finalized = 0
  PROVE  /\ presale.is_hardcapped = 1 =>
              TokensSold = presale.total_presale_token
         /\ presale.is_softcapped = 1 =>
              TokensSold + presale.soft_cap > presale.total_presale_token
  <1>1. /\ TokensSold \in Nat /\ presale.total_token_remained \in Nat
        /\ presale.soft_cap \in Nat /\ presale.total_presale_token \in Nat
    BY TotalsAre, RuntimeAssumption DEF SaleInv, TypeOK, PresaleAccount, U64
  <1>2. TokensSold + presale.total_token_remained
          = presale.total_presale_token
    BY DEF TotalsInv, AllocationConserved
  <1> QED
    BY <1>1, <1>2 DEF SaleInv, CapsAgreeWithSales

\* A finalized presale that is sold out stays sold out.
LEMMA SoldOutStays ==
  ASSUME FundsInv, SaleInv, TotalsInv, Next, presale.is_finalized = 1,
         TokensSold = presale.total_presale_token
  PROVE  TokensSold' = presale'.total_presale_token
  <1>1. /\ TypeOK' /\ TotalsInv' /\ TokensSold \in Nat
    BY StepTyped, StepTotals, TotalsAre DEF SaleInv
  <1>2. /\ TokensSold' \in Int /\ presale'.total_token_remained \in Nat
        /\ presale.total_presale_token \in Nat
    <2>1. TokensSold' \in Nat
      BY <1>1, TotalsAreNext, SumCounts, PresaleAssumption
    <2> QED
      BY <1>1, <2>1, RuntimeAssumption
      DEF SaleInv, TypeOK, PresaleAccount, U64
  <1>3. TokensSold' + presale'.total_token_remained
          <= presale'.total_presale_token
    BY <1>1 DEF TotalsInv, AllocationConserved
  <1> QED
    BY <1>1, <1>2, <1>3, FinalizedStays

\* Whatever buyers and admins do, a presale that is never forced is finalized
\* only when it sold out, or left no more than its soft cap allows.
THEOREM FinalizedReachedACap ==
  Spec /\ [][NeverForced]_vars => []FinalizedMeansCapReached
  <1>1. Init => FinalizedMeansCapReached
    BY DEF Init, ZeroedPresale, FinalizedMeansCapReached
  <1>2. FundsInv /\ SaleInv /\ TotalsInv /\ FinalizedMeansCapReached
          /\ [Next]_vars /\ [NeverForced]_vars => FinalizedMeansCapReached'
    <2> SUFFICES ASSUME FundsInv, SaleInv, TotalsInv,
                        FinalizedMeansCapReached, [Next]_vars,
                        [NeverForced]_vars, presale'.is_finalized = 1
                 PROVE  \/ TokensSold' = presale'.total_presale_token
                        \/ TokensSold' + presale'.soft_cap
                             > presale'.total_presale_token
      BY DEF FinalizedMeansCapReached
    <2>1. /\ TypeOK /\ presale \in PresaleAccount /\ TokensSold \in Nat
          /\ presale.is_finalized \in {0, 1}
          /\ presale.soft_cap \in Nat /\ presale.total_presale_token \in Nat
      BY TotalsAre, RuntimeAssumption
      DEF SaleInv, TypeOK, PresaleAccount, U64, Flag
    <2>2. CASE UNCHANGED vars
      BY <2>2
      DEF vars, FinalizedMeansCapReached, TokensSold, Bought
    <2>3. CASE Next /\ presale.is_finalized = 0
      <3>1. /\ presale.is_softcapped = 1 \/ presale.is_hardcapped = 1
            /\ TokensSold' = TokensSold
            /\ presale' = [presale EXCEPT !.is_finalized = 1]
        BY <2>1, <2>3, UnforcedFinalizes DEF vars
      <3>2. /\ presale'.total_presale_token = presale.total_presale_token
            /\ presale'.soft_cap = presale.soft_cap
        BY <2>1, <3>1 DEF PresaleAccount
      <3> QED
        BY <2>3, <3>1, <3>2, CapsMeanSold
    <2>4. CASE Next /\ presale.is_finalized = 1
      <3>1. /\ TokensSold' >= TokensSold
            /\ presale'.total_presale_token = presale.total_presale_token
            /\ presale'.soft_cap = presale.soft_cap
        BY <2>4, FinalizedStays
      <3>2. CASE TokensSold = presale.total_presale_token
        BY <2>4, <3>2, SoldOutStays
      <3>3. CASE TokensSold + presale.soft_cap > presale.total_presale_token
        <4>1. TokensSold' \in Int
          BY <2>1, <2>4, StepTyped, TotalsAreNext, SumCounts,
             PresaleAssumption
        <4> QED
          BY <2>1, <3>1, <3>3, <4>1
      <3> QED
        BY <2>4, <3>2, <3>3 DEF FinalizedMeansCapReached
    <2> QED
      BY <2>1, <2>2, <2>3, <2>4
  <1> QED
    BY <1>1, <1>2, FundsInvariant, SaleInvariant, TotalsInvariant, PTL
    DEF Spec

\* When finalize is never forced and the end of the sale never postponed, the
\* lamports and the unsold tokens can be had before that end only of a presale
\* that is sold out.
THEOREM PaidOutEarlySoldOut ==
  Spec /\ [][NeverForced]_vars /\ [][NeverPostponed]_vars
    => []PaidOutEarlyMeansSoldOut
  <1>1. Init => FinalizedEarlyMeansSoldOut
    BY DEF Init, ZeroedPresale, FinalizedEarlyMeansSoldOut
  <1>2. FundsInv /\ SaleInv /\ TotalsInv /\ FinalizedEarlyMeansSoldOut
          /\ [Next]_vars /\ [NeverForced]_vars /\ [NeverPostponed]_vars
            => FinalizedEarlyMeansSoldOut'
    <2> SUFFICES ASSUME FundsInv, SaleInv, TotalsInv,
                        FinalizedEarlyMeansSoldOut, [Next]_vars,
                        [NeverForced]_vars, [NeverPostponed]_vars,
                        presale'.is_finalized = 1, now' < presale'.end_time
                 PROVE  TokensSold' = presale'.total_presale_token
      BY DEF FinalizedEarlyMeansSoldOut
    <2>1. /\ TypeOK /\ TypeOK' /\ presale \in PresaleAccount
          /\ presale.is_finalized \in {0, 1}
      BY StepTyped DEF SaleInv, TypeOK, PresaleAccount, Flag
    <2>2. /\ now \in Nat /\ now' \in Nat /\ presale.end_time \in Nat
          /\ presale'.end_time \in Nat
      BY <2>1, RuntimeAssumption DEF TypeOK, PresaleAccount, U64
    <2>3. CASE UNCHANGED vars
      BY <2>3
      DEF vars, FinalizedEarlyMeansSoldOut, TokensSold, Bought
    <2>4. CASE Next /\ presale.is_finalized = 0
      <3>1. /\ SaleOver
            /\ TokensSold' = TokensSold /\ now' = now
            /\ presale' = [presale EXCEPT !.is_finalized = 1]
        BY <2>1, <2>4, UnforcedFinalizes DEF vars
      <3>2. /\ presale'.total_presale_token = presale.total_presale_token
            /\ presale'.end_time = presale.end_time
            /\ presale.is_hardcapped \in {0, 1}
        BY <2>1, <3>1 DEF PresaleAccount, Flag
      <3>3. presale.is_hardcapped = 1
        BY <2>2, <3>1, <3>2 DEF SaleOver
      <3> QED
        BY <2>4, <3>1, <3>2, <3>3, CapsMeanSold
    <2>5. CASE Next /\ presale.is_finalized = 1 /\ ~UNCHANGED vars
      <3>1. Initialized
        BY <2>5 DEF FundsInv, NothingBeforeInitialize, ZeroedPresale
      <3>2. now' >= now /\ presale'.end_time <= presale.end_time
        BY <2>5, <3>1, FinalizedStays DEF NeverPostponed
      <3>3. TokensSold = presale.total_presale_token
        BY <2>2, <2>5, <3>2 DEF FinalizedEarlyMeansSoldOut
      <3> QED
        BY <2>5, <3>3, SoldOutStays
    <2> QED
      BY <2>1, <2>3, <2>4, <2>5
  <1>3. FundsInv /\ FinalizedEarlyMeansSoldOut => PaidOutEarlyMeansSoldOut
    <2> SUFFICES ASSUME FundsInv, FinalizedEarlyMeansSoldOut, Initialized,
                        now < presale.end_time,
                        \/ presale.is_finalized = 1
                        \/ escrow.lamports < RentExemptEscrow
                                               + presale.total_sol_amount
                 PROVE  TokensSold = presale.total_presale_token
      BY DEF PaidOutEarlyMeansSoldOut
    <2>1. /\ presale.is_finalized \in {0, 1}
          /\ RentExemptEscrow \in Nat /\ presale.total_sol_amount \in Nat
      BY RuntimeAssumption
      DEF FundsInv, TypeOK, PresaleAccount, Flag, U64
    <2>2. presale.is_finalized = 0 =>
            escrow.lamports = RentExemptEscrow + presale.total_sol_amount
      BY DEF FundsInv, EscrowBacksRefunds
    <2> QED
      BY <2>1, <2>2 DEF FinalizedEarlyMeansSoldOut
  <1> QED
    BY <1>1, <1>2, <1>3, FundsInvariant, SaleInvariant, TotalsInvariant, PTL
    DEF Spec

-----------------------------------------------------------------------------
(* The ledger *)

\* What the team and the admin received.
Paid == lamports[Team] + (IF Initialized THEN lamports[admin_account] ELSE 0)

\* Nothing deployed is an unopened ledger.
LEMMA InitLedger == Init => Ledger!Init
  <1> SUFFICES ASSUME Init PROVE Ledger!Init
    OBVIOUS
  <1>1. Initialized = FALSE
    BY DEF Init, Initialized
  <1>2. lamports[Team] = 0
    BY PresaleAssumption DEF Init, Wallets
  <1>3. presale = ZeroedPresale /\ escrow = NoAccount
    BY DEF Init
  <1> QED
    BY <1>1, <1>2, <1>3 DEF Ledger!Init, ZeroedPresale, NoAccount

\* A step that leaves the wallet of the admin, all lamports and the presale's
\* flags and totals alone is none of the ledger.
LEMMA LedgerStill ==
  ASSUME UNCHANGED <<admin_account, escrow, lamports>>,
         presale'.is_finalized = presale.is_finalized,
         presale'.is_cancelled = presale.is_cancelled,
         presale'.total_token_remained = presale.total_token_remained,
         presale'.total_sol_amount = presale.total_sol_amount
  PROVE  UNCHANGED Ledger!ledger_vars
  BY DEF Ledger!ledger_vars, Ledger!status, Initialized

\* initialize opens the ledger.
LEMMA InitializeOpens ==
  ASSUME FundsInv, NEW signer \in Admins, NEW a \in InitArgs,
         Initialize(signer, a)
  PROVE  Ledger!Open
  <1>1. TypeOK' /\ presale = ZeroedPresale
    BY InitializeTyped
    DEF FundsInv, NothingBeforeInitialize, Initialize, Initialized
  <1>2. ~Initialized /\ Initialized' /\ admin_account' = signer
    BY PresaleAssumption DEF Initialize, Initialized
  <1>3. lamports' = lamports /\ lamports[signer] = 0 /\ lamports[Team] = 0
    BY <1>2, PresaleAssumption
    DEF Initialize, FundsInv, NothingBeforeInitialize, OnlyTheAdminIsPaid,
        Initialized
  <1>4. presale'.total_token_remained \in Nat
    BY <1>1, RuntimeAssumption DEF TypeOK, PresaleAccount, U64
  <1>5. /\ presale'.total_sol_amount = 0 /\ presale'.is_finalized = 0
        /\ presale'.is_cancelled = 0
    BY DEF Initialize, ZeroedPresale
  <1>6. escrow'.lamports = RentExemptEscrow
    BY DEF Initialize
  <1>7. /\ presale.total_sol_amount = 0 /\ presale.is_finalized = 0
        /\ presale.is_cancelled = 0
    BY <1>1 DEF ZeroedPresale
  <1> QED
    BY <1>2, <1>3, <1>4, <1>5, <1>6, <1>7 DEF Ledger!Open

\* buy_token books what comes in, while something is left to sell.
LEMMA BuySells ==
  ASSUME FundsInv, NEW u \in Users, NEW amount \in BuyAmounts,
         BuyToken(u, amount)
  PROVE  Ledger!Sell
  <1>1. PICK bought \in U64, sol \in U64, joined \in {0, 1},
             sells_out \in BOOLEAN :
           /\ bought <= presale.total_token_remained
           /\ MayBuy(u, amount, sells_out, sol)
           /\ lamports' = [lamports EXCEPT ![u] = @ - sol]
           /\ escrow' = Credited(escrow, sol)
           /\ presale' = Sold(presale, joined, bought, sol, sells_out)
           /\ UNCHANGED <<now, admin_account, vault, tokens>>
    BY BuyFacts DEF FundsInv
  <1>2. TypeOK
    BY DEF FundsInv
  <1>3. Initialized /\ admin_account \in Admins
    BY <1>1, <1>2
    DEF FundsInv, NothingBeforeInitialize, MayBuy, TypeOK, Initialized
  <1>4. /\ sol \in Nat /\ bought \in Nat /\ escrow \in Account
        /\ presale \in PresaleAccount /\ presale.total_sol_amount \in Nat
        /\ presale.total_token_remained \in Nat /\ escrow.lamports \in Nat
    BY <1>2, RuntimeAssumption DEF U64, TypeOK, PresaleAccount, Account
  <1>5. escrow'.lamports = escrow.lamports + sol
    BY <1>1, <1>4, CreditedBalance DEF FundsInv, EscrowOwnership, MayBuy
  <1>6. /\ presale'.total_sol_amount = presale.total_sol_amount + sol
        /\ presale'.total_token_remained
             = presale.total_token_remained - bought
        /\ presale'.is_finalized = presale.is_finalized
        /\ presale'.is_cancelled = presale.is_cancelled
    BY <1>1, <1>4 DEF Sold, PresaleAccount
  <1>7. presale.is_cancelled # 1
    BY <1>1 DEF MayBuy
  <1>8. UNCHANGED <<Initialized, Paid>>
    <2>1. \A w \in Wallets \ {u} : lamports'[w] = lamports[w]
      BY <1>1, <1>2 DEF TypeOK
    <2> QED
      BY <1>1, <1>3, <2>1, WalletsApart DEF Wallets, Initialized, Paid
  <1>9. presale.total_token_remained = 0 =>
          presale'.total_sol_amount = presale.total_sol_amount
    BY <1>2, EmptySaleSellsNothing
  <1> QED
    BY <1>3, <1>4, <1>5, <1>6, <1>7, <1>8, <1>9, <1>1
    DEF Ledger!Sell, Ledger!status, Paid

\* refund_token gives back what it takes off the total.
LEMMA RefundRefunds ==
  ASSUME FundsInv, NEW u \in Users, RefundToken(u)
  PROVE  [Ledger!Refund]_Ledger!ledger_vars
  <1> DEFINE amount == user[u].user_sol_contributed
  <1>1. TypeOK /\ UNCHANGED admin_account
    BY DEF FundsInv, RefundToken
  <1>2. Initialized /\ admin_account \in Admins
    BY <1>1
    DEF FundsInv, NothingBeforeInitialize, RefundToken, MayRefund, TypeOK,
        Initialized
  <1>3. CASE UNCHANGED <<presale, escrow, lamports>>
    BY <1>1, <1>3, LedgerStill
  <1>4. CASE /\ CanDebit(escrow, amount)
             /\ presale.total_sol_amount - amount \in U64
             /\ escrow' = Debited(escrow, amount)
             /\ lamports' = [lamports EXCEPT ![u] = @ + amount]
             /\ presale' = Refunded(presale, amount)
    <2>1. /\ amount \in Nat /\ escrow \in Account /\ escrow.lamports \in Nat
          /\ presale \in PresaleAccount /\ presale.total_sol_amount \in Nat
      BY <1>1, RuntimeAssumption
      DEF TypeOK, UserAccount, U64, Account, PresaleAccount
    <2> HIDE DEF amount
    <2>2. /\ escrow'.lamports = escrow.lamports - amount
          /\ amount <= escrow.lamports
      BY <1>4, <2>1, DebitedBalance DEF FundsInv, EscrowOwnership, CanDebit
    <2>3. /\ presale'.total_sol_amount = presale.total_sol_amount - amount
          /\ presale'.total_token_remained = presale.total_token_remained
          /\ presale'.is_finalized = presale.is_finalized
          /\ presale'.is_cancelled = presale.is_cancelled
      BY <1>4, <2>1 DEF Refunded, PresaleAccount
    <2>4. presale.total_sol_amount - amount \in Nat
      BY <1>4, RuntimeAssumption DEF U64
    <2>5. presale.is_cancelled = 1
      BY <2>1 DEF RefundToken, MayRefund, PresaleAccount, Flag
    <2>6. UNCHANGED <<Initialized, Paid>>
      <3>1. \A w \in Wallets \ {u} : lamports'[w] = lamports[w]
        BY <1>1, <1>4 DEF TypeOK
      <3> QED
        BY <1>1, <1>2, <3>1, WalletsApart DEF Wallets, Initialized, Paid
    <2> QED
      BY <2>1, <2>2, <2>3, <2>4, <2>5, <2>6
      DEF Ledger!Refund, Ledger!status, Paid
  <1> QED
    BY <1>3, <1>4 DEF RefundToken, MayRefund

\* finalize pays the team out of what is held, or cancels.
LEMMA FinalizeSettles ==
  ASSUME FundsInv, NEW signer \in Admins, NEW f \in ForceFlags,
         Finalize(signer, f)
  PROVE  Ledger!Finalize \/ Ledger!Cancel
  <1> DEFINE team_amount == Share(presale.total_sol_amount,
                                  presale.team_percent)
             cancelled == CancelledByFinalize(f # 0)
  <1>1. TypeOK /\ UNCHANGED admin_account
    BY DEF FundsInv, Finalize
  <1>2. Initialized /\ admin_account \in Admins /\ Initialized'
    BY PresaleAssumption DEF Finalize, is_admin, Initialized
  <1>3. presale \in PresaleAccount /\ presale.is_cancelled \in {0, 1}
    BY <1>1 DEF TypeOK, PresaleAccount, Flag
  <1>4. cancelled \in {0, 1} /\ (cancelled = 0 => presale.is_cancelled = 0)
    BY <1>3 DEF CancelledByFinalize
  <1>5. CASE /\ cancelled # 0
             /\ presale' = [presale EXCEPT !.is_cancelled = cancelled]
             /\ UNCHANGED <<escrow, lamports>>
    <2> HIDE DEF cancelled
    <2>1. /\ presale'.is_cancelled = 1
          /\ presale'.is_finalized = presale.is_finalized
          /\ presale'.total_sol_amount = presale.total_sol_amount
          /\ presale'.total_token_remained = presale.total_token_remained
      BY <1>3, <1>4, <1>5 DEF PresaleAccount
    <2> QED
      BY <1>1, <1>2, <1>5, <2>1 DEF Ledger!Cancel, Initialized
  <1>6. CASE /\ cancelled = 0
             /\ CanDebit(escrow, team_amount)
             /\ escrow' = Debited(escrow, team_amount)
             /\ lamports' = [lamports EXCEPT ![Team] = @ + team_amount]
             /\ presale' = [presale EXCEPT !.is_finalized = 1]
    <2>1. presale.total_sol_amount \in Nat /\ presale.team_percent \in Nat
      BY <1>1, RuntimeAssumption DEF TypeOK, PresaleAccount, U64, U32
    <2>2. team_amount \in Nat
      BY <2>1, ShareBounds
    <2> HIDE DEF team_amount, cancelled
    <2>3. escrow \in Account /\ escrow.lamports \in Nat
      BY <1>1 DEF TypeOK, Account
    <2>4. /\ escrow'.lamports = escrow.lamports - team_amount
          /\ team_amount <= escrow.lamports
      BY <1>6, <2>2, <2>3, DebitedBalance
      DEF FundsInv, EscrowOwnership, CanDebit
    <2>5. /\ presale'.total_sol_amount = presale.total_sol_amount
          /\ presale'.total_token_remained = presale.total_token_remained
          /\ presale'.is_cancelled = 0 /\ presale.is_cancelled = 0
          /\ presale'.is_finalized = 1
      BY <1>3, <1>4, <1>6 DEF PresaleAccount
    <2>6. Paid' = Paid + team_amount
      <3>1. /\ lamports'[Team] = lamports[Team] + team_amount
            /\ \A w \in Wallets \ {Team} : lamports'[w] = lamports[w]
        BY <1>1, <1>6 DEF TypeOK, Wallets
      <3>2. lamports[Team] \in Nat /\ lamports[admin_account] \in Nat
        BY <1>1, <1>2 DEF TypeOK, Wallets
      <3>3. lamports'[admin_account'] = lamports[admin_account]
        BY <1>1, <1>2, <3>1, WalletsApart DEF Wallets
      <3> QED
        BY <1>2, <2>2, <3>1, <3>2, <3>3 DEF Paid
    <2>7. Paid \in Nat
      BY <1>1, <1>2 DEF TypeOK, Wallets, Paid
    <2>8. Paid' - Paid = escrow.lamports - escrow'.lamports
      BY <2>2, <2>3, <2>4, <2>6, <2>7
    <2>9. escrow'.lamports \in 0 .. escrow.lamports
      BY <2>2, <2>3, <2>4
    <2> QED
      BY <1>2, <2>5, <2>8, <2>9
      DEF Ledger!Finalize, Ledger!PayOut, Initialized, Paid
  <1> QED
    BY <1>5, <1>6 DEF Finalize

\* withdraw pays the admin all that is held.
LEMMA WithdrawPays ==
  ASSUME FundsInv, NEW signer \in Admins, Withdraw(signer)
  PROVE  Ledger!Withdraw
  <1>1. TypeOK /\ UNCHANGED <<admin_account, presale>>
    BY DEF FundsInv, Withdraw
  <1>2. Initialized /\ Initialized' /\ admin_account = signer
    BY PresaleAssumption DEF Withdraw, is_admin, Initialized
  <1>3. presale.is_finalized = 1 /\ presale.is_cancelled # 1
    BY <1>1 DEF Withdraw, is_finalized, TypeOK, PresaleAccount, Flag
  <1>4. escrow \in Account /\ escrow.lamports \in Nat
    BY <1>1 DEF TypeOK, Account
  <1>5. escrow'.lamports = 0
    BY DEF Withdraw, Debited, NoAccount
  <1>6. /\ lamports'[signer] = lamports[signer] + escrow.lamports
        /\ lamports'[Team] = lamports[Team]
        /\ lamports[Team] \in Nat /\ lamports[signer] \in Nat
    BY <1>1, WalletsApart DEF Withdraw, TypeOK, Wallets
  <1>7. Paid' - Paid = escrow.lamports
    BY <1>1, <1>2, <1>4, <1>6 DEF Paid
  <1> QED
    BY <1>1, <1>2, <1>3, <1>4, <1>5, <1>7
    DEF Ledger!Withdraw, Ledger!PayOut, Ledger!status, Initialized, Paid

\* The admin's other instructions cancel, write off what is left, or are no
\* step of the ledger.
LEMMA BookkeepingInLedger ==
  ASSUME FundsInv, NEW signer \in Admins
  PROVE  /\ \A amount \in DepositAmounts : DepositToken(signer, amount)
              => UNCHANGED Ledger!ledger_vars
         /\ \A u \in Users : AddWhitelist(signer, u)
              => UNCHANGED Ledger!ledger_vars
         /\ \A u \in Users : RemoveWhitelist(signer, u)
              => UNCHANGED Ledger!ledger_vars
         /\ \A s, e \in NewTimes : UpdatePresaleDetails(signer, s, e)
              => UNCHANGED Ledger!ledger_vars
         /\ \A u \in Users : ClaimToken(signer, u)
              => UNCHANGED Ledger!ledger_vars
         /\ CancelPresale(signer) => Ledger!Cancel
         /\ WithdrawToken(signer) => Ledger!WriteOff
  <1>1. presale \in PresaleAccount
    BY DEF FundsInv, TypeOK
  <1>2. is_admin(signer) => Initialized
    BY PresaleAssumption DEF is_admin, Initialized
  <1>3. \A amount \in DepositAmounts : DepositToken(signer, amount)
          => UNCHANGED Ledger!ledger_vars
    BY LedgerStill DEF DepositToken
  <1>4. \A u \in Users : AddWhitelist(signer, u)
          => UNCHANGED Ledger!ledger_vars
    BY <1>1, LedgerStill DEF AddWhitelist, PresaleAccount
  <1>5. \A u \in Users : RemoveWhitelist(signer, u)
          => UNCHANGED Ledger!ledger_vars
    BY <1>1, LedgerStill DEF RemoveWhitelist, PresaleAccount
  <1>6. \A s, e \in NewTimes : UpdatePresaleDetails(signer, s, e)
          => UNCHANGED Ledger!ledger_vars
    BY <1>1, LedgerStill DEF UpdatePresaleDetails, PresaleAccount
  <1>7. \A u \in Users : ClaimToken(signer, u)
          => UNCHANGED Ledger!ledger_vars
    BY LedgerStill DEF ClaimToken
  <1>8. ASSUME CancelPresale(signer)
        PROVE  Ledger!Cancel
    BY <1>1, <1>2, <1>8
    DEF CancelPresale, PresaleAccount, Ledger!Cancel, Initialized
  <1>9. ASSUME WithdrawToken(signer)
        PROVE  Ledger!WriteOff
    <2>1. presale.is_finalized = 1 /\ presale.is_cancelled # 1
      BY <1>1, <1>9
      DEF WithdrawToken, is_finalized, PresaleAccount, Flag
    <2> QED
      BY <1>1, <1>9, <2>1
      DEF WithdrawToken, PresaleAccount, Ledger!WriteOff, Ledger!status,
          Initialized
  <1> QED
    BY <1>3, <1>4, <1>5, <1>6, <1>7, <1>8, <1>9

\* Every step is a step of the ledger or none.
LEMMA StepLedger ==
  FundsInv /\ [Next]_vars => [Ledger!Next]_Ledger!ledger_vars
  <1> SUFFICES ASSUME FundsInv, [Next]_vars
               PROVE  [Ledger!Next]_Ledger!ledger_vars
    OBVIOUS
  <1>1. CASE Tick \/ UNCHANGED vars
    <2>1. UNCHANGED <<presale, admin_account, escrow, lamports>>
      BY <1>1 DEF Tick, vars
    <2> QED
      BY <2>1, LedgerStill
  <1>2. ASSUME NEW signer \in Admins, AdminNext(signer)
        PROVE  [Ledger!Next]_Ledger!ledger_vars
    BY <1>2, InitializeOpens, BookkeepingInLedger, FinalizeSettles,
       WithdrawPays
    DEF AdminNext, Ledger!Next
  <1>3. ASSUME NEW u \in Users, BuyerNext(u)
        PROVE  [Ledger!Next]_Ledger!ledger_vars
    BY <1>3, BuySells, RefundRefunds DEF BuyerNext, Ledger!Next
  <1> QED
    BY <1>1, <1>2, <1>3 DEF Next

\* The program implements the account of money: what comes in is held while
\* something is left to sell, refunds follow a cancellation, and the team and
\* the admin are paid only out of what is held.
THEOREM LedgerImplemented == Spec => PresaleImplementsLedger
  BY InitLedger, StepLedger, FundsInvariant, PTL
  DEF Spec, PresaleImplementsLedger, Ledger!Spec
=============================================================================
