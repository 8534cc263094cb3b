--------------------------- MODULE PresaleSaleProofs ---------------------------
(***************************************************************************)
(* The flags of the sale and the list: proofs that the cap flags agree     *)
(* with what is left, that the whitelist is counted on the safe side, that *)
(* a sold-out sale sells nothing, and that removal from the whitelist is   *)
(* final.                                                                  *)
(***************************************************************************)
EXTENDS PresaleFundsProofs, FiniteSetTheorems

Listed == {u \in Users : user[u].is_whitelisted}

-----------------------------------------------------------------------------
(* Cardinalities *)

\* Adding one element to a finite set, or none, adds at most one to its size.
LEMMA GrowsByOne ==
  ASSUME NEW S, NEW T, NEW x, IsFiniteSet(S), T \subseteq S \cup {x}
  PROVE  IsFiniteSet(T) /\ Cardinality(T) <= Cardinality(S) + 1
  <1>1. /\ IsFiniteSet(S \cup {x})
        /\ Cardinality(S \cup {x}) <= Cardinality(S) + 1
    <2>1. /\ IsFiniteSet(S \cup {x})
          /\ Cardinality(S \cup {x})
               = IF x \in S THEN Cardinality(S) ELSE Cardinality(S) + 1
      BY FS_AddElement
    <2>2. Cardinality(S) \in Nat
      BY FS_CardinalityType
    <2> QED
      BY <2>1, <2>2
  <1>2. IsFiniteSet(T) /\ Cardinality(T) <= Cardinality(S \cup {x})
    BY <1>1, FS_Subset
  <1>3. /\ Cardinality(S) \in Nat /\ Cardinality(T) \in Nat
        /\ Cardinality(S \cup {x}) \in Nat
    BY <1>1, <1>2, FS_CardinalityType
  <1> QED
    BY <1>1, <1>2, <1>3

\* The listed wallets are finitely many, now and in the next state.
LEMMA ListedFinite ==
  /\ IsFiniteSet(Listed) /\ Cardinality(Listed) \in Nat
  /\ IsFiniteSet(Listed') /\ Cardinality(Listed') \in Nat
  <1>1. Listed \subseteq Users /\ Listed' \subseteq Users
    BY DEF Listed
  <1>2. IsFiniteSet(Listed) /\ IsFiniteSet(Listed')
    BY <1>1, PresaleAssumption, FS_Subset
  <1> QED
    BY <1>2, FS_CardinalityType

\* The counter as the property states it.
LEMMA CounterIs ==
  WhitelistCountIsBounded <=>
    presale.total_whitelisted_wallets <= Cardinality(Listed)
  BY DEF WhitelistCountIsBounded, Listed

-----------------------------------------------------------------------------
(* The invariant *)

\* The first state counts nobody.
LEMMA InitSale == Init => SaleInv
  <1> SUFFICES ASSUME Init PROVE SaleInv
    OBVIOUS
  <1>1. TypeOK
    BY InitTyped
  <1>2. StrangersOwnNothing
    BY DEF Init, StrangersOwnNothing, NewUser
  <1>3. CapsAgreeWithSales
    BY DEF Init, ZeroedPresale, CapsAgreeWithSales
  <1>4. Listed = {}
    BY DEF Init, Listed, NewUser
  <1>5. WhitelistCountIsBounded
    BY <1>4, CounterIs, FS_EmptySet DEF Init, ZeroedPresale
  <1> QED
    BY <1>1, <1>2, <1>3, <1>5 DEF SaleInv

\* A step that leaves the buyers' records, the list and the caps alone keeps
\* the invariant.
LEMMA SaleUntouched ==
  ASSUME SaleInv, TypeOK', UNCHANGED user,
         presale'.total_token_remained \in {presale.total_token_remained, 0},
         presale'.soft_cap = presale.soft_cap,
         presale'.is_hardcapped = presale.is_hardcapped,
         presale'.is_softcapped = presale.is_softcapped,
         presale'.total_whitelisted_wallets
           = presale.total_whitelisted_wallets
  PROVE  SaleInv'
  <1>1. StrangersOwnNothing'
    BY DEF SaleInv, StrangersOwnNothing
  <1>2. presale.total_token_remained \in Nat /\ presale.soft_cap \in Nat
    BY RuntimeAssumption DEF SaleInv, TypeOK, PresaleAccount, U64
  <1>3. CapsAgreeWithSales'
    BY <1>2 DEF SaleInv, CapsAgreeWithSales
  <1>4. WhitelistCountIsBounded'
    BY DEF SaleInv, WhitelistCountIsBounded
  <1> QED
    BY <1>1, <1>3, <1>4 DEF SaleInv

\* initialize starts the counters where nobody is on record.
LEMMA InitializeSale ==
  ASSUME FundsInv, SaleInv, NEW signer \in Admins, NEW a \in InitArgs,
         Initialize(signer, a)
  PROVE  SaleInv'
  <1>1. TypeOK' /\ UNCHANGED user
    BY InitializeTyped DEF SaleInv, Initialize
  <1>2. \A u \in Users : ~user[u].exists
    BY DEF Initialize, Initialized, FundsInv, NothingBeforeInitialize
  <1>3. \A u \in Users : user[u] = NewUser(FALSE)
    BY <1>2 DEF SaleInv, StrangersOwnNothing
  <1>4. /\ presale'.is_hardcapped = 0 /\ presale'.is_softcapped = 0
        /\ presale'.total_whitelisted_wallets = 0
    BY DEF Initialize, ZeroedPresale
  <1>5. Listed' = {}
    BY <1>1, <1>3 DEF Listed, NewUser
  <1>6. WhitelistCountIsBounded'
    <2>1. Cardinality(Listed') = 0
      BY <1>5, FS_EmptySet
    <2> QED
      BY <1>4, <2>1 DEF WhitelistCountIsBounded, Listed
  <1>7. CapsAgreeWithSales' /\ StrangersOwnNothing'
    BY <1>1, <1>3, <1>4 DEF CapsAgreeWithSales, StrangersOwnNothing, NewUser
  <1> QED
    BY <1>1, <1>6, <1>7 DEF SaleInv

\* add_whitelist lists one wallet more and counts it; remove_whitelist takes
\* at most one wallet off the list and always counts one down.
LEMMA WhitelistSale ==
  ASSUME SaleInv, NEW signer \in Admins, NEW u \in Users
  PROVE  /\ AddWhitelist(signer, u) => SaleInv'
         /\ RemoveWhitelist(signer, u) => SaleInv'
  <1>1. TypeOK /\ presale \in PresaleAccount /\ user \in [Users -> UserAccount]
    BY DEF SaleInv, TypeOK
  <1>2. presale.total_whitelisted_wallets \in Nat
    BY <1>1, RuntimeAssumption DEF PresaleAccount, Counter
  <1>3. ASSUME AddWhitelist(signer, u)
        PROVE  SaleInv'
    <2>1. TypeOK'
      BY <1>1, <1>3, BookkeepingTyped
    <2>2. user[u] = NewUser(FALSE)
      BY <1>3 DEF AddWhitelist, CanInit, SaleInv, StrangersOwnNothing
    <2>3. /\ user'[u] = NewUser(TRUE)
          /\ \A w \in Users \ {u} : user'[w] = user[w]
      BY <1>1, <1>3 DEF AddWhitelist
    <2>4. Listed' = Listed \cup {u} /\ u \notin Listed
      BY <2>2, <2>3 DEF Listed, NewUser
    <2>5. Cardinality(Listed') = Cardinality(Listed) + 1
      BY <2>4, ListedFinite, FS_AddElement
    <2>6. presale' = [presale EXCEPT !.total_whitelisted_wallets = @ + 1]
      BY <1>3 DEF AddWhitelist
    <2>7. WhitelistCountIsBounded'
      BY <1>1, <1>2, <2>5, <2>6, ListedFinite
      DEF SaleInv, WhitelistCountIsBounded, Listed, PresaleAccount
    <2>8. CapsAgreeWithSales'
      BY <1>1, <2>6 DEF SaleInv, CapsAgreeWithSales, PresaleAccount
    <2>9. StrangersOwnNothing'
      BY <2>3 DEF SaleInv, StrangersOwnNothing, NewUser
    <2> QED
      BY <2>1, <2>7, <2>8, <2>9 DEF SaleInv
  <1>4. ASSUME RemoveWhitelist(signer, u)
        PROVE  SaleInv'
    <2>1. TypeOK'
      BY <1>1, <1>4, BookkeepingTyped
    <2>2. /\ user'[u] = [user[u] EXCEPT !.is_whitelisted = FALSE]
          /\ \A w \in Users \ {u} : user'[w] = user[w]
      BY <1>1, <1>4 DEF RemoveWhitelist
    <2>3. /\ user'[u].exists = user[u].exists /\ user[u].exists
          /\ user'[u].is_whitelisted = FALSE
      BY <1>1, <1>4, <2>2 DEF UserAccount, RemoveWhitelist
    <2>4. Listed \subseteq Listed' \cup {u}
      BY <2>2 DEF Listed
    <2>5. Cardinality(Listed) <= Cardinality(Listed') + 1
      BY <2>4, GrowsByOne, ListedFinite
    <2>6. presale' = [presale EXCEPT !.total_whitelisted_wallets = @ - 1]
      BY <1>4 DEF RemoveWhitelist
    <2>7. WhitelistCountIsBounded'
      <3>1. presale'.total_whitelisted_wallets
              = presale.total_whitelisted_wallets - 1
        BY <1>1, <2>6 DEF PresaleAccount
      <3>2. presale.total_whitelisted_wallets <= Cardinality(Listed)
        BY CounterIs DEF SaleInv
      <3>3. presale'.total_whitelisted_wallets <= Cardinality(Listed')
        BY <1>2, <2>5, <3>1, <3>2, ListedFinite
      <3> QED
        BY <3>3 DEF WhitelistCountIsBounded, Listed
    <2>8. CapsAgreeWithSales'
      BY <1>1, <2>6 DEF SaleInv, CapsAgreeWithSales, PresaleAccount
    <2>9. StrangersOwnNothing'
      BY <2>2, <2>3 DEF SaleInv, StrangersOwnNothing
    <2> QED
      BY <2>1, <2>7, <2>8, <2>9 DEF SaleInv
  <1> QED
    BY <1>3, <1>4

\* buy_token: the purchase that empties the sale sets both flags the caps
\* call for.
LEMMA BuySale ==
  ASSUME SaleInv, NEW u \in Users, NEW amount \in BuyAmounts,
         BuyToken(u, amount)
  PROVE  SaleInv'
  <1>1. TypeOK /\ TypeOK'
    BY BuyTyped DEF SaleInv
  <1>2. PICK bought \in U64, sol \in U64, joined \in {0, 1},
             sells_out \in BOOLEAN :
           /\ bought = TokensToAllocate(presale.total_token_remained,
                                        presale.presale_rate, amount)
           /\ sells_out = SellsOut(presale.total_token_remained,
                                   presale.presale_rate, amount)
           /\ bought <= presale.total_token_remained
           /\ MayBuy(u, amount, sells_out, sol)
           /\ user' = [user EXCEPT ![u] = Purchased(@, bought, sol)]
           /\ presale' = Sold(presale, joined, bought, sol, sells_out)
    BY <1>1, BuyFacts
  <1>3. /\ presale \in PresaleAccount /\ presale.total_token_remained \in Nat
        /\ presale.soft_cap \in Nat
        /\ bought \in Nat /\ user[u] \in UserAccount
    BY <1>1, RuntimeAssumption
    DEF TypeOK, PresaleAccount, U64
  <1>4. sells_out => bought = presale.total_token_remained
    BY <1>2 DEF TokensToAllocate
  <1>5. /\ presale'.is_hardcapped
             = IF sells_out THEN 1 ELSE presale.is_hardcapped
        /\ presale'.is_softcapped
             = IF presale.total_token_remained - bought < presale.soft_cap
               THEN 1 ELSE presale.is_softcapped
        /\ presale'.total_token_remained
             = presale.total_token_remained - bought
        /\ presale'.soft_cap = presale.soft_cap
        /\ presale'.total_whitelisted_wallets
             = presale.total_whitelisted_wallets
    BY <1>2, <1>3 DEF Sold, PresaleAccount
  <1>6. CapsAgreeWithSales'
    <2> USE <1>2, <1>3, <1>4, <1>5
    <2>1. presale'.is_hardcapped = 1 => presale'.total_token_remained = 0
      BY DEF SaleInv, CapsAgreeWithSales
    <2>2. presale'.is_softcapped = 1 =>
            presale'.total_token_remained < presale'.soft_cap
      BY DEF SaleInv, CapsAgreeWithSales
    <2> QED
      BY <2>1, <2>2 DEF CapsAgreeWithSales
  <1>7. /\ user'[u].exists = user[u].exists /\ user[u].exists
        /\ user'[u].is_whitelisted = user[u].is_whitelisted
        /\ \A w \in Users \ {u} : user'[w] = user[w]
    BY <1>1, <1>2, <1>3 DEF TypeOK, UserAccount, Purchased, MayBuy
  <1>8. Listed' = Listed
    BY <1>7 DEF Listed
  <1>9. WhitelistCountIsBounded'
    BY <1>5, <1>8 DEF SaleInv, WhitelistCountIsBounded, Listed
  <1>10. StrangersOwnNothing'
    BY <1>7 DEF SaleInv, StrangersOwnNothing, NewUser
  <1> QED
    BY <1>1, <1>6, <1>9, <1>10 DEF SaleInv

\* claim_token marks a record as claimed and touches nothing that is counted.
LEMMA ClaimSale ==
  ASSUME SaleInv, NEW signer \in Admins, NEW u \in Users,
         ClaimToken(signer, u)
  PROVE  SaleInv'
  <1>1. TypeOK /\ TypeOK' /\ presale' = presale
    BY PayoutsTyped DEF SaleInv, ClaimToken
  <1>2. /\ user'[u].exists = user[u].exists /\ user[u].exists
        /\ user'[u].is_whitelisted = user[u].is_whitelisted
        /\ \A w \in Users \ {u} : user'[w] = user[w]
    BY <1>1 DEF ClaimToken, TypeOK, UserAccount
  <1>3. Listed' = Listed
    BY <1>2 DEF Listed
  <1>4. CapsAgreeWithSales' /\ WhitelistCountIsBounded'
    BY <1>1, <1>3
    DEF SaleInv, CapsAgreeWithSales, WhitelistCountIsBounded, Listed
  <1>5. StrangersOwnNothing'
    BY <1>2 DEF SaleInv, StrangersOwnNothing, NewUser
  <1> QED
    BY <1>1, <1>4, <1>5 DEF SaleInv

\* refund_token changes what was raised and who is counted, not what is left.
LEMMA RefundSale ==
  ASSUME SaleInv, NEW u \in Users, RefundToken(u)
  PROVE  SaleInv'
  <1>1. TypeOK' /\ presale \in PresaleAccount
    BY RefundTyped DEF SaleInv, TypeOK
  <1> QED
    BY <1>1, SaleUntouched DEF RefundToken, Refunded, PresaleAccount

\* The admin's other instructions move funds or dates, empty the vault, or
\* cancel.
LEMMA OtherSale ==
  ASSUME SaleInv, NEW signer \in Admins
  PROVE  /\ \A amount \in DepositAmounts :
              DepositToken(signer, amount) => SaleInv'
         /\ \A s, e \in NewTimes :
              UpdatePresaleDetails(signer, s, e) => SaleInv'
         /\ CancelPresale(signer) => SaleInv'
         /\ \A f \in ForceFlags : Finalize(signer, f) => SaleInv'
         /\ WithdrawToken(signer) => SaleInv'
         /\ Withdraw(signer) => SaleInv'
  <1>1. TypeOK /\ presale \in PresaleAccount
    BY DEF SaleInv, TypeOK
  <1>2. ASSUME NEW amount \in DepositAmounts, DepositToken(signer, amount)
        PROVE  SaleInv'
    BY <1>1, <1>2, BookkeepingTyped, SaleUntouched DEF DepositToken
  <1>3. ASSUME NEW s \in NewTimes, NEW e \in NewTimes,
               UpdatePresaleDetails(signer, s, e)
        PROVE  SaleInv'
    BY <1>1, <1>3, BookkeepingTyped, SaleUntouched
    DEF UpdatePresaleDetails, PresaleAccount
  <1>4. ASSUME CancelPresale(signer)
        PROVE  SaleInv'
    BY <1>1, <1>4, BookkeepingTyped, SaleUntouched
    DEF CancelPresale, PresaleAccount
  <1>5. ASSUME NEW f \in ForceFlags, Finalize(signer, f)
        PROVE  SaleInv'
    BY <1>1, <1>5, FinalizeTyped, SaleUntouched DEF Finalize, PresaleAccount
  <1>6. ASSUME WithdrawToken(signer)
        PROVE  SaleInv'
    BY <1>1, <1>6, PayoutsTyped, SaleUntouched
    DEF WithdrawToken, PresaleAccount
  <1>7. ASSUME Withdraw(signer)
        PROVE  SaleInv'
    BY <1>1, <1>7, PayoutsTyped, SaleUntouched DEF Withdraw
  <1> QED
    BY <1>2, <1>3, <1>4, <1>5, <1>6, <1>7

\* Every step keeps the invariant.
LEMMA StepSale == FundsInv /\ SaleInv /\ [Next]_vars => SaleInv'
  <1> SUFFICES ASSUME FundsInv, SaleInv, [Next]_vars PROVE SaleInv'
    OBVIOUS
  <1>1. CASE Tick \/ UNCHANGED vars
    <2>1. TypeOK' /\ UNCHANGED <<presale, user>>
      BY <1>1, StepTyped DEF SaleInv, Tick, vars
    <2> QED
      BY <2>1, SaleUntouched
  <1>2. ASSUME NEW signer \in Admins, AdminNext(signer)
        PROVE  SaleInv'
    BY <1>2, InitializeSale, WhitelistSale, OtherSale, ClaimSale
    DEF AdminNext
  <1>3. ASSUME NEW u \in Users, BuyerNext(u)
        PROVE  SaleInv'
    BY <1>3, BuySale, RefundSale DEF BuyerNext
  <1> QED
    BY <1>1, <1>2, <1>3 DEF Next

\* The strengthened invariant holds in every reachable state.
LEMMA SaleInvariant == Spec => []SaleInv
  BY InitSale, StepSale, FundsInvariant, PTL DEF Spec

\* The cap flags finalize decides by agree with what is left to sell.
THEOREM CapsAgree == Spec => []CapsAgreeWithSales
  <1>1. SaleInv => CapsAgreeWithSales
    BY DEF SaleInv
  <1> QED
    BY <1>1, SaleInvariant, PTL

\* total_whitelisted_wallets never exceeds the wallets on the list.
THEOREM WhitelistBounded == Spec => []WhitelistCountIsBounded
  <1>1. SaleInv => WhitelistCountIsBounded
    BY DEF SaleInv
  <1> QED
    BY <1>1, SaleInvariant, PTL

-----------------------------------------------------------------------------
(* A sale with nothing left *)

\* A purchase from an empty sale is for no tokens and no lamports.
LEMMA EmptySaleSellsNothing ==
  ASSUME TypeOK, presale.total_token_remained = 0,
         NEW u \in Users, NEW amount \in BuyAmounts, BuyToken(u, amount)
  PROVE  /\ Bought' = Bought /\ Contributed' = Contributed
         /\ presale'.total_sol_amount = presale.total_sol_amount
  <1>1. PICK bought \in U64, sol \in U64, joined \in {0, 1},
             sells_out \in BOOLEAN :
           /\ bought <= presale.total_token_remained
           /\ sol = SolToTransfer(presale.total_token_remained,
                                  presale.presale_rate, amount)
           /\ sells_out = SellsOut(presale.total_token_remained,
                                   presale.presale_rate, amount)
           /\ MayBuy(u, amount, sells_out, sol)
           /\ user' = [user EXCEPT ![u] = Purchased(@, bought, sol)]
           /\ presale' = Sold(presale, joined, bought, sol, sells_out)
    BY BuyFacts
  <1>2. /\ presale \in PresaleAccount /\ user \in [Users -> UserAccount]
        /\ presale.presale_rate \in Nat /\ amount \in Nat /\ bought \in Nat
        /\ presale.total_sol_amount \in Nat
    BY RuntimeAssumption, PresaleAssumption DEF TypeOK, PresaleAccount, U64
  <1>3. bought = 0
    BY <1>1, <1>2
  <1>4. presale.presale_rate * amount \in Nat
    BY <1>2
  <1>5. sells_out /\ presale.presale_rate \in Nat \ {0}
    <2>1. SellsOut(presale.total_token_remained, presale.presale_rate, amount)
      BY <1>4 DEF SellsOut
    <2>2. sells_out
      BY <1>1, <2>1, Zenon
    <2> QED
      BY <1>1, <1>2, <2>2 DEF MayBuy
  <1>6. sol = 0
    BY <1>1, <1>5, QuotientBounds DEF SolToTransfer
  <1>7. presale'.total_sol_amount = presale.total_sol_amount
    BY <1>1, <1>2, <1>6 DEF Sold, PresaleAccount
  <1>8. \A w \in Users :
          /\ user'[w].user_buy_amount = user[w].user_buy_amount
          /\ user'[w].user_sol_contributed = user[w].user_sol_contributed
    <2>1. /\ user[u].user_buy_amount \in Nat
          /\ user[u].user_sol_contributed \in Nat
      BY <1>2, RuntimeAssumption DEF UserAccount, U64
    <2> QED
      BY <1>1, <1>2, <1>3, <1>6, <2>1 DEF Purchased, UserAccount
  <1> QED
    BY <1>7, <1>8 DEF Bought, Contributed

\* No other step of an initialized presale sells anything.
LEMMA OthersSellNothing ==
  ASSUME SaleInv, Initialized, Next,
         ~ \E u \in Users, amount \in BuyAmounts : BuyToken(u, amount)
  PROVE  /\ Bought' = Bought /\ Contributed' = Contributed
         /\ presale'.total_sol_amount <= presale.total_sol_amount
  <1>1. /\ presale \in PresaleAccount /\ user \in [Users -> UserAccount]
        /\ presale.total_sol_amount \in Nat
    BY RuntimeAssumption DEF SaleInv, TypeOK, PresaleAccount, U64
  <1>2. ASSUME NEW signer \in Admins, NEW u \in Users,
               \/ AddWhitelist(signer, u)
               \/ RemoveWhitelist(signer, u)
               \/ ClaimToken(signer, u)
        PROVE  /\ \A w \in Users :
                    /\ user'[w].user_buy_amount = user[w].user_buy_amount
                    /\ user'[w].user_sol_contributed
                         = user[w].user_sol_contributed
               /\ presale'.total_sol_amount = presale.total_sol_amount
    <2>1. CASE AddWhitelist(signer, u)
      <3>1. user[u] = NewUser(FALSE)
        BY <2>1 DEF AddWhitelist, CanInit, SaleInv, StrangersOwnNothing
      <3> QED
        BY <1>1, <2>1, <3>1 DEF AddWhitelist, NewUser, PresaleAccount
    <2>2. CASE RemoveWhitelist(signer, u)
      BY <1>1, <2>2 DEF RemoveWhitelist, UserAccount, PresaleAccount
    <2>3. CASE ClaimToken(signer, u)
      BY <1>1, <2>3 DEF ClaimToken, UserAccount
    <2> QED
      BY <1>2, <2>1, <2>2, <2>3
  <1>3. ASSUME NEW signer \in Admins, AdminNext(signer),
               ~ \E u \in Users : \/ AddWhitelist(signer, u)
                                  \/ RemoveWhitelist(signer, u)
                                  \/ ClaimToken(signer, u)
        PROVE  /\ UNCHANGED user
               /\ presale'.total_sol_amount = presale.total_sol_amount
    BY <1>1, <1>3
    DEF AdminNext, Initialize, Initialized, DepositToken,
        UpdatePresaleDetails, CancelPresale, Finalize, WithdrawToken,
        Withdraw, PresaleAccount
  <1>4. ASSUME NEW u \in Users, RefundToken(u)
        PROVE  /\ UNCHANGED user
               /\ presale'.total_sol_amount <= presale.total_sol_amount
    <2> DEFINE amount == user[u].user_sol_contributed
    <2>1. amount \in Nat
      BY <1>1, RuntimeAssumption DEF UserAccount, U64
    <2>2. UNCHANGED user /\ (UNCHANGED presale
                             \/ presale' = Refunded(presale, amount))
      BY <1>4 DEF RefundToken
    <2>3. Refunded(presale, amount).total_sol_amount
            = presale.total_sol_amount - amount
      BY <1>1 DEF Refunded, PresaleAccount
    <2> QED
      BY <1>1, <2>1, <2>2, <2>3
  <1>5. CASE Tick
    BY <1>1, <1>5 DEF Tick, Bought, Contributed
  <1> QED
    BY <1>1, <1>2, <1>3, <1>4, <1>5
    DEF Next, BuyerNext, Bought, Contributed

\* After the sale has sold out, or tokens were withdrawn, a purchase can
\* neither cost anything nor allocate anything.
THEOREM EmptySaleIsOver == Spec => NothingSoldWhenEmpty
  <1>1. SaleInv /\ [Next]_vars => [NothingSold]_vars
    <2> SUFFICES ASSUME SaleInv, Next, Initialized,
                        presale.total_token_remained = 0
                 PROVE  /\ Bought' = Bought /\ Contributed' = Contributed
                        /\ presale'.total_sol_amount
                             <= presale.total_sol_amount
      BY DEF NothingSold
    <2>1. presale.total_sol_amount \in Nat
      BY RuntimeAssumption DEF SaleInv, TypeOK, PresaleAccount, U64
    <2>2. CASE \E u \in Users, amount \in BuyAmounts : BuyToken(u, amount)
      BY <2>1, <2>2, EmptySaleSellsNothing DEF SaleInv
    <2> QED
      BY <2>2, OthersSellNothing
  <1> QED
    BY <1>1, SaleInvariant, PTL DEF Spec, NothingSoldWhenEmpty

-----------------------------------------------------------------------------
(* Removal from the whitelist *)

\* Two user accounts with the same fields are the same (remove_whitelist run
\* on a wallet that is off the list already).
LEMMA RemovedAlready ==
  ASSUME NEW acct \in UserAccount, ~acct.is_whitelisted
  PROVE  [acct EXCEPT !.is_whitelisted = FALSE] = acct
  <1>1. acct.is_whitelisted = FALSE
    BY DEF UserAccount
  <1> QED
    BY <1>1 DEF UserAccount

\* An admin's instruction gives a removed wallet nothing and takes nothing
\* from it.
LEMMA AdminLeavesRemoved ==
  ASSUME TypeOK, NEW signer \in Admins, AdminNext(signer),
         NEW u \in Users, user[u].exists, ~user[u].is_whitelisted
  PROVE  user'[u] = user[u] /\ tokens'[u] = tokens[u]
           /\ lamports'[u] = lamports[u]
  <1>1. /\ user \in [Users -> UserAccount] /\ lamports \in [Wallets -> Nat]
        /\ tokens \in [Users \cup Admins -> Nat]
        /\ u # signer /\ u # Team /\ u \in Wallets
    BY WalletsApart DEF TypeOK, Wallets
  <1>2. ASSUME NEW w \in Users, RemoveWhitelist(signer, w)
        PROVE  user'[u] = user[u]
    BY <1>1, <1>2, RemovedAlready DEF RemoveWhitelist
  <1>3. ASSUME NEW w \in Users, AddWhitelist(signer, w)
        PROVE  user'[u] = user[u] /\ UNCHANGED <<tokens, lamports>>
    <2>1. u # w
      BY <1>3 DEF AddWhitelist, CanInit
    <2> QED
      BY <1>1, <1>3, <2>1 DEF AddWhitelist
  <1>4. ASSUME NEW w \in Users, ClaimToken(signer, w)
        PROVE  user'[u] = user[u] /\ tokens'[u] = tokens[u]
    <2>1. u # w
      BY <1>4 DEF ClaimToken
    <2> QED
      BY <1>1, <1>4, <2>1 DEF ClaimToken
  <1>5. ASSUME NEW a \in InitArgs, Initialize(signer, a)
        PROVE  UNCHANGED <<user, tokens, lamports>>
    BY <1>5 DEF Initialize
  <1>6. ASSUME NEW f \in ForceFlags, Finalize(signer, f)
        PROVE  UNCHANGED <<user, tokens>> /\ lamports'[u] = lamports[u]
    BY <1>1, <1>6 DEF Finalize
  <1>7. ASSUME \/ \E amount \in DepositAmounts : DepositToken(signer, amount)
               \/ \E s, e \in NewTimes : UpdatePresaleDetails(signer, s, e)
               \/ CancelPresale(signer)
               \/ WithdrawToken(signer)
               \/ Withdraw(signer)
        PROVE  /\ UNCHANGED user /\ tokens'[u] = tokens[u]
               /\ lamports'[u] = lamports[u]
    BY <1>1, <1>7
    DEF DepositToken, UpdatePresaleDetails, CancelPresale, WithdrawToken,
        Withdraw
  <1> QED
    BY <1>2, <1>3, <1>4, <1>5, <1>6, <1>7
    DEF AdminNext, RemoveWhitelist, ClaimToken

\* A buyer's instruction can only refund a removed wallet.
LEMMA BuyerLeavesRemoved ==
  ASSUME TypeOK, NEW w \in Users, BuyerNext(w),
         NEW u \in Users, user[u].exists, ~user[u].is_whitelisted
  PROVE  user'[u] = user[u] /\ tokens'[u] = tokens[u]
           /\ lamports'[u] >= lamports[u]
  <1>1. /\ user \in [Users -> UserAccount] /\ lamports \in [Wallets -> Nat]
        /\ u \in Wallets /\ lamports[u] \in Nat
        /\ user[w].user_sol_contributed \in Nat
    BY RuntimeAssumption DEF TypeOK, Wallets, UserAccount, U64
  <1>2. ASSUME NEW amount \in BuyAmounts, BuyToken(w, amount)
        PROVE  user'[u] = user[u] /\ tokens'[u] = tokens[u]
                 /\ lamports'[u] >= lamports[u]
    <2>1. PICK bought \in U64, sol \in U64, joined \in {0, 1},
               sells_out \in BOOLEAN :
             /\ MayBuy(w, amount, sells_out, sol)
             /\ lamports' = [lamports EXCEPT ![w] = @ - sol]
             /\ user' = [user EXCEPT ![w] = Purchased(@, bought, sol)]
             /\ UNCHANGED tokens
      BY <1>2, BuyFacts
    <2>2. u # w
      BY <2>1 DEF MayBuy
    <2> QED
      BY <1>1, <2>1, <2>2
  <1>3. ASSUME RefundToken(w)
        PROVE  /\ UNCHANGED <<user, tokens>>
               /\ lamports'[u] >= lamports[u]
    <2> DEFINE amount == user[w].user_sol_contributed
    <2>1. /\ UNCHANGED <<user, tokens>>
          /\ lamports' = lamports
               \/ lamports' = [lamports EXCEPT ![w] = @ + amount]
      BY <1>3 DEF RefundToken
    <2> HIDE DEF amount
    <2>2. amount \in Nat
      BY <1>1 DEF amount
    <2> QED
      BY <1>1, <2>1, <2>2
  <1> QED
    BY <1>2, <1>3 DEF BuyerNext

\* A wallet removed from the whitelist keeps its record for good, buys nothing
\* more and receives no token of what it bought; it can only be refunded.
THEOREM RemovedForGood == Spec => RemovalIsFinal
  <1>1. TypeOK /\ [Next]_vars => [RemovedStaysOut]_vars
    <2> SUFFICES ASSUME TypeOK, Next, NEW u \in Users, user[u].exists,
                        ~user[u].is_whitelisted
                 PROVE  user'[u] = user[u] /\ tokens'[u] = tokens[u]
                          /\ lamports'[u] >= lamports[u]
      BY DEF RemovedStaysOut
    <2>1. lamports[u] \in Nat
      BY DEF TypeOK, Wallets
    <2>2. CASE Tick
      BY <2>1, <2>2 DEF Tick
    <2> QED
      BY <2>1, <2>2, AdminLeavesRemoved, BuyerLeavesRemoved DEF Next
  <1> QED
    BY <1>1, TypeCorrect, PTL DEF Spec, RemovalIsFinal
=============================================================================
