---------------------------- MODULE PresaleProofs ----------------------------
(***************************************************************************)
(* Invariants of the presale program, proved for every set of buyers and   *)
(* admins, every argument and every integer width.                         *)
(***************************************************************************)
EXTENDS PresaleProperties, TLAPS

-----------------------------------------------------------------------------
(* Arithmetic *)

\* Rust's unsigned division gives an unsigned number, never above what is
\* divided (Share, and the price of the purchase that sells out).
LEMMA QuotientBounds ==
  ASSUME NEW n \in Nat, NEW d \in Nat \ {0}
  PROVE  n \div d \in 0 .. n
  OBVIOUS

\* A share of a total is a natural number (initialize, finalize).
LEMMA ShareBounds ==
  ASSUME NEW whole \in Nat, NEW part \in Nat
  PROVE  Share(whole, part) \in Nat /\ Share(whole, part) <= whole * part
  BY QuotientBounds, whole * part \in Nat DEF Share, BasisPoints

\* What a purchase allocates is never more than what is left.
LEMMA TokensBounds ==
  ASSUME NEW remained \in Nat, NEW rate \in Nat, NEW amount \in Nat
  PROVE  TokensToAllocate(remained, rate, amount) \in 0 .. remained
  BY rate * amount \in Nat DEF TokensToAllocate, SellsOut

\* What a purchase costs is a natural number.
LEMMA SolBounds ==
  ASSUME NEW remained \in Nat, NEW rate \in Nat, NEW amount \in Nat,
         SellsOut(remained, rate, amount) => rate # 0
  PROVE  SolToTransfer(remained, rate, amount) \in Nat
  BY QuotientBounds DEF SolToTransfer

-----------------------------------------------------------------------------
(* Type correctness *)

\* A zeroed presale account has the type of one.
LEMMA ZeroedTyped == ZeroedPresale \in PresaleAccount
  BY RuntimeAssumption
  DEF ZeroedPresale, PresaleAccount, U64, U32, Counter, Flag

\* A new user account has the type of one (add_whitelist).
LEMMA NewUserTyped == \A w \in BOOLEAN : NewUser(w) \in UserAccount
  BY RuntimeAssumption DEF NewUser, UserAccount, U64, Flag

\* Taking lamports out of an account leaves an account (refund_token,
\* finalize, withdraw).
LEMMA DebitedTyped ==
  ASSUME NEW acct \in Account, NEW amount \in Nat, CanDebit(acct, amount)
  PROVE  Debited(acct, amount) \in Account
  BY DEF Account, CanDebit, Debited, NoAccount, Owners

\* Paying lamports into an account leaves an account (buy_token).
LEMMA CreditedTyped ==
  ASSUME NEW acct \in Account, NEW amount \in Nat
  PROVE  Credited(acct, amount) \in Account
  BY DEF Account, Credited, OwnerOnCredit, Owners

\* No balance the runtime lets an account keep is negative.
LEMMA BalanceIsNat ==
  ASSUME NEW b \in Int, NEW owner \in Owners, RentStateOK(b, owner)
  PROVE  b \in Nat
  BY RuntimeAssumption DEF RentStateOK, RentMinimum

\* The first state is typed.
LEMMA InitTyped == Init => TypeOK
  <1> SUFFICES ASSUME Init PROVE TypeOK
    OBVIOUS
  <1>1. now \in 0 .. MaxTime
    BY PresaleAssumption, RuntimeAssumption DEF Init, U64
  <1>2. presale \in PresaleAccount /\ user \in [Users -> UserAccount]
    BY ZeroedTyped, NewUserTyped DEF Init
  <1>3. lamports \in [Wallets -> Nat]
    BY PresaleAssumption DEF Init
  <1>4. tokens \in [Users \cup Admins -> Nat]
    BY PresaleAssumption DEF Init
  <1>5. escrow \in Account /\ vault \in Nat /\ admin_account = NoAdmin
    BY DEF Init, NoAccount, Account, Owners
  <1> QED
    BY <1>1, <1>2, <1>3, <1>4, <1>5 DEF TypeOK

\* initialize writes a typed presale account: its checked sums and products
\* bound the end time, the soft cap and the allotment.
LEMMA InitializeTyped ==
  ASSUME TypeOK, NEW signer \in Admins, NEW a \in InitArgs,
         Initialize(signer, a)
  PROVE  TypeOK'
  <1>1. a \in InitArg
    BY PresaleAssumption
  <1>2. now + a.presale_duration \in U64 /\ now \in U64
    BY PresaleAssumption, RuntimeAssumption DEF Initialize, TypeOK, U64
  <1>3. Share(a.total_token_amount, a.softcap_precent) \in U64
    BY <1>1, ShareBounds, RuntimeAssumption
    DEF Initialize, InitArg, U64, U32
  <1>4. Share(a.total_token_amount, a.token_allocation) \in U64
    BY <1>1, ShareBounds, RuntimeAssumption
    DEF Initialize, InitArg, U64, U32
  <1>5. presale' \in PresaleAccount
    <2> DEFINE cap == Share(a.total_token_amount, a.softcap_precent)
               allotted == Share(a.total_token_amount, a.token_allocation)
               end == now + a.presale_duration
    <2>1. presale' = [ZeroedPresale EXCEPT
                        !.team_percent = a.team_percent,
                        !.presale_rate = a.presale_rate,
                        !.user_max_buy = a.user_max_buy,
                        !.presale_duration = a.presale_duration,
                        !.start_time = now,
                        !.end_time = end,
                        !.soft_cap = cap,
                        !.token_allocation = a.token_allocation,
                        !.total_token_remained = allotted,
                        !.total_presale_token = allotted]
      BY DEF Initialize
    <2>2. cap \in U64 /\ allotted \in U64 /\ end \in U64 /\ now \in U64
      BY <1>2, <1>3, <1>4
    <2> HIDE DEF cap, allotted, end
    <2> QED
      BY <1>1, <2>1, <2>2, ZeroedTyped DEF InitArg, PresaleAccount
  <1>6. escrow' \in Account
    BY RuntimeAssumption DEF Initialize, Account, Owners
  <1> QED
    BY <1>5, <1>6 DEF Initialize, TypeOK

\* The instructions that only book something keep every type: deposit_token,
\* add_whitelist, remove_whitelist, update_presale_details, cancel_presale.
LEMMA BookkeepingTyped ==
  ASSUME TypeOK, NEW signer \in Admins
  PROVE  /\ \A amount \in DepositAmounts :
              DepositToken(signer, amount) => TypeOK'
         /\ \A u \in Users : AddWhitelist(signer, u) => TypeOK'
         /\ \A u \in Users : RemoveWhitelist(signer, u) => TypeOK'
         /\ \A s, e \in NewTimes :
              UpdatePresaleDetails(signer, s, e) => TypeOK'
         /\ CancelPresale(signer) => TypeOK'
  <1>1. ASSUME NEW amount \in DepositAmounts, DepositToken(signer, amount)
        PROVE  TypeOK'
    BY <1>1, PresaleAssumption DEF DepositToken, TypeOK, U64
  <1>2. ASSUME NEW u \in Users, AddWhitelist(signer, u)
        PROVE  TypeOK'
    <2>1. presale' \in PresaleAccount
      BY <1>2 DEF AddWhitelist, TypeOK, PresaleAccount
    <2>2. user' \in [Users -> UserAccount]
      BY <1>2, NewUserTyped DEF AddWhitelist, TypeOK
    <2> QED
      BY <1>2, <2>1, <2>2 DEF AddWhitelist, TypeOK
  <1>3. ASSUME NEW u \in Users, RemoveWhitelist(signer, u)
        PROVE  TypeOK'
    <2>1. presale' \in PresaleAccount
      BY <1>3 DEF RemoveWhitelist, TypeOK, PresaleAccount
    <2>2. [user[u] EXCEPT !.is_whitelisted = FALSE] \in UserAccount
      BY DEF TypeOK, UserAccount
    <2>3. user' \in [Users -> UserAccount]
      BY <1>3, <2>2 DEF RemoveWhitelist, TypeOK
    <2> QED
      BY <1>3, <2>1, <2>3 DEF RemoveWhitelist, TypeOK
  <1>4. ASSUME NEW s \in NewTimes, NEW e \in NewTimes,
               UpdatePresaleDetails(signer, s, e)
        PROVE  TypeOK'
    BY <1>4, PresaleAssumption
    DEF UpdatePresaleDetails, TypeOK, PresaleAccount
  <1>5. ASSUME CancelPresale(signer)
        PROVE  TypeOK'
    BY <1>5 DEF CancelPresale, TypeOK, PresaleAccount, Flag
  <1> QED
    BY <1>1, <1>2, <1>3, <1>4, <1>5

\* What buy_token writes: no more tokens than are left, a price the buyer has.
LEMMA BuyFacts ==
  ASSUME TypeOK, NEW u \in Users, NEW amount \in BuyAmounts,
         BuyToken(u, amount)
  PROVE  \E bought, sol \in U64, joined \in {0, 1}, sells_out \in BOOLEAN :
           /\ bought = TokensToAllocate(presale.total_token_remained,
                                        presale.presale_rate, amount)
           /\ sol = SolToTransfer(presale.total_token_remained,
                                  presale.presale_rate, amount)
           /\ sells_out = SellsOut(presale.total_token_remained,
                                   presale.presale_rate, amount)
           /\ joined = IF user[u].user_buy_amount = 0 THEN 1 ELSE 0
           /\ bought <= presale.total_token_remained
           /\ MayBuy(u, amount, sells_out, sol)
           /\ presale.total_participants + joined \in Counter
           /\ presale.total_sol_amount + sol \in U64
           /\ user[u].user_sol_contributed + sol \in U64
           /\ user[u].user_buy_amount + bought \in U64
           /\ lamports' = [lamports EXCEPT ![u] = @ - sol]
           /\ escrow' = Credited(escrow, sol)
           /\ user' = [user EXCEPT ![u] = Purchased(@, bought, sol)]
           /\ presale' = Sold(presale, joined, bought, sol, sells_out)
           /\ UNCHANGED <<now, admin_account, vault, tokens>>
  <1> DEFINE remained  == presale.total_token_remained
             rate      == presale.presale_rate
             sells_out == SellsOut(remained, rate, amount)
             bought    == TokensToAllocate(remained, rate, amount)
             sol       == SolToTransfer(remained, rate, amount)
             joined    == IF user[u].user_buy_amount = 0 THEN 1 ELSE 0
  <1>1. remained \in U64 /\ rate \in U64 /\ amount \in U64
    BY PresaleAssumption DEF TypeOK, PresaleAccount
  <1>2. U64 \subseteq Nat /\ MaxU64 \in Nat
    BY RuntimeAssumption DEF U64
  <1>3. bought \in 0 .. remained
    BY <1>1, <1>2, TokensBounds
  <1>4. sells_out \in BOOLEAN /\ joined \in {0, 1}
    BY DEF SellsOut
  <1>5. sells_out => rate # 0
    BY DEF BuyToken, MayBuy
  <1>6. sol \in Nat
    BY <1>1, <1>2, <1>5, SolBounds
  <1>7. presale.total_sol_amount + sol \in U64
    BY DEF BuyToken
  <1>8. presale.total_sol_amount \in U64
    BY DEF TypeOK, PresaleAccount
  <1>9. bought \in U64 /\ sol \in U64
    BY <1>1, <1>2, <1>3, <1>6, <1>7, <1>8 DEF U64
  <1>10. /\ MayBuy(u, amount, sells_out, sol)
         /\ presale.total_participants + joined \in Counter
         /\ presale.total_sol_amount + sol \in U64
         /\ user[u].user_sol_contributed + sol \in U64
         /\ user[u].user_buy_amount + bought \in U64
         /\ lamports' = [lamports EXCEPT ![u] = @ - sol]
         /\ escrow' = Credited(escrow, sol)
         /\ user' = [user EXCEPT ![u] = Purchased(@, bought, sol)]
         /\ presale' = Sold(presale, joined, bought, sol, sells_out)
         /\ UNCHANGED <<now, admin_account, vault, tokens>>
    BY DEF BuyToken
  <1>11. bought <= remained
    BY <1>1, <1>2, <1>3
  <1>12. /\ bought = TokensToAllocate(remained, rate, amount)
         /\ sol = SolToTransfer(remained, rate, amount)
         /\ sells_out = SellsOut(remained, rate, amount)
         /\ joined = IF user[u].user_buy_amount = 0 THEN 1 ELSE 0
    OBVIOUS
  <1> HIDE DEF bought, sol, sells_out, joined
  <1> QED
    BY <1>4, <1>9, <1>10, <1>11, <1>12

\* buy_token keeps every type.
LEMMA BuyTyped ==
  ASSUME TypeOK, NEW u \in Users, NEW amount \in BuyAmounts,
         BuyToken(u, amount)
  PROVE  TypeOK'
  <1>1. PICK bought \in U64, sol \in U64, joined \in {0, 1},
             sells_out \in BOOLEAN :
           /\ bought <= presale.total_token_remained
           /\ MayBuy(u, amount, sells_out, sol)
           /\ presale.total_participants + joined \in Counter
           /\ presale.total_sol_amount + sol \in U64
           /\ user[u].user_sol_contributed + sol \in U64
           /\ user[u].user_buy_amount + bought \in U64
           /\ lamports' = [lamports EXCEPT ![u] = @ - sol]
           /\ escrow' = Credited(escrow, sol)
           /\ user' = [user EXCEPT ![u] = Purchased(@, bought, sol)]
           /\ presale' = Sold(presale, joined, bought, sol, sells_out)
           /\ UNCHANGED <<now, admin_account, vault, tokens>>
    BY BuyFacts
  <1>2. U64 \subseteq Nat /\ sol \in Nat /\ bought \in Nat
    BY RuntimeAssumption DEF U64
  <1>3. presale.total_token_remained - bought \in U64
    BY <1>1, <1>2, RuntimeAssumption DEF TypeOK, PresaleAccount, U64
  <1>4. presale' \in PresaleAccount
    BY <1>1, <1>3 DEF TypeOK, PresaleAccount, Sold, Flag
  <1>5. Purchased(user[u], bought, sol) \in UserAccount
    BY <1>1 DEF TypeOK, UserAccount, Purchased
  <1>6. user' \in [Users -> UserAccount]
    BY <1>1, <1>5 DEF TypeOK
  <1>7. escrow' \in Account
    BY <1>1, <1>2, CreditedTyped DEF TypeOK
  <1>8. lamports' \in [Wallets -> Nat]
    <2>1. lamports[u] \in Nat
      BY DEF TypeOK, Wallets
    <2>2. lamports[u] - sol \in Nat
      BY <1>1, <1>2, <2>1, BalanceIsNat DEF MayBuy, Owners
    <2> QED
      BY <1>1, <2>2 DEF TypeOK
  <1> QED
    BY <1>1, <1>4, <1>6, <1>7, <1>8 DEF TypeOK

\* refund_token keeps every type.
LEMMA RefundTyped ==
  ASSUME TypeOK, NEW u \in Users, RefundToken(u)
  PROVE  TypeOK'
  <1> DEFINE amount == user[u].user_sol_contributed
  <1>1. amount \in Nat /\ lamports[u] \in Nat
    BY RuntimeAssumption DEF TypeOK, UserAccount, U64, Wallets
  <1>2. CASE amount = 0 /\ UNCHANGED <<presale, escrow, lamports>>
    BY <1>2 DEF RefundToken, TypeOK
  <1>3. CASE /\ CanDebit(escrow, amount)
             /\ presale.total_sol_amount - amount \in U64
             /\ presale.total_participants - 1 \in Counter
             /\ escrow' = Debited(escrow, amount)
             /\ lamports' = [lamports EXCEPT ![u] = @ + amount]
             /\ presale' = Refunded(presale, amount)
    <2> HIDE DEF amount
    <2>1. presale' \in PresaleAccount
      BY <1>3 DEF TypeOK, PresaleAccount, Refunded
    <2>2. escrow' \in Account
      BY <1>1, <1>3, DebitedTyped DEF TypeOK
    <2>3. lamports' \in [Wallets -> Nat]
      BY <1>1, <1>3, lamports[u] + amount \in Nat DEF TypeOK
    <2> QED
      BY <2>1, <2>2, <2>3 DEF RefundToken, TypeOK
  <1> QED
    BY <1>2, <1>3 DEF RefundToken, MayRefund

\* finalize keeps every type, whichever way it settles.
LEMMA FinalizeTyped ==
  ASSUME TypeOK, NEW signer \in Admins, NEW f \in ForceFlags,
         Finalize(signer, f)
  PROVE  TypeOK'
  <1> DEFINE cancelled == CancelledByFinalize(f # 0)
             team_amount == Share(presale.total_sol_amount,
                                  presale.team_percent)
  <1>1. cancelled \in Flag
    BY DEF CancelledByFinalize, TypeOK, PresaleAccount, Flag
  <1>2. team_amount \in Nat
    <2>1. presale.total_sol_amount \in Nat /\ presale.team_percent \in Nat
      BY RuntimeAssumption DEF TypeOK, PresaleAccount, U64, U32
    <2> QED
      BY <2>1, ShareBounds
  <1>3. CASE /\ presale' = [presale EXCEPT !.is_cancelled = cancelled]
             /\ UNCHANGED <<escrow, lamports>>
    <2> HIDE DEF cancelled
    <2>1. presale' \in PresaleAccount
      BY <1>1, <1>3 DEF TypeOK, PresaleAccount
    <2> QED
      BY <1>3, <2>1 DEF Finalize, TypeOK
  <1>4. CASE /\ CanDebit(escrow, team_amount)
             /\ escrow' = Debited(escrow, team_amount)
             /\ lamports' = [lamports EXCEPT ![Team] = @ + team_amount]
             /\ presale' = [presale EXCEPT !.is_finalized = 1]
    <2> HIDE DEF team_amount
    <2>1. presale' \in PresaleAccount
      BY <1>4 DEF TypeOK, PresaleAccount, Flag
    <2>2. escrow' \in Account
      BY <1>2, <1>4, DebitedTyped DEF TypeOK
    <2>3. lamports[Team] \in Nat
      BY DEF TypeOK, Wallets
    <2>4. lamports' \in [Wallets -> Nat]
      BY <1>2, <1>4, <2>3, lamports[Team] + team_amount \in Nat DEF TypeOK
    <2> QED
      BY <2>1, <2>2, <2>4 DEF Finalize, TypeOK
  <1> QED
    BY <1>3, <1>4 DEF Finalize

\* claim_token, withdraw_token and withdraw keep every type.
LEMMA PayoutsTyped ==
  ASSUME TypeOK, NEW signer \in Admins
  PROVE  /\ \A u \in Users : ClaimToken(signer, u) => TypeOK'
         /\ WithdrawToken(signer) => TypeOK'
         /\ Withdraw(signer) => TypeOK'
  <1>1. ASSUME NEW u \in Users, ClaimToken(signer, u)
        PROVE  TypeOK'
    <2>1. user[u].user_buy_amount \in Nat
      BY RuntimeAssumption DEF TypeOK, UserAccount, U64
    <2>2. [user[u] EXCEPT !.is_claimed = 1] \in UserAccount
      BY DEF TypeOK, UserAccount, Flag
    <2>3. user' \in [Users -> UserAccount]
      BY <1>1, <2>2 DEF ClaimToken, TypeOK
    <2>4. vault' \in Nat /\ tokens' \in [Users \cup Admins -> Nat]
      BY <1>1, <2>1 DEF ClaimToken, TypeOK
    <2> QED
      BY <1>1, <2>3, <2>4 DEF ClaimToken, TypeOK
  <1>2. ASSUME WithdrawToken(signer)
        PROVE  TypeOK'
    <2>1. presale' \in PresaleAccount
      BY <1>2, RuntimeAssumption
      DEF WithdrawToken, TypeOK, PresaleAccount, U64
    <2> QED
      BY <1>2, <2>1 DEF WithdrawToken, TypeOK
  <1>3. ASSUME Withdraw(signer)
        PROVE  TypeOK'
    <2>1. escrow.lamports \in Nat
      BY DEF TypeOK, Account
    <2>2. escrow' \in Account
      BY <1>3, <2>1, DebitedTyped DEF Withdraw, TypeOK
    <2>3. lamports' \in [Wallets -> Nat]
      BY <1>3, <2>1 DEF Withdraw, TypeOK, Wallets
    <2> QED
      BY <1>3, <2>2, <2>3 DEF Withdraw, TypeOK
  <1> QED
    BY <1>1, <1>2, <1>3

\* Every step keeps every type.
LEMMA StepTyped == TypeOK /\ [Next]_vars => TypeOK'
  <1> SUFFICES ASSUME TypeOK, [Next]_vars PROVE TypeOK'
    OBVIOUS
  <1>1. CASE Tick
    BY <1>1, PresaleAssumption, RuntimeAssumption DEF Tick, TypeOK, U64
  <1>2. ASSUME NEW signer \in Admins, AdminNext(signer)
        PROVE  TypeOK'
    BY <1>2, InitializeTyped, BookkeepingTyped, FinalizeTyped, PayoutsTyped
    DEF AdminNext
  <1>3. ASSUME NEW u \in Users, BuyerNext(u)
        PROVE  TypeOK'
    BY <1>3, BuyTyped, RefundTyped DEF BuyerNext
  <1>4. CASE UNCHANGED vars
    BY <1>4 DEF vars, TypeOK
  <1> QED
    BY <1>1, <1>2, <1>3, <1>4 DEF Next

\* Every field keeps its width, every flag is 0 or 1 and no balance is ever
\* negative, whatever the arguments of the instructions.
THEOREM TypeCorrect == Spec => []TypeOK
  BY InitTyped, StepTyped, PTL DEF Spec
=============================================================================
