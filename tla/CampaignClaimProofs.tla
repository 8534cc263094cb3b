-------------------------- MODULE CampaignClaimProofs --------------------------
(***************************************************************************)
(* No wallet receives more tokens than it bought, though claim_token would *)
(* pay it again: proofs about the claims a campaign sends, for any number  *)
(* of wallets, runs and lost confirmations.                                *)
(***************************************************************************)
EXTENDS CampaignProofs

-----------------------------------------------------------------------------
(* What the program's steps do to the users' tokens *)

\* What is known of the program in every state of a campaign.
ProgramInv == FundsInv /\ SaleInv

\* A step that pays no user, takes nothing off a purchase, and neither opens
\* nor closes the presale.
PaysNobody ==
  /\ \A u \in Users : /\ tokens'[u] = tokens[u]
                      /\ user'[u].user_buy_amount >= user[u].user_buy_amount
  /\ Initialized' <=> Initialized

\* A wallet that was not added bought nothing.
LEMMA StrangersBoughtNothing ==
  ASSUME ProgramInv, NEW u \in Users, ~user[u].exists
  PROVE  user[u].user_buy_amount = 0
  BY DEF ProgramInv, SaleInv, StrangersOwnNothing, NewUser

\* Purchases and balances are numbers.
LEMMA AmountsTyped ==
  ASSUME TypeOK, NEW u \in Users
  PROVE  user[u].user_buy_amount \in Nat /\ tokens[u] \in Nat
  BY RuntimeAssumption DEF TypeOK, UserAccount, U64

\* Instructions that move tokens at most between the admin and the vault, and
\* only mark the users' records, pay nobody.
LEMMA BookkeepingPaysNobody ==
  ASSUME ProgramInv, admin_account' = admin_account,
         tokens' = tokens
           \/ \E n \in Int : tokens' = [tokens EXCEPT ![Admin] = n],
         user' = user
           \/ \E u \in Users :
                \/ user' = [user EXCEPT ![u].is_whitelisted = FALSE]
                \/ ~user[u].exists /\ user' = [user EXCEPT ![u] = NewUser(TRUE)]
  PROVE  PaysNobody
  <1>1. TypeOK /\ Admin \notin Users
    BY PresaleAssumption, CampaignAssumption DEF ProgramInv, FundsInv
  <1>2. \A w \in Users : tokens'[w] = tokens[w]
    BY <1>1 DEF TypeOK
  <1>3. ASSUME NEW w \in Users
        PROVE  user'[w].user_buy_amount >= user[w].user_buy_amount
    <2>1. user[w].user_buy_amount \in Nat
      BY <1>1, AmountsTyped
    <2>2. CASE user' = user
      BY <2>1, <2>2
    <2>3. CASE \E u \in Users : user' = [user EXCEPT ![u].is_whitelisted = FALSE]
      BY <1>1, <2>1, <2>3 DEF TypeOK, UserAccount
    <2>4. CASE \E u \in Users : /\ ~user[u].exists
                                /\ user' = [user EXCEPT ![u] = NewUser(TRUE)]
      <3>1. PICK u \in Users : /\ ~user[u].exists
                               /\ user' = [user EXCEPT ![u] = NewUser(TRUE)]
        BY <2>4
      <3>2. user[u].user_buy_amount = 0
        BY <3>1, StrangersBoughtNothing
      <3>3. user'[w] = IF w = u THEN NewUser(TRUE) ELSE user[w]
        BY <1>1, <3>1 DEF TypeOK
      <3> QED
        BY <2>1, <3>2, <3>3 DEF NewUser
    <2> QED
      BY <2>2, <2>3, <2>4
  <1> QED
    BY <1>2, <1>3 DEF PaysNobody, Initialized

\* buy_token pays nobody: it adds to a purchase.
LEMMA BuyPaysNobody ==
  ASSUME ProgramInv, NEW u \in Users, NEW amount \in BuyAmounts,
         BuyToken(u, amount)
  PROVE  PaysNobody
  <1>1. TypeOK
    BY DEF ProgramInv, FundsInv
  <1>2. PICK bought, sol \in U64 :
          /\ user' = [user EXCEPT ![u] = Purchased(@, bought, sol)]
          /\ UNCHANGED <<admin_account, tokens>>
    BY <1>1, BuyFacts
  <1>3. bought \in Nat
    BY RuntimeAssumption DEF U64
  <1>4. ASSUME NEW w \in Users
        PROVE  user'[w].user_buy_amount >= user[w].user_buy_amount
    <2>1. user[w].user_buy_amount \in Nat
      BY <1>1, AmountsTyped
    <2>2. user'[w].user_buy_amount
            = IF w = u THEN user[w].user_buy_amount + bought
              ELSE user[w].user_buy_amount
      BY <1>1, <1>2 DEF TypeOK, UserAccount, Purchased
    <2> QED
      BY <1>3, <2>1, <2>2
  <1> QED
    BY <1>2, <1>4 DEF PaysNobody, Initialized

\* The steps beside the script pay nobody.
LEMMA OutsidePaysNobody ==
  ASSUME ProgramInv,
         \/ UNCHANGED vars
         \/ Tick
         \/ \E u \in Outsiders : \/ \E amount \in OutsideAmounts :
                                      BuyToken(u, amount)
                                 \/ RefundToken(u)
  PROVE  PaysNobody
  <1>1. CASE UNCHANGED vars \/ Tick \/ \E u \in Outsiders : RefundToken(u)
    <2>1. UNCHANGED <<admin_account, user, tokens>>
      BY <1>1 DEF vars, Tick, RefundToken
    <2> QED
      BY <2>1, BookkeepingPaysNobody
  <1>2. CASE \E u \in Outsiders, amount \in OutsideAmounts : BuyToken(u, amount)
    BY <1>2, CampaignAssumption, BuyPaysNobody
  <1> QED
    BY <1>1, <1>2

\* A transaction that lands opens the presale, pays the one wallet it claims
\* for, from the vault of the token it is about, or pays nobody.
LEMMA LandsPays ==
  ASSUME ProgramInv, NEW tx \in Tx, Lands(tx)
  PROVE  /\ tx.op = "initialize" =>
              /\ ~Initialized /\ Initialized' /\ presale_mint' = tx.mint
              /\ UNCHANGED <<user, tokens>>
         /\ tx.op = "claimToken" =>
              /\ tx.u \in Users
              /\ presale_mint' = presale_mint /\ presale_mint = tx.mint
              /\ tokens' = [tokens EXCEPT ![tx.u] = @ + user[tx.u].user_buy_amount]
              /\ user' = [user EXCEPT ![tx.u].is_claimed = 1]
              /\ admin_account' = admin_account
         /\ tx.op \notin {"initialize", "claimToken"} =>
              PaysNobody /\ presale_mint' = presale_mint
  <1>1. CASE tx.op = "initialize"
    <2>1. Initialize(Admin, SaleArgs) /\ presale_mint' = tx.mint
      BY <1>1 DEF Lands, OnPresale
    <2>2. Admin # NoAdmin
      BY PresaleAssumption, CampaignAssumption
    <2> QED
      BY <1>1, <2>1, <2>2 DEF Initialize, Initialized
  <1>2. CASE tx.op = "claimToken"
    <2>1. HasVault(tx) /\ ClaimToken(Admin, tx.u) /\ presale_mint' = presale_mint
      BY <1>2 DEF Lands, OnPresale
    <2>2. tx.u \in Users
      BY <1>2 DEF Tx
    <2> QED
      BY <1>2, <2>1, <2>2 DEF ClaimToken, HasVault
  <1>3. CASE tx.op \notin {"initialize", "claimToken", "createAta"}
    <2>1. OnPresale(tx) /\ presale_mint' = presale_mint
      BY <1>3 DEF Lands
    <2>2. TypeOK /\ Admin \in Admins /\ DepositAmount \in Nat
      BY RuntimeAssumption, PresaleAssumption, CampaignAssumption
      DEF ProgramInv, FundsInv, U64
    <2>3. vault \in Nat /\ tokens[Admin] \in Nat
      BY <2>2 DEF TypeOK
    <2>4. CASE tx.op = "depositToken"
      <3>1. /\ tokens' = [tokens EXCEPT ![Admin] = tokens[Admin] - DepositAmount]
            /\ UNCHANGED <<admin_account, user>>
        BY <2>1, <2>4 DEF OnPresale, DepositToken
      <3>2. tokens[Admin] - DepositAmount \in Int
        BY <2>2, <2>3
      <3> QED
        BY <1>3, <2>1, <3>1, <3>2, BookkeepingPaysNobody
    <2>5. CASE tx.op = "withdrawToken"
      <3>1. /\ tokens' = [tokens EXCEPT ![Admin] = tokens[Admin] + vault]
            /\ UNCHANGED <<admin_account, user>>
        BY <2>1, <2>5 DEF OnPresale, WithdrawToken
      <3>2. tokens[Admin] + vault \in Int
        BY <2>3
      <3> QED
        BY <1>3, <2>1, <3>1, <3>2, BookkeepingPaysNobody
    <2>6. CASE tx.op \in {"finalize", "withdraw"}
      <3>1. UNCHANGED <<admin_account, user, tokens>>
        BY <2>1, <2>6 DEF OnPresale, Finalize, Withdraw
      <3> QED
        BY <1>3, <2>1, <3>1, BookkeepingPaysNobody
    <2>7. CASE tx.op \in {"addWhitelist", "removeWhitelist"}
      <3>1. tx.u \in Users
        BY <2>7 DEF Tx
      <3>2. /\ \/ user' = [user EXCEPT ![tx.u].is_whitelisted = FALSE]
               \/ /\ ~user[tx.u].exists
                  /\ user' = [user EXCEPT ![tx.u] = NewUser(TRUE)]
            /\ UNCHANGED <<admin_account, tokens>>
        BY <2>1, <2>7
        DEF OnPresale, AddWhitelist, RemoveWhitelist, CanInit
      <3> QED
        BY <1>3, <2>1, <3>1, <3>2, BookkeepingPaysNobody
    <2>8. CASE tx.op = "buyToken"
      <3>1. tx.u \in Users /\ tx.amount \in BuyAmounts
        BY <2>8 DEF Tx
      <3>2. BuyToken(tx.u, tx.amount)
        BY <2>1, <2>8 DEF OnPresale
      <3> QED
        BY <1>3, <2>1, <3>1, <3>2, BuyPaysNobody
    <2> QED
      BY <1>3, <2>4, <2>5, <2>6, <2>7, <2>8 DEF Tx
  <1>4. CASE tx.op = "createAta"
    <2>1. UNCHANGED <<vars, presale_mint>>
      BY <1>4 DEF Lands, OnPresale, CreatesAta
    <2> QED
      BY <1>4, <2>1, OutsidePaysNobody
  <1> QED
    BY <1>1, <1>2, <1>3, <1>4

-----------------------------------------------------------------------------
(* What has been delivered *)

\* A step that pays nobody delivers nothing.
LEMMA PaysNobodyDelivery ==
  ASSUME ProgramInv, ProgramInv', DeliveryInv, PaysNobody,
         presale_mint' = presale_mint
  PROVE  /\ DeliveryInv'
         /\ \A u \in Users, m \in 1 .. MaxRuns :
              Delivered(u, m)' => Delivered(u, m)
  <1>1. TypeOK /\ TypeOK'
    BY DEF ProgramInv, FundsInv
  <1>2. ASSUME NEW u \in Users
        PROVE  tokens'[u] <= user'[u].user_buy_amount
    <2>1. tokens[u] \in Nat /\ user[u].user_buy_amount \in Nat
      BY <1>1, AmountsTyped
    <2>2. user'[u].user_buy_amount \in Nat
      BY <1>1, RuntimeAssumption DEF TypeOK, UserAccount, U64
    <2> QED
      BY <2>1, <2>2 DEF PaysNobody, DeliveryInv, DeliveredAtMostBought
  <1> QED
    BY <1>2 DEF PaysNobody, DeliveryInv, DeliveredAtMostBought, Delivered

\* A transaction that lands delivers at most what it claims, if nothing was
\* delivered for that claim before.
LEMMA LandsDelivers ==
  ASSUME ProgramInv, ProgramInv', DeliveryInv, NEW tx \in Tx, Lands(tx),
         tx.op = "claimToken" => ~Delivered(tx.u, tx.mint)
  PROVE  /\ DeliveryInv'
         /\ \A u \in Users, m \in 1 .. MaxRuns :
              Delivered(u, m)' =>
                \/ Delivered(u, m)
                \/ tx = [op |-> "claimToken", u |-> u, mint |-> m]
  <1>1. TypeOK
    BY DEF ProgramInv, FundsInv
  <1>2. CASE tx.op = "initialize"
    <2>1. /\ ~Initialized /\ Initialized' /\ presale_mint' = tx.mint
          /\ UNCHANGED <<user, tokens>>
      BY <1>2, LandsPays
    <2>2. presale_mint' # 0
      BY <2>1, CampaignAssumption DEF Tx
    <2>3. ASSUME NEW u \in Users
          PROVE  tokens[u] = 0
      <3>1. user[u].user_buy_amount = 0
        BY <2>1, StrangersBoughtNothing
        DEF ProgramInv, FundsInv, NothingBeforeInitialize
      <3> QED
        BY <1>1, <3>1, AmountsTyped DEF DeliveryInv, DeliveredAtMostBought
    <2> QED
      BY <2>1, <2>2, <2>3 DEF DeliveryInv, DeliveredAtMostBought, Delivered
  <1>3. CASE tx.op = "claimToken"
    <2>1. /\ tx.u \in Users
          /\ presale_mint' = presale_mint /\ presale_mint = tx.mint
          /\ tokens' = [tokens EXCEPT ![tx.u] = @ + user[tx.u].user_buy_amount]
          /\ user' = [user EXCEPT ![tx.u].is_claimed = 1]
          /\ admin_account' = admin_account
      BY <1>3, LandsPays
    <2>2. \A w \in Users :
            user'[w].user_buy_amount = user[w].user_buy_amount
      BY <1>1, <2>1 DEF TypeOK, UserAccount
    <2>3. tokens[tx.u] = 0
      <3>1. tokens[tx.u] \in Nat
        BY <1>1, <2>1, AmountsTyped
      <3> QED
        BY <1>3, <2>1, <3>1 DEF Delivered
    <2>4. \A w \in Users : tokens'[w] = IF w = tx.u THEN user[w].user_buy_amount
                                        ELSE tokens[w]
      <3>1. user[tx.u].user_buy_amount \in Nat
        BY <1>1, <2>1, AmountsTyped
      <3> QED
        BY <1>1, <2>1, <2>3, <3>1 DEF TypeOK
    <2>5. ASSUME NEW w \in Users
          PROVE  tokens'[w] <= user'[w].user_buy_amount
      BY <1>1, <2>2, <2>4, AmountsTyped DEF DeliveryInv, DeliveredAtMostBought
    <2>6. ASSUME NEW u \in Users, NEW m \in 1 .. MaxRuns, Delivered(u, m)',
                 ~Delivered(u, m)
          PROVE  tx = [op |-> "claimToken", u |-> u, mint |-> m]
      <3>1. u = tx.u /\ m = tx.mint
        BY <2>1, <2>4, <2>6 DEF Delivered
      <3> QED
        BY <1>3, <3>1 DEF Tx
    <2> QED
      BY <2>1, <2>5, <2>6
      DEF DeliveryInv, DeliveredAtMostBought, Initialized
  <1>4. CASE tx.op \notin {"initialize", "claimToken"}
    BY <1>4, LandsPays, PaysNobodyDelivery
  <1> QED
    BY <1>2, <1>3, <1>4

-----------------------------------------------------------------------------
(* Where the claims are *)

CampaignInv == ScriptInv /\ ProgramInv /\ ClaimInv

\* Where a claim is nowhere new, it is still at most in one place.
LEMMA NothingNew ==
  ASSUME OneClaimEach, NEW u \in Users, NEW m \in 1 .. MaxRuns,
         Pending(u, m)' => Pending(u, m), Due(u, m)' => Due(u, m),
         Delivered(u, m)' => Delivered(u, m),
         mint' = m /\ u \notin atas' => mint = m /\ u \notin atas
  PROVE  OneClaim(u, m)'
  BY DEF OneClaimEach, OneClaim

\* Functions that return, other than the claim function, leave it where it is;
\* the claim function is back at its first call.
LEMMA ReturnsOnDue ==
  ASSUME ScriptInv, NEW k \in 1 .. Last, Passes(k) \/ Throws(k)
  PROVE  /\ ClaimIt \in 1 .. Last
         /\ step'[ClaimIt] = IF k = ClaimIt THEN 1 ELSE step[ClaimIt]
  <1>1. ClaimIt \in 1 .. Last
    BY ItsShape
  <1>2. step' = [step EXCEPT ![k] = 1]
    BY DEF Passes, Throws, Returns
  <1> QED
    BY <1>1, <1>2 DEF ScriptInv, ProgressOK

\* The claim function is not the one whose errors are caught.
LEMMA ClaimsAreNotCaught == ClaimIt # LastPurchaseIt
  BY ListsTyped DEF ClaimIt, LastPurchaseIt, Last

\* A call confirmed outside the claim function.
LEMMA OtherConfirmedKeepsClaims ==
  ASSUME CampaignInv, ProgramInv', NEW k \in 1 .. Last, k # ClaimIt, Confirmed(k)
  PROVE  ClaimInv'
  <1>1. /\ AtCall(k) /\ mint # 0 /\ Lands(NextCall(k))
        /\ UNCHANGED <<run, mint, in_flight, faults>>
    BY DEF Confirmed
  <1>2. /\ NextCall(k) \in Tx
        /\ NextCall(k).op \notin {"createAta", "claimToken"}
    BY <1>1, NextCallTyped DEF CampaignInv
  <1>3. /\ DeliveryInv'
        /\ \A u \in Users, m \in 1 .. MaxRuns :
             Delivered(u, m)' => Delivered(u, m)
    BY <1>1, <1>2, LandsDelivers DEF CampaignInv, ClaimInv
  <1>4. UNCHANGED visiting /\ step'[ClaimIt] = step[ClaimIt]
    <2>1. CASE NextStep(k)
      BY <2>1, ItsShape DEF NextStep, CampaignInv, ScriptInv, ProgressOK
    <2>2. CASE LastCallDone(k)
      BY <2>2, ReturnsOnDue DEF LastCallDone, CampaignInv
    <2> QED
      BY <2>1, <2>2 DEF Confirmed, NextAccount
  <1>5. atas' = atas
    BY <1>1, <1>2 DEF Lands
  <1>6. \A u \in Users, m \in 1 .. MaxRuns : OneClaim(u, m)'
    BY <1>1, <1>3, <1>4, <1>5, NothingNew
    DEF CampaignInv, ClaimInv, Pending, Due, visiting
  <1>7. ServingOK'
    BY <1>1, <1>4 DEF CampaignInv, ClaimInv, ServingOK, visiting
  <1> QED
    BY <1>3, <1>6, <1>7 DEF ClaimInv, OneClaimEach

\* The claim function opens an account: it had none, so that nothing of this
\* wallet's claim is anywhere, and now it is due.
LEMMA AccountCreatedKeepsClaims ==
  ASSUME CampaignInv, ProgramInv', Confirmed(ClaimIt), step[ClaimIt] = 1
  PROVE  ClaimInv'
  <1> DEFINE u0 == claiming
  <1>1. /\ AtCall(ClaimIt) /\ mint # 0 /\ Lands(NextCall(ClaimIt))
        /\ UNCHANGED <<run, mint, in_flight, faults>>
    BY DEF Confirmed
  <1>2. /\ ClaimIt \in 1 .. Last /\ Len(Its[ClaimIt]) = 2
        /\ u0 \in Users /\ NextCall(ClaimIt) = About("createAta", u0)
        /\ NextCall(ClaimIt) \in Tx
    <2>1. ClaimIt \in 1 .. Last /\ Its[ClaimIt] = ClaimForOne
      BY ItsShape
    <2> QED
      BY <1>1, <2>1, NextCallTyped DEF CampaignInv, ClaimForOne
  <1>3. NextStep(ClaimIt)
    BY <1>2 DEF Confirmed, NextAccount, LastCallDone
  <1>4. UNCHANGED visiting /\ step'[ClaimIt] = 2
    BY <1>2, <1>3 DEF NextStep, CampaignInv, ScriptInv, ProgressOK
  <1>5. u0 \notin atas /\ atas' = atas \cup {u0}
    BY <1>1, <1>2 DEF Lands, OnPresale, CreatesAta, About
  <1>6. /\ DeliveryInv'
        /\ \A u \in Users, m \in 1 .. MaxRuns :
             Delivered(u, m)' => Delivered(u, m)
    BY <1>1, <1>2, LandsDelivers DEF CampaignInv, ClaimInv, About
  <1>7. ASSUME NEW u \in Users, NEW m \in 1 .. MaxRuns
        PROVE  OneClaim(u, m)'
    <2>1. Pending(u, m)' => Pending(u, m)
      BY <1>1 DEF Pending
    <2>2. CASE u = u0 /\ m = mint
      <3>1. ~Pending(u, m) /\ ~Delivered(u, m)
        BY <1>5, <2>2 DEF CampaignInv, ClaimInv, OneClaimEach, OneClaim
      <3>2. ~Pending(u, m)' /\ ~Delivered(u, m)' /\ u \in atas'
        BY <1>5, <1>6, <2>1, <2>2, <3>1
      <3> QED
        BY <3>2 DEF OneClaim
    <2>3. CASE ~ (u = u0 /\ m = mint)
      <3>1. ~Due(u, m)'
        BY <1>1, <1>4, <2>3 DEF Due, visiting
      <3> QED
        BY <1>1, <1>5, <1>6, <2>1, <3>1, NothingNew DEF CampaignInv, ClaimInv
    <2> QED
      BY <2>2, <2>3
  <1>8. ServingOK'
    BY <1>1, <1>4 DEF ServingOK, AtCall, visiting
  <1> QED
    BY <1>6, <1>7, <1>8 DEF ClaimInv, OneClaimEach

\* The claim function's claim is paid: it was due, so that it was neither in
\* flight nor delivered, and it is due no more.
LEMMA ClaimPaidKeepsClaims ==
  ASSUME CampaignInv, ProgramInv', Confirmed(ClaimIt), step[ClaimIt] = 2
  PROVE  ClaimInv'
  <1> DEFINE u0 == claiming
  <1>1. /\ AtCall(ClaimIt) /\ mint # 0 /\ Lands(NextCall(ClaimIt))
        /\ UNCHANGED <<run, mint, in_flight, faults>>
    BY DEF Confirmed
  <1>2. /\ ClaimIt \in 1 .. Last /\ Len(Its[ClaimIt]) = 2
        /\ u0 \in Users /\ NextCall(ClaimIt) = About("claimToken", u0)
        /\ NextCall(ClaimIt) \in Tx /\ mint \in 1 .. MaxRuns
    <2>1. ClaimIt \in 1 .. Last /\ Its[ClaimIt] = ClaimForOne
      BY ItsShape
    <2>2. mint \in 1 .. MaxRuns
      BY <1>1 DEF CampaignInv, ScriptInv, TokensOK
    <2> QED
      BY <1>1, <2>1, <2>2, NextCallTyped DEF CampaignInv, ClaimForOne
  <1>3. NextAccount(ClaimIt)
    BY <1>2 DEF Confirmed, NextStep, LastCallDone
  <1>4. step'[ClaimIt] = 1
    BY <1>2, <1>3 DEF NextAccount, CampaignInv, ScriptInv, ProgressOK
  <1>5. atas' = atas
    BY <1>1, <1>2 DEF Lands, About
  <1>6. Due(u0, mint) /\ ~Pending(u0, mint) /\ ~Delivered(u0, mint) /\ u0 \in atas
    <2>1. Due(u0, mint)
      BY DEF Due
    <2> QED
      BY <1>2, <2>1 DEF CampaignInv, ClaimInv, OneClaimEach, OneClaim
  <1>7. /\ DeliveryInv'
        /\ \A u \in Users, m \in 1 .. MaxRuns :
             Delivered(u, m)' => Delivered(u, m) \/ (u = u0 /\ m = mint)
    BY <1>1, <1>2, <1>6, LandsDelivers DEF CampaignInv, ClaimInv, About
  <1>8. ASSUME NEW u \in Users, NEW m \in 1 .. MaxRuns
        PROVE  OneClaim(u, m)'
    <2>1. (Pending(u, m)' => Pending(u, m)) /\ ~Due(u, m)'
      BY <1>1, <1>4 DEF Pending, Due
    <2>2. CASE u = u0 /\ m = mint
      BY <1>5, <1>6, <2>1, <2>2 DEF OneClaim
    <2>3. CASE ~ (u = u0 /\ m = mint)
      BY <1>1, <1>5, <1>7, <2>1, <2>3, NothingNew DEF CampaignInv, ClaimInv
    <2> QED
      BY <2>2, <2>3
  <1>9. ServingOK'
    BY <1>4 DEF ServingOK
  <1> QED
    BY <1>7, <1>8, <1>9 DEF ClaimInv, OneClaimEach

\* Steps that leave the chain alone deliver nothing.
LEMMA ChainStill ==
  ASSUME CampaignInv, ProgramInv', UNCHANGED chain
  PROVE  /\ DeliveryInv' /\ atas' = atas
         /\ \A u \in Users, m \in 1 .. MaxRuns :
              Delivered(u, m)' => Delivered(u, m)
  <1>1. UNCHANGED vars /\ presale_mint' = presale_mint /\ atas' = atas
    BY DEF chain
  <1> QED
    BY <1>1, OutsidePaysNobody, PaysNobodyDelivery DEF CampaignInv, ClaimInv

\* A call that is refused or not confirmed: a claim that is in flight now was
\* due, and is due no more.
LEMMA BrokenOffKeepsClaims ==
  ASSUME CampaignInv, ProgramInv', NEW k \in 1 .. Last,
         Refused(k) \/ Unconfirmed(k)
  PROVE  ClaimInv'
  <1>1. BreaksOff(k) /\ AtCall(k) /\ UNCHANGED <<chain, run, mint, visiting>>
    BY DEF Refused, Unconfirmed, BreaksOffUnconfirmed
  <1>2. /\ DeliveryInv' /\ atas' = atas
        /\ \A u \in Users, m \in 1 .. MaxRuns :
             Delivered(u, m)' => Delivered(u, m)
    BY <1>1, ChainStill
  <1>3. step'[ClaimIt] = IF k = ClaimIt THEN 1 ELSE step[ClaimIt]
    BY <1>1, BreaksOffReturns, ReturnsOnDue DEF CampaignInv
  <1>4. \A u \in Users, m \in 1 .. MaxRuns :
          Due(u, m)' => Due(u, m) /\ k # ClaimIt
    BY <1>1, <1>3 DEF Due, visiting
  <1>5. ServingOK'
    BY <1>1, <1>3 DEF CampaignInv, ClaimInv, ServingOK, visiting
  <1>6. ASSUME NEW u \in Users, NEW m \in 1 .. MaxRuns,
               Pending(u, m)' => Pending(u, m)
        PROVE  OneClaim(u, m)'
    BY <1>1, <1>2, <1>4, <1>6, NothingNew DEF CampaignInv, ClaimInv
  <1>7. CASE Refused(k)
    <2>1. \A u \in Users, m \in 1 .. MaxRuns : Pending(u, m)' => Pending(u, m)
      BY <1>7 DEF Refused, Pending
    <2> QED
      BY <1>2, <1>5, <1>6, <2>1 DEF ClaimInv, OneClaimEach
  <1>8. CASE Unconfirmed(k)
    <2>1. /\ in_flight' = in_flight \cup {NextCall(k)}
          /\ mint # 0 /\ mint \in 1 .. MaxRuns
      BY <1>8 DEF Unconfirmed, Acceptable, CampaignInv, ScriptInv, TokensOK
    <2>2. ASSUME NEW u \in Users, NEW m \in 1 .. MaxRuns,
                 Pending(u, m)', ~Pending(u, m)
          PROVE  OneClaim(u, m)'
      <3>1. NextCall(k) = [op |-> "claimToken", u |-> u, mint |-> m]
        BY <2>1, <2>2 DEF Pending
      <3>2. k = ClaimIt
        BY <1>1, <2>1, <3>1, NextCallTyped DEF CampaignInv
      <3>3. /\ claiming \in Users /\ step[k] \in {1, 2}
            /\ step[k] = 1 => NextCall(k) = About("createAta", claiming)
            /\ step[k] = 2 => NextCall(k) = About("claimToken", claiming)
        BY <1>1, <2>1, <3>2, NextCallTyped DEF CampaignInv
      <3>4. step[k] = 2 /\ claiming = u /\ mint = m
        BY <3>1, <3>3 DEF About
      <3>5. Due(u, m)
        BY <3>2, <3>4 DEF Due
      <3>6. ~Delivered(u, m) /\ u \in atas
        BY <3>4, <3>5 DEF CampaignInv, ClaimInv, OneClaimEach, OneClaim
      <3>7. ~Delivered(u, m)' /\ ~Due(u, m)' /\ u \in atas'
        BY <1>2, <1>4, <3>2, <3>6
      <3> QED
        BY <3>7 DEF OneClaim
    <2> QED
      BY <1>2, <1>5, <1>6, <2>2 DEF ClaimInv, OneClaimEach
  <1> QED
    BY <1>7, <1>8

\* Steps of the script that send nothing.
LEMMA SilentKeepsClaims ==
  ASSUME CampaignInv, ProgramInv',
         \/ CreateToken \/ FetchAccounts \/ (\E u \in Users : VisitAccount(u))
         \/ AllVisited \/ ReadFails \/ GivesUp \/ StartAgain
  PROVE  ClaimInv'
  <1>1. InitializeIt \in 1 .. Last /\ ClaimIt \in 1 .. Last /\ InitializeIt # ClaimIt
    BY ListsTyped DEF Last, InitializeIt, ClaimIt
  <1>2. CASE CreateToken
    <2>1. UNCHANGED <<chain, visiting, in_flight>> /\ mint = 0 /\ mint' \in {0, run}
      BY <1>2 DEF CreateToken
    <2>2. step'[ClaimIt] = step[ClaimIt]
      BY <1>1, <1>2, ReturnsOnDue DEF CreateToken, progress, CampaignInv
    <2>3. step'[ClaimIt] # 2
      BY <2>1, <2>2 DEF CampaignInv, ClaimInv, ServingOK
    <2>4. /\ DeliveryInv' /\ atas' = atas
          /\ \A u \in Users, m \in 1 .. MaxRuns :
               Delivered(u, m)' => Delivered(u, m)
      BY <2>1, ChainStill
    <2>5. ASSUME NEW u \in Users, NEW m \in 1 .. MaxRuns
          PROVE  OneClaim(u, m)'
      <3>1. (Pending(u, m)' => Pending(u, m)) /\ ~Due(u, m)'
        BY <2>1, <2>3 DEF Pending, Due
      <3>2. CASE m = run
        <4>1. ~Pending(u, m)
          BY <2>1, <3>2
          DEF Pending, CampaignInv, ScriptInv, TokensOK, NothingOfLaterRuns
        <4>2. ~Delivered(u, m)
          BY <2>1, <3>2
          DEF Delivered, CampaignInv, ScriptInv, TokensOK, NothingOfLaterRuns
        <4> QED
          BY <2>4, <3>1, <4>1, <4>2 DEF OneClaim
      <3>3. CASE m # run
        BY <2>1, <2>4, <3>1, <3>3, NothingNew DEF CampaignInv, ClaimInv
      <3> QED
        BY <3>2, <3>3
    <2> QED
      BY <2>3, <2>4, <2>5 DEF ClaimInv, OneClaimEach, ServingOK
  <1>3. CASE StartAgain
    <2>1. UNCHANGED <<vars, presale_mint, in_flight>> /\ mint' = 0
      BY <1>3 DEF StartAgain
    <2>2. step'[ClaimIt] = 1
      BY <1>1, <1>3 DEF StartAgain, FirstStep
    <2>3. /\ DeliveryInv'
          /\ \A u \in Users, m \in 1 .. MaxRuns :
               Delivered(u, m)' => Delivered(u, m)
      BY <2>1, OutsidePaysNobody, PaysNobodyDelivery DEF CampaignInv, ClaimInv
    <2>4. ASSUME NEW u \in Users, NEW m \in 1 .. MaxRuns
          PROVE  OneClaim(u, m)'
      <3>1. (Pending(u, m)' => Pending(u, m)) /\ ~Due(u, m)' /\ mint' # m
        BY <2>1, <2>2 DEF Pending, Due
      <3> QED
        BY <2>3, <3>1, NothingNew DEF CampaignInv, ClaimInv
    <2> QED
      BY <2>2, <2>3, <2>4 DEF ClaimInv, OneClaimEach, ServingOK
  <1>4. CASE FetchAccounts \/ (\E u \in Users : VisitAccount(u)) \/ AllVisited
             \/ ReadFails \/ GivesUp
    <2>1. UNCHANGED <<chain, mint, in_flight>>
      BY <1>4 DEF FetchAccounts, VisitAccount, AllVisited, ReadFails, GivesUp
    <2>2. /\ step'[ClaimIt] = 2 => step[ClaimIt] = 2
          /\ step'[ClaimIt] = 2 => loop' = loop /\ claiming' = claiming
      <3>1. CASE FetchAccounts \/ \E u \in Users : VisitAccount(u)
        <4>1. loop # "serve" /\ step' = step
          BY <3>1 DEF FetchAccounts, VisitAccount, progress
        <4> QED
          BY <4>1 DEF CampaignInv, ClaimInv, ServingOK
      <3>2. CASE AllVisited
        BY <1>1, <3>2, ReturnsOnDue DEF AllVisited, CampaignInv
      <3>3. CASE ReadFails
        BY <1>1, <3>3, ReturnsOnDue DEF ReadFails, CampaignInv
      <3>4. CASE GivesUp
        BY <3>4 DEF GivesUp, visiting
      <3> QED
        BY <1>4, <3>1, <3>2, <3>3, <3>4
    <2>3. /\ DeliveryInv' /\ atas' = atas
          /\ \A u \in Users, m \in 1 .. MaxRuns :
               Delivered(u, m)' => Delivered(u, m)
      BY <2>1, ChainStill
    <2>4. ASSUME NEW u \in Users, NEW m \in 1 .. MaxRuns
          PROVE  OneClaim(u, m)'
      BY <2>1, <2>2, <2>3, NothingNew
      DEF CampaignInv, ClaimInv, Pending, Due
    <2>5. ServingOK'
      BY <2>1, <2>2 DEF CampaignInv, ClaimInv, ServingOK
    <2> QED
      BY <2>3, <2>4, <2>5 DEF ClaimInv, OneClaimEach
  <1> QED
    BY <1>2, <1>3, <1>4

\* A late transaction: a claim that lands late was in flight, so that it was
\* neither due nor delivered, and it is in flight no more.
LEMMA LandsLateKeepsClaims ==
  ASSUME CampaignInv, ProgramInv', NEW tx \in in_flight, LandsLate(tx)
  PROVE  ClaimInv'
  <1>1. /\ Lands(tx) /\ tx \in Tx /\ in_flight' = in_flight \ {tx}
        /\ UNCHANGED <<mint, step, loop, claiming>>
    BY DEF LandsLate, script, progress, visiting, CampaignInv, ScriptInv, TokensOK
  <1>2. atas \subseteq atas'
    BY <1>1 DEF Lands, CreatesAta
  <1>3. \A u \in Users, m \in 1 .. MaxRuns :
          tx = [op |-> "claimToken", u |-> u, mint |-> m] =>
            /\ Pending(u, m) /\ ~Due(u, m) /\ ~Delivered(u, m)
            /\ mint = m => u \in atas
    BY DEF Pending, CampaignInv, ClaimInv, OneClaimEach, OneClaim
  <1>4. tx.op = "claimToken" => ~Delivered(tx.u, tx.mint)
    <2>1. tx.op = "claimToken" =>
            /\ tx.u \in Users /\ tx.mint \in 1 .. MaxRuns
            /\ tx = [op |-> "claimToken", u |-> tx.u, mint |-> tx.mint]
      BY <1>1 DEF Tx
    <2> QED
      BY <1>3, <2>1
  <1>5. /\ DeliveryInv'
        /\ \A u \in Users, m \in 1 .. MaxRuns :
             Delivered(u, m)' =>
               \/ Delivered(u, m)
               \/ tx = [op |-> "claimToken", u |-> u, mint |-> m]
    BY <1>1, <1>4, LandsDelivers DEF CampaignInv, ClaimInv
  <1>6. ASSUME NEW u \in Users, NEW m \in 1 .. MaxRuns
        PROVE  OneClaim(u, m)'
    <2>1. /\ Pending(u, m)' =>
               /\ Pending(u, m)
               /\ tx # [op |-> "claimToken", u |-> u, mint |-> m]
          /\ Due(u, m)' <=> Due(u, m)
      BY <1>1 DEF Pending, Due
    <2>2. CASE tx = [op |-> "claimToken", u |-> u, mint |-> m]
      <3>1. ~Pending(u, m)' /\ ~Due(u, m)'
        BY <1>3, <2>1, <2>2
      <3>2. mint' = m => u \in atas'
        BY <1>1, <1>2, <1>3, <2>2
      <3> QED
        BY <3>1, <3>2 DEF OneClaim
    <2>3. CASE tx # [op |-> "claimToken", u |-> u, mint |-> m]
      <3>1. Delivered(u, m)' => Delivered(u, m)
        BY <1>5, <2>3
      <3> QED
        BY <1>1, <1>2, <2>1, <3>1, NothingNew DEF CampaignInv, ClaimInv
    <2> QED
      BY <2>2, <2>3
  <1>7. ServingOK'
    BY <1>1 DEF CampaignInv, ClaimInv, ServingOK
  <1> QED
    BY <1>5, <1>6, <1>7 DEF ClaimInv, OneClaimEach

\* Other steps beside the script.
LEMMA OutsideKeepsClaims ==
  ASSUME CampaignInv, ProgramInv',
         \/ \E tx \in in_flight : Expires(tx)
         \/ \E u \in Outsiders : OutsideStep(u)
         \/ \E u \in AtaOpeners : OpensAta(u)
         \/ ClockStep \/ UNCHANGED campaign_vars
  PROVE  ClaimInv'
  <1>1. /\ UNCHANGED <<presale_mint, script>>
        /\ in_flight' \subseteq in_flight /\ atas \subseteq atas'
    BY DEF Expires, OutsideStep, OpensAta, CreatesAta, ClockStep, campaign_vars,
           chain
  <1>2. \/ UNCHANGED vars \/ Tick
        \/ \E u \in Outsiders : \/ \E amount \in OutsideAmounts :
                                     BuyToken(u, amount)
                                \/ RefundToken(u)
    BY DEF Expires, OutsideStep, OpensAta, CreatesAta, ClockStep, campaign_vars,
           chain
  <1>3. /\ DeliveryInv'
        /\ \A u \in Users, m \in 1 .. MaxRuns :
             Delivered(u, m)' => Delivered(u, m)
    BY <1>1, <1>2, OutsidePaysNobody, PaysNobodyDelivery DEF CampaignInv, ClaimInv
  <1>4. UNCHANGED <<mint, step, loop, claiming>>
    BY <1>1 DEF script, progress, visiting
  <1>5. ASSUME NEW u \in Users, NEW m \in 1 .. MaxRuns
        PROVE  OneClaim(u, m)'
    BY <1>1, <1>3, <1>4, NothingNew DEF CampaignInv, ClaimInv, Pending, Due
  <1>6. ServingOK'
    BY <1>4 DEF CampaignInv, ClaimInv, ServingOK
  <1> QED
    BY <1>3, <1>5, <1>6 DEF ClaimInv, OneClaimEach

\* The program's invariants hold in every state of a campaign.
LEMMA ProgramInvariant == CampaignSpec => []ProgramInv
  <1>1. FundsInv /\ SaleInv => ProgramInv
    BY DEF ProgramInv
  <1> QED
    BY <1>1, CampaignInProgram, FundsInvariant, SaleInvariant, PTL

\* ClaimInv holds in every state of a campaign.
LEMMA ClaimInvariant == CampaignSpec => []ClaimInv
  <1>1. CampaignInit => ClaimInv
    <2> SUFFICES ASSUME CampaignInit
                 PROVE  ClaimInv
      OBVIOUS
    <2>1. Init /\ mint = 0 /\ presale_mint = 0 /\ in_flight = {}
      BY DEF CampaignInit
    <2>2. \A u \in Users : tokens[u] = 0 /\ user[u].user_buy_amount = 0
      BY <2>1, PresaleAssumption DEF Init, NewUser
    <2>3. DeliveryInv
      <3>1. DeliveredAtMostBought
        BY <2>2 DEF DeliveredAtMostBought
      <3>2. ~Initialized
        BY <2>1 DEF Init, Initialized
      <3> QED
        BY <2>1, <3>1, <3>2 DEF DeliveryInv
    <2>4. ClaimIt \in 1 .. Last
      BY ItsShape
    <2>5. step[ClaimIt] = 1
      BY <2>4 DEF CampaignInit, FirstStep
    <2> QED
      BY <2>1, <2>2, <2>3, <2>5
      DEF ClaimInv, OneClaimEach, OneClaim, Pending, Due, Delivered, ServingOK
  <1>2. /\ ScriptInv /\ ProgramInv /\ ProgramInv' /\ ClaimInv
        /\ [CampaignNext]_campaign_vars
        => ClaimInv'
    <2> SUFFICES ASSUME CampaignInv, ProgramInv', [CampaignNext]_campaign_vars
                 PROVE  ClaimInv'
      BY DEF CampaignInv
    <2>1. ASSUME NEW k \in 1 .. Last, Call(k)
          PROVE  ClaimInv'
      <3>1. CASE Confirmed(k) /\ k = ClaimIt
        <4>1. AtCall(ClaimIt) /\ mint # 0
          BY <3>1 DEF Confirmed
        <4>2. step[ClaimIt] \in 1 .. 2
          BY <3>1, <4>1, NextCallTyped DEF CampaignInv
        <4> QED
          BY <3>1, <4>2, AccountCreatedKeepsClaims, ClaimPaidKeepsClaims
      <3>2. CASE Confirmed(k) /\ k # ClaimIt
        BY <3>2, OtherConfirmedKeepsClaims
      <3>3. CASE Refused(k) \/ Unconfirmed(k)
        BY <3>3, BrokenOffKeepsClaims
      <3> QED
        BY <2>1, <3>1, <3>2, <3>3 DEF Call
    <2>2. CASE ScriptStep
      BY <2>1, <2>2, SilentKeepsClaims DEF ScriptStep
    <2>3. CASE GivesUp \/ StartAgain
      BY <2>3, SilentKeepsClaims
    <2>4. CASE \E tx \in in_flight : LandsLate(tx)
      BY <2>4, LandsLateKeepsClaims
    <2> QED
      BY <2>2, <2>3, <2>4, OutsideKeepsClaims DEF CampaignNext
  <1> QED
    BY <1>1, <1>2, ScriptInvariant, ProgramInvariant, PTL DEF CampaignSpec

\* Theorem: no wallet ever receives more tokens than it bought, in any run of
\* the script.
THEOREM ClaimsAreBounded == CampaignSpec => []DeliveredAtMostBought
  <1>1. ClaimInv => DeliveredAtMostBought
    BY DEF ClaimInv, DeliveryInv
  <1> QED
    BY <1>1, ClaimInvariant, PTL
=============================================================================
