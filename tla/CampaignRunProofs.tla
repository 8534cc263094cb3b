--------------------------- MODULE CampaignRunProofs ---------------------------
(***************************************************************************)
(* What the runs of the script come to: the team is paid at most its share *)
(* per run, a run in which no function failed has served everybody, and    *)
(* the presale is settled by what was sold.                                *)
(* Proofs for every list of buyers, wallets and purchases, any number of   *)
(* runs, and whatever is lost, late or done by the buyers themselves.      *)
(***************************************************************************)
EXTENDS CampaignClaimProofs, PresaleTotalsProofs

-----------------------------------------------------------------------------
(* What the program's steps do to the terms of the sale and to the team *)

\* The fields of the presale that decide what the team is due.
SameTerms ==
  /\ presale'.is_cancelled = presale.is_cancelled
  /\ presale'.is_hardcapped = presale.is_hardcapped
  /\ presale'.is_softcapped = presale.is_softcapped
  /\ presale'.total_sol_amount = presale.total_sol_amount
  /\ presale'.team_percent = presale.team_percent
  /\ presale'.end_time = presale.end_time

\* Division rounds a larger amount to no less.
LEMMA QuotientMonotone ==
  ASSUME NEW n \in Nat, NEW m \in Nat, n <= m, NEW d \in Nat \ {0}
  PROVE  n \div d <= m \div d
  <1>1. n \div d \in Nat /\ m \div d \in Nat
    OBVIOUS
  <1>2. d * (n \div d) <= n /\ m < d * (m \div d) + d
    OBVIOUS
  <1> DEFINE q == n \div d
             r == m \div d
  <1>3. d * q < d * r + d
    BY <1>1, <1>2
  <1> HIDE DEF q, r
  <1>4. q \in Nat /\ r \in Nat
    BY <1>1 DEF q, r
  <1>5. ASSUME r + 1 <= q
        PROVE  FALSE
    <2>1. d * (r + 1) <= d * q /\ d * (r + 1) = d * r + d
      BY <1>4, <1>5
    <2> QED
      BY <1>3, <1>4, <2>1, d * q \in Int, d * r \in Int
  <1>6. q <= r
    BY <1>4, <1>5
  <1> QED
    BY <1>6 DEF q, r

\* A share of more is no less.
LEMMA ShareMonotone ==
  ASSUME NEW whole \in Nat, NEW more \in Nat, NEW part \in Nat, whole <= more
  PROVE  /\ Share(whole, part) \in Nat /\ Share(more, part) \in Nat
         /\ Share(whole, part) <= Share(more, part)
  <1>1. whole * part \in Nat /\ more * part \in Nat /\ whole * part <= more * part
    OBVIOUS
  <1> QED
    BY <1>1, QuotientMonotone, ShareBounds DEF Share, BasisPoints

\* The team's balance and its due are numbers.
LEMMA TeamTyped ==
  ASSUME TypeOK
  PROVE  /\ lamports[Team] \in Nat /\ TeamDue \in Nat
         /\ presale.total_sol_amount \in Nat /\ presale.team_percent \in Nat
         /\ presale.is_cancelled \in Flag /\ presale.is_hardcapped \in Flag
         /\ presale.is_softcapped \in Flag
  <1>1. lamports[Team] \in Nat
    BY DEF TypeOK, Wallets
  <1>2. presale.total_sol_amount \in Nat /\ presale.team_percent \in Nat
    BY RuntimeAssumption DEF TypeOK, PresaleAccount, U64, U32
  <1>3. TeamDue \in Nat
    BY <1>2, ShareBounds DEF TeamDue
  <1> QED
    BY <1>1, <1>2, <1>3 DEF TypeOK, PresaleAccount

\* No wallet is the team's.
LEMMA TeamApart == Team \notin Users /\ Team # Admin
  BY PresaleAssumption, CampaignAssumption

\* initialize, finalize and buy_token apart, no instruction the script calls
\* changes the terms of the sale or pays the team.
LEMMA OthersKeepTerms ==
  ASSUME TypeOK, NEW tx \in Tx, Lands(tx),
         tx.op \notin {"initialize", "finalize", "buyToken"}
  PROVE  SameTerms /\ lamports'[Team] = lamports[Team]
  <1>1. CASE tx.op = "createAta"
    BY <1>1 DEF Lands, OnPresale, CreatesAta, vars, SameTerms
  <1>2. CASE tx.op # "createAta"
    <2>1. OnPresale(tx)
      BY <1>2 DEF Lands
    <2>2. presale \in PresaleAccount /\ lamports \in [Wallets -> Nat]
      BY DEF TypeOK
    <2>3. CASE tx.op = "depositToken"
      BY <2>1, <2>3 DEF OnPresale, DepositToken, SameTerms
    <2>4. CASE tx.op = "addWhitelist"
      BY <2>1, <2>2, <2>4 DEF OnPresale, AddWhitelist, SameTerms, PresaleAccount
    <2>5. CASE tx.op = "removeWhitelist"
      BY <2>1, <2>2, <2>5
      DEF OnPresale, RemoveWhitelist, SameTerms, PresaleAccount
    <2>6. CASE tx.op = "claimToken"
      BY <2>1, <2>6 DEF OnPresale, ClaimToken, SameTerms
    <2>7. CASE tx.op = "withdrawToken"
      BY <2>1, <2>2, <2>7
      DEF OnPresale, WithdrawToken, SameTerms, PresaleAccount
    <2>8. CASE tx.op = "withdraw"
      BY <2>1, <2>2, <2>8, TeamApart
      DEF OnPresale, Withdraw, SameTerms, Wallets
    <2> QED
      BY <1>2, <2>3, <2>4, <2>5, <2>6, <2>7, <2>8 DEF Tx
  <1> QED
    BY <1>1, <1>2

\* A purchase raises what was raised, sets caps, and pays no team.
LEMMA BuyOnTerms ==
  ASSUME TypeOK, NEW u \in Users, NEW amount \in BuyAmounts, BuyToken(u, amount)
  PROVE  /\ lamports'[Team] = lamports[Team]
         /\ presale'.is_cancelled = presale.is_cancelled
         /\ presale'.is_hardcapped \in {presale.is_hardcapped, 1}
         /\ presale'.is_softcapped \in {presale.is_softcapped, 1}
         /\ presale'.total_sol_amount \in Nat
         /\ presale'.total_sol_amount >= presale.total_sol_amount
         /\ presale'.team_percent = presale.team_percent
         /\ presale'.end_time = presale.end_time
  <1>1. PICK bought, sol \in U64, joined \in {0, 1}, sells_out \in BOOLEAN :
          /\ lamports' = [lamports EXCEPT ![u] = @ - sol]
          /\ presale' = Sold(presale, joined, bought, sol, sells_out)
    BY BuyFacts
  <1>2. sol \in Nat /\ presale \in PresaleAccount
    BY RuntimeAssumption DEF U64, TypeOK
  <1>3. lamports'[Team] = lamports[Team]
    BY <1>1, TeamApart DEF TypeOK, Wallets
  <1>4. presale.total_sol_amount \in Nat
    BY TeamTyped
  <1>5. presale'.total_sol_amount = presale.total_sol_amount + sol
    BY <1>1, <1>2 DEF Sold, PresaleAccount
  <1> QED
    BY <1>1, <1>2, <1>3, <1>4, <1>5 DEF Sold, PresaleAccount

\* A sold-out sale goes on selling nothing for nothing.
LEMMA SoldOutBuy ==
  ASSUME SaleInv, presale.is_hardcapped = 1,
         NEW u \in Users, NEW amount \in BuyAmounts, BuyToken(u, amount)
  PROVE  /\ SameTerms
         /\ lamports'[Team] = lamports[Team]
         /\ \A w \in Users :
              /\ user'[w].is_whitelisted = user[w].is_whitelisted
              /\ user'[w].user_buy_amount = user[w].user_buy_amount
         /\ UNCHANGED <<now, escrow, vault, tokens>>
  <1>1. TypeOK /\ presale.total_token_remained = 0
    BY DEF SaleInv, CapsAgreeWithSales
  <1>2. PICK bought, sol \in U64, joined \in {0, 1}, sells_out \in BOOLEAN :
          /\ bought = TokensToAllocate(0, presale.presale_rate, amount)
          /\ sol = SolToTransfer(0, presale.presale_rate, amount)
          /\ sells_out = SellsOut(0, presale.presale_rate, amount)
          /\ MayBuy(u, amount, sells_out, sol)
          /\ escrow' = Credited(escrow, sol)
          /\ user' = [user EXCEPT ![u] = Purchased(@, bought, sol)]
          /\ presale' = Sold(presale, joined, bought, sol, sells_out)
          /\ UNCHANGED <<now, vault, tokens>>
    BY <1>1, BuyFacts
  <1>3. bought = 0 /\ sol = 0
    <2>1. presale.presale_rate \in Nat /\ amount \in Nat
      BY <1>1, RuntimeAssumption, PresaleAssumption DEF TypeOK, PresaleAccount, U64
    <2>2. SellsOut(0, presale.presale_rate, amount)
      BY <2>1, presale.presale_rate * amount \in Nat DEF SellsOut
    <2>3. presale.presale_rate # 0
      BY <1>2, <2>2 DEF MayBuy
    <2>4. 0 \div presale.presale_rate = 0
      BY <2>1, <2>3, QuotientBounds
    <2> QED
      BY <1>2, <2>2, <2>4 DEF TokensToAllocate, SolToTransfer
  <1>4. escrow' = escrow
    BY <1>2, <1>3 DEF Credited
  <1>5. \A w \in Users :
          /\ user'[w].is_whitelisted = user[w].is_whitelisted
          /\ user'[w].user_buy_amount = user[w].user_buy_amount
    BY <1>1, <1>2, <1>3 DEF TypeOK, UserAccount, Purchased, U64
  <1>6. presale \in PresaleAccount
    BY <1>1 DEF TypeOK
  <1>7. presale'.total_sol_amount = presale.total_sol_amount
    <2>1. presale.total_sol_amount \in Nat
      BY <1>1, TeamTyped
    <2> QED
      BY <1>2, <1>3, <1>6, <2>1 DEF Sold, PresaleAccount
  <1>8. presale'.is_softcapped = presale.is_softcapped
    <2>1. /\ presale.soft_cap \in Nat
          /\ presale'.is_softcapped
               = IF 0 - 0 < presale.soft_cap THEN 1 ELSE presale.is_softcapped
      BY <1>1, <1>2, <1>3, <1>6, RuntimeAssumption DEF Sold, PresaleAccount, U64
    <2> QED
      BY <2>1 DEF SaleInv, CapsAgreeWithSales
  <1>9. presale'.is_hardcapped = presale.is_hardcapped
    BY <1>2, <1>6 DEF Sold, PresaleAccount
  <1> QED
    BY <1>1, <1>2, <1>4, <1>5, <1>7, <1>8, <1>9, BuyOnTerms DEF SameTerms

-----------------------------------------------------------------------------
(* Which functions run *)

\* When a function that was called returns, mocha still waits for the last one
\* it called, and finalize is to be called only if it was before and this was
\* another function.
LEMMA ReturnsOnRunning ==
  ASSUME ScriptInv, RunningOK, NEW k \in running, Passes(k) \/ Throws(k)
  PROVE  /\ \A j \in running' : j <= current'
         /\ current' <= Last => current' \in running'
         /\ current <= current'
         /\ FinalizeToCall' => FinalizeToCall /\ k # FinalizeIt
  <1>1. /\ current' = IF k = current THEN k + 1 ELSE current
        /\ running' = (running \ {k}) \cup ({current'} \cap 1 .. Last)
    BY DEF Passes, Throws, Returns
  <1>2. /\ Last \in Nat /\ FinalizeIt \in 1 .. Last
        /\ current \in 1 .. Last + 1 /\ running \subseteq 1 .. Last
        /\ \A j \in running : j <= current
        /\ current <= Last => current \in running
    BY CallsTyped, OpsAre
    DEF ScriptInv, ProgressOK, RunningOK
  <1>3. current' \in Nat /\ current <= current' /\ 1 <= current'
    BY <1>1, <1>2
  <1>4. \A j \in running' : j <= current'
    BY <1>1, <1>2, <1>3
  <1>5. current' <= Last => current' \in running'
    BY <1>1, <1>2, <1>3
  <1>6. ASSUME FinalizeToCall'
        PROVE  FinalizeToCall /\ k # FinalizeIt
    <2>1. current' < FinalizeIt \/ FinalizeIt \in running'
      BY <1>6 DEF FinalizeToCall, FinalizeIt, Last
    <2> QED
      BY <1>1, <1>2, <1>3, <2>1 DEF FinalizeToCall
  <1> QED
    BY <1>3, <1>4, <1>5, <1>6

\* The claim function starts after every function before it has.
LEMMA ClaimsComeLast ==
  /\ Last \in Nat /\ InitializeIt = 1 /\ 1 \in 1 .. Last
  /\ InitializeIt < FinalizeIt /\ FinalizeIt < ClaimIt /\ ClaimIt < Last
  /\ FinalizeIt = ClaimIt - 1 /\ ClaimIt = Last - 2
  /\ LastPurchaseIt < FinalizeIt /\ LastPurchaseIt # InitializeIt
  BY ListsTyped DEF InitializeIt, LastPurchaseIt, FinalizeIt, ClaimIt, Last

\* Steps of the script keep RunningOK, and finalize is to be called only if it
\* was before, in the same run.
LEMMA ScriptKeepsRunning ==
  ASSUME ScriptInv, RunningOK,
         \/ \E k \in 1 .. Last : Call(k)
         \/ CreateToken \/ FetchAccounts \/ (\E u \in Users : VisitAccount(u))
         \/ AllVisited \/ ReadFails \/ GivesUp
  PROVE  RunningOK' /\ run' = run /\ (FinalizeToCall' => FinalizeToCall)
  <1>1. /\ Last \in Nat /\ ClaimIt \in Nat /\ FinalizeIt \in 1 .. Last
        /\ current \in 1 .. Last + 1 /\ running \subseteq 1 .. Last
        /\ \A k \in running : k <= current
        /\ InitializeIt = 1
    BY ClaimsComeLast, CallsTyped, OpsAre
    DEF ScriptInv, ProgressOK, RunningOK
  <1>2. ASSUME progress' = progress, run' = run,
               ClaimIt \in running \/ loop' = loop
        PROVE  RunningOK' /\ run' = run /\ (FinalizeToCall' => FinalizeToCall)
    <2>1. current' = current /\ running' = running
      BY <1>2 DEF progress
    <2>2. current' < ClaimIt => loop' = "fetch"
      BY <1>1, <1>2, <2>1 DEF RunningOK
    <2> QED
      BY <1>2, <2>1, <2>2 DEF RunningOK, FinalizeToCall, ClaimIt, FinalizeIt, Last
  <1>3. ASSUME NEW k \in running, Passes(k) \/ Throws(k), run' = run,
               loop' = loop
        PROVE  RunningOK' /\ run' = run /\ (FinalizeToCall' => FinalizeToCall)
    <2>1. /\ \A j \in running' : j <= current'
          /\ current' <= Last => current' \in running'
          /\ current <= current'
          /\ FinalizeToCall' => FinalizeToCall
      BY <1>3, ReturnsOnRunning
    <2>2. current' \in Nat
      BY <1>1, <1>3 DEF Passes, Throws, Returns
    <2>3. current' < ClaimIt => loop' = "fetch"
      BY <1>1, <1>3, <2>1, <2>2 DEF RunningOK
    <2> QED
      BY <1>3, <2>1, <2>3 DEF RunningOK, ClaimIt, Last
  <1>4. ASSUME NEW k \in 1 .. Last, Call(k)
        PROVE  RunningOK' /\ run' = run /\ (FinalizeToCall' => FinalizeToCall)
    <2>1. k \in running /\ run' = run
      BY <1>4 DEF Call, Confirmed, Refused, Unconfirmed, AtCall
    <2>2. CASE Confirmed(k)
      <3>1. CASE NextStep(k)
        <4>1. current' = current /\ running' = running /\ loop' = loop
          BY <3>1 DEF NextStep, visiting
        <4> QED
          BY <2>1, <4>1 DEF RunningOK, FinalizeToCall, ClaimIt, FinalizeIt, Last
      <3>2. CASE NextAccount(k)
        <4>1. current' = current /\ running' = running /\ k = ClaimIt
          BY <3>2 DEF NextAccount
        <4>2. ~ (current' < ClaimIt)
          BY <1>1, <2>1, <4>1
        <4> QED
          BY <2>1, <4>1, <4>2
          DEF RunningOK, FinalizeToCall, ClaimIt, FinalizeIt, Last
      <3>3. CASE LastCallDone(k)
        BY <1>3, <2>1, <3>3 DEF LastCallDone, visiting
      <3> QED
        BY <2>2, <3>1, <3>2, <3>3 DEF Confirmed
    <2>3. CASE Refused(k) \/ Unconfirmed(k)
      <3>1. BreaksOff(k) /\ loop' = loop
        BY <2>3 DEF Refused, Unconfirmed, BreaksOffUnconfirmed, visiting
      <3> QED
        BY <1>3, <2>1, <3>1, BreaksOffReturns
    <2> QED
      BY <1>4, <2>2, <2>3 DEF Call
  <1>5. CASE CreateToken
    <2>1. InitializeIt \in running /\ run' = run /\ loop' = loop
      BY <1>5 DEF CreateToken, visiting
    <2>2. progress' = progress \/ Throws(InitializeIt)
      BY <1>5 DEF CreateToken, progress
    <2> QED
      BY <1>2, <1>3, <2>1, <2>2
  <1>6. CASE FetchAccounts \/ \E u \in Users : VisitAccount(u)
    BY <1>2, <1>6 DEF FetchAccounts, VisitAccount, progress
  <1>7. CASE AllVisited \/ ReadFails
    BY <1>3, <1>7 DEF AllVisited, ReadFails, visiting
  <1>8. CASE GivesUp
    <2>1. /\ current \in running /\ current' = current + 1
          /\ running' = running \cup ({current + 1} \cap 1 .. Last)
          /\ run' = run /\ loop' = loop
      BY <1>8 DEF GivesUp, visiting
    <2>2. current' < ClaimIt => loop' = "fetch"
      BY <1>1, <2>1 DEF RunningOK
    <2>3. /\ \A k \in running' : k <= current'
          /\ current' <= Last => current' \in running'
      BY <1>1, <2>1
    <2>4. current' < FinalizeIt \/ FinalizeIt \in running' => FinalizeToCall
      BY <1>1, <2>1 DEF FinalizeToCall
    <2> QED
      BY <2>1, <2>2, <2>3, <2>4
      DEF RunningOK, FinalizeToCall, ClaimIt, FinalizeIt, Last
  <1> QED
    BY <1>4, <1>5, <1>6, <1>7, <1>8

\* RunningOK holds in every state of a campaign.
LEMMA RunningInvariant == CampaignSpec => []RunningOK
  <1>1. CampaignInit => RunningOK
    BY ClaimsComeLast DEF CampaignInit, RunningOK
  <1>2. ScriptInv /\ RunningOK /\ [CampaignNext]_campaign_vars => RunningOK'
    <2> SUFFICES ASSUME ScriptInv, RunningOK, [CampaignNext]_campaign_vars
                 PROVE  RunningOK'
      OBVIOUS
    <2>1. CASE ScriptStep \/ GivesUp
      BY <2>1, ScriptKeepsRunning DEF ScriptStep
    <2>2. CASE StartAgain
      BY <2>2, ClaimsComeLast DEF StartAgain, RunningOK, ClaimIt, Last
    <2>3. CASE UNCHANGED script
      BY <2>3 DEF script, progress, visiting, RunningOK, ClaimIt, Last
    <2> QED
      BY <2>1, <2>2, <2>3
      DEF CampaignNext, LandsLate, Expires, OutsideStep, OpensAta, ClockStep,
          campaign_vars
  <1> QED
    BY <1>1, <1>2, ScriptInvariant, PTL DEF CampaignSpec

-----------------------------------------------------------------------------
(* The team is paid at most its share per run *)

\* While nobody could have been paid the terms do not matter; afterwards they
\* only move in the team's favour.
LEMMA TermsOnlyGrow ==
  ASSUME TypeOK, PaidForGood, lamports'[Team] = lamports[Team],
         lamports[Team] > 0 =>
           /\ presale'.is_cancelled = presale.is_cancelled
           /\ presale'.is_hardcapped \in {presale.is_hardcapped, 1}
           /\ presale'.is_softcapped \in {presale.is_softcapped, 1}
           /\ presale'.total_sol_amount \in Nat
           /\ presale'.total_sol_amount >= presale.total_sol_amount
           /\ presale'.team_percent = presale.team_percent
  PROVE  PaidForGood' /\ (lamports[Team] > 0 => TeamDue <= TeamDue')
  <1>1. PaidForGood'
    BY DEF PaidForGood
  <1>2. ASSUME lamports[Team] > 0
        PROVE  TeamDue <= TeamDue'
    BY <1>2, TeamTyped, ShareMonotone DEF TeamDue
  <1> QED
    BY <1>1, <1>2

\* The same terms keep it, whatever they are.
LEMMA SameTermsKept ==
  ASSUME TypeOK, PaidForGood, SameTerms, lamports'[Team] = lamports[Team]
  PROVE  PaidForGood' /\ (lamports[Team] > 0 => TeamDue <= TeamDue')
  BY TermsOnlyGrow, TeamTyped DEF SameTerms

\* Neither do a purchase and a refund.
LEMMA BuyersOnTeam ==
  ASSUME ProgramInv, PaidForGood, NEW u \in Users,
         (\E amount \in BuyAmounts : BuyToken(u, amount)) \/ RefundToken(u)
  PROVE  /\ lamports'[Team] = lamports[Team]
         /\ PaidForGood' /\ (lamports[Team] > 0 => TeamDue <= TeamDue')
  <1>1. TypeOK
    BY DEF ProgramInv, FundsInv
  <1>2. CASE \E amount \in BuyAmounts : BuyToken(u, amount)
    BY <1>1, <1>2, BuyOnTerms, TermsOnlyGrow
  <1>3. CASE RefundToken(u)
    <2>1. lamports'[Team] = lamports[Team]
      BY <1>1, <1>3, TeamApart DEF RefundToken, TypeOK, Wallets
    <2>2. ~ (lamports[Team] > 0)
      BY <1>3 DEF RefundToken, MayRefund, PaidForGood
    <2> QED
      BY <1>1, <2>1, <2>2, TermsOnlyGrow
  <1> QED
    BY <1>2, <1>3

\* finalize without force pays the team its due, when a cap is reached.
LEMMA FinalizeOnTeam ==
  ASSUME TypeOK, PaidForGood, Finalize(Admin, 0)
  PROVE  /\ lamports'[Team] <= lamports[Team] + TeamDue'
         /\ PaidForGood' /\ TeamDue' = TeamDue
  <1>1. /\ presale \in PresaleAccount /\ TeamDue \in Nat
        /\ lamports[Team] \in Nat /\ lamports \in [Wallets -> Nat]
        /\ presale.is_cancelled \in Flag /\ presale.is_hardcapped \in Flag
        /\ presale.is_softcapped \in Flag
    BY TeamTyped DEF TypeOK
  <1>2. CASE /\ CancelledByFinalize(FALSE) # 0 /\ lamports' = lamports
             /\ presale' = [presale EXCEPT !.is_cancelled
                                             = CancelledByFinalize(FALSE)]
    <2>1. TeamDue' = TeamDue
      BY <1>1, <1>2 DEF TeamDue, PresaleAccount
    <2>2. ~ (lamports[Team] > 0)
      BY <1>2 DEF PaidForGood, CancelledByFinalize
    <2>3. lamports'[Team] = lamports[Team]
      BY <1>2
    <2>4. PaidForGood'
      BY <2>2, <2>3 DEF PaidForGood
    <2>5. lamports'[Team] <= lamports[Team] + TeamDue'
      BY <1>1, <2>1, <2>3
    <2> QED
      BY <2>1, <2>4, <2>5
  <1>3. CASE /\ CancelledByFinalize(FALSE) = 0
             /\ lamports' = [lamports EXCEPT ![Team] = @ + TeamDue]
             /\ presale' = [presale EXCEPT !.is_finalized = 1]
    <2>1. SameTerms
      BY <1>1, <1>3 DEF SameTerms, PresaleAccount
    <2>2. TeamDue' = TeamDue
      BY <2>1 DEF TeamDue, SameTerms
    <2>3. lamports'[Team] = lamports[Team] + TeamDue
      BY <1>1, <1>3 DEF Wallets
    <2>4. /\ presale.is_cancelled = 0
          /\ presale.is_softcapped = 1 \/ presale.is_hardcapped = 1
      BY <1>1, <1>3 DEF CancelledByFinalize, Flag
    <2> QED
      BY <1>1, <2>1, <2>2, <2>3, <2>4 DEF PaidForGood, SameTerms
  <1> QED
    BY <1>2, <1>3 DEF Finalize, TeamDue

\* What a transaction that lands does to the team.
LEMMA LandsOnTeam ==
  ASSUME ProgramInv, PaidForGood, NEW tx \in Tx, Lands(tx)
  PROVE  /\ tx.op # "finalize" => lamports'[Team] = lamports[Team]
         /\ tx.op = "finalize" => lamports'[Team] <= lamports[Team] + TeamDue'
         /\ PaidForGood' /\ (lamports[Team] > 0 => TeamDue <= TeamDue')
  <1>1. TypeOK
    BY DEF ProgramInv, FundsInv
  <1>2. CASE tx.op = "initialize"
    <2>1. ~Initialized /\ lamports' = lamports
      BY <1>2 DEF Lands, OnPresale, Initialize, Initialized
    <2>2. lamports[Team] = 0
      BY <2>1 DEF ProgramInv, FundsInv, NothingBeforeInitialize
    <2> QED
      BY <1>1, <1>2, <2>1, <2>2, TermsOnlyGrow
  <1>3. CASE tx.op = "finalize"
    <2>1. Finalize(Admin, 0)
      BY <1>3 DEF Lands, OnPresale
    <2> QED
      BY <1>1, <1>3, <2>1, FinalizeOnTeam, TeamTyped
  <1>4. CASE tx.op = "buyToken"
    <2>1. tx.u \in Users /\ tx.amount \in BuyAmounts /\ BuyToken(tx.u, tx.amount)
      BY <1>4 DEF Lands, OnPresale, Tx
    <2> QED
      BY <1>4, <2>1, BuyersOnTeam
  <1>5. CASE tx.op \notin {"initialize", "finalize", "buyToken"}
    BY <1>1, <1>5, OthersKeepTerms, SameTermsKept
  <1> QED
    BY <1>2, <1>3, <1>4, <1>5

\* The runs are finitely many.
LEMMA SpentFinite ==
  ASSUME ScriptInv, NEW S, S \subseteq 1 .. run
  PROVE  IsFiniteSet(S) /\ Cardinality(S) \in Nat /\ Cardinality(S) <= run
  <1>1. run \in Nat
    BY CampaignAssumption DEF ScriptInv, TokensOK
  <1>2. IsFiniteSet(1 .. run) /\ Cardinality(1 .. run) = run
    <2>1. 1 \in Int /\ run \in Int
      BY <1>1
    <2> QED
      BY <1>1, <2>1, FS_Interval
  <1> QED
    BY <1>2, FS_Subset, FS_CardinalityType

\* Numbers of shares.
LEMMA SharesGrow ==
  ASSUME NEW paid \in Nat, NEW c \in Nat, NEW d \in Nat, NEW due \in Nat,
         NEW now_due \in Nat, paid <= c * due, c <= d, paid > 0 => due <= now_due
  PROVE  paid <= d * now_due
  <1>1. CASE paid = 0
    BY <1>1, d * now_due \in Nat
  <1>2. CASE due <= now_due
    <2>1. c * due <= c * now_due /\ c * now_due <= d * now_due
      BY <1>2
    <2> QED
      BY <2>1, c * due \in Nat, c * now_due \in Nat, d * now_due \in Nat
  <1> QED
    BY <1>1, <1>2

LEMMA OneShareMore ==
  ASSUME NEW paid \in Nat, NEW c \in Nat, NEW d \in Nat, NEW due \in Nat,
         NEW now_due \in Nat, NEW now_paid \in Nat,
         paid <= c * due, c + 1 <= d, paid > 0 => due <= now_due,
         now_paid <= paid + now_due
  PROVE  now_paid <= d * now_due
  <1>1. paid <= c * now_due
    BY SharesGrow
  <1>2. c * now_due + now_due = (c + 1) * now_due
    OBVIOUS
  <1>3. (c + 1) * now_due <= d * now_due
    OBVIOUS
  <1> QED
    BY <1>1, <1>2, <1>3, c * now_due \in Nat, d * now_due \in Nat,
       (c + 1) * now_due \in Nat

\* What was paid for the runs spent is still paid for them, and at most one due
\* more when another run is spent.
LEMMA PaidForSpent ==
  ASSUME ScriptInv, ScriptInv', TypeOK, TypeOK',
         lamports[Team] <= Cardinality(Spent) * TeamDue,
         lamports[Team] > 0 => TeamDue <= TeamDue', Spent \subseteq Spent',
         \/ lamports'[Team] = lamports[Team]
         \/ /\ lamports'[Team] <= lamports[Team] + TeamDue'
            /\ \E m \in Spent' : m \notin Spent
  PROVE  lamports'[Team] <= Cardinality(Spent') * TeamDue'
  <1>1. /\ lamports[Team] \in Nat /\ TeamDue \in Nat
        /\ lamports'[Team] \in Nat /\ TeamDue' \in Nat
    <2>1. lamports'[Team] \in Nat
      BY DEF TypeOK, Wallets
    <2>2. presale'.total_sol_amount \in Nat /\ presale'.team_percent \in Nat
      BY RuntimeAssumption DEF TypeOK, PresaleAccount, U64, U32
    <2>3. TeamDue' \in Nat
      BY <2>2, ShareBounds DEF TeamDue
    <2> QED
      BY <2>1, <2>3, TeamTyped
  <1>2. IsFiniteSet(Spent) /\ Cardinality(Spent) \in Nat
    BY SpentFinite DEF Spent
  <1>3. IsFiniteSet(Spent') /\ Cardinality(Spent') \in Nat
    <2>1. Spent' \subseteq 1 .. run' /\ run' \in Nat
      BY CampaignAssumption DEF Spent, ScriptInv, TokensOK
    <2>2. IsFiniteSet(1 .. run')
      BY <2>1, FS_Interval
    <2> QED
      BY <2>1, <2>2, FS_Subset, FS_CardinalityType
  <1>4. Cardinality(Spent) <= Cardinality(Spent')
    BY <1>3, FS_Subset
  <1>5. CASE lamports'[Team] = lamports[Team]
    BY <1>1, <1>2, <1>3, <1>4, <1>5, SharesGrow
  <1>6. CASE /\ lamports'[Team] <= lamports[Team] + TeamDue'
             /\ \E m \in Spent' : m \notin Spent
    <2>1. Cardinality(Spent) + 1 <= Cardinality(Spent')
      <3>1. Cardinality(Spent) # Cardinality(Spent')
        BY <1>3, <1>6, FS_Subset
      <3> QED
        BY <1>2, <1>3, <1>4, <3>1
    <2>2. lamports'[Team] <= lamports[Team] + TeamDue'
      BY <1>6
    <2> DEFINE paid == lamports[Team]
               due == TeamDue
               count == Cardinality(Spent)
               now_paid == lamports'[Team]
               now_due == TeamDue'
               now_count == Cardinality(Spent')
    <2>3. /\ paid \in Nat /\ due \in Nat /\ count \in Nat
          /\ now_paid \in Nat /\ now_due \in Nat /\ now_count \in Nat
          /\ paid <= count * due /\ (paid > 0 => due <= now_due)
          /\ count + 1 <= now_count /\ now_paid <= paid + now_due
      BY <1>1, <1>2, <1>3, <2>1, <2>2
    <2> HIDE DEF paid, due, count, now_paid, now_due, now_count
    <2>4. now_paid <= now_count * now_due
      BY <2>3, OneShareMore
    <2> QED
      BY <2>4 DEF now_paid, now_due, now_count
  <1> QED
    BY <1>5, <1>6

\* A step within a run that sends finalize at most when it was to be called,
\* and pays the team at most for a finalize that was outstanding and is spent.
LEMMA TeamStep ==
  ASSUME ScriptInv, ScriptInv', ProgramInv, ProgramInv', TeamInv, run' = run,
         FinalizeToCall' => FinalizeToCall, PaidForGood',
         lamports[Team] > 0 => TeamDue <= TeamDue',
         \A m \in 1 .. run : FinalizeOf(m) \in in_flight' =>
           \/ FinalizeOf(m) \in in_flight
           \/ m = run /\ FinalizeToCall /\ ~FinalizeToCall',
         \/ lamports'[Team] = lamports[Team]
         \/ /\ lamports'[Team] <= lamports[Team] + TeamDue'
            /\ \E m \in 1 .. run :
                 /\ FinalizeOf(m) \in in_flight \/ (m = run /\ FinalizeToCall)
                 /\ FinalizeOf(m) \notin in_flight'
                 /\ m = run => ~FinalizeToCall'
  PROVE  TeamInv'
  <1>1. run \in 1 .. run
    BY CampaignAssumption DEF ScriptInv, TokensOK
  <1>2. FinalizeToCall' => FinalizeOf(run') \notin in_flight'
    BY <1>1 DEF TeamInv
  <1>3. \A m : m \in Spent <=> /\ m \in 1 .. run /\ FinalizeOf(m) \notin in_flight
                               /\ m = run => ~FinalizeToCall
    BY DEF Spent
  <1>4. \A m : m \in Spent' <=>
                 /\ m \in 1 .. run /\ FinalizeOf(m) \notin in_flight'
                 /\ m = run => ~FinalizeToCall'
    BY DEF Spent, FinalizeOf
  <1>5. Spent \subseteq Spent'
    BY <1>3, <1>4
  <1>6. \/ lamports'[Team] = lamports[Team]
        \/ /\ lamports'[Team] <= lamports[Team] + TeamDue'
           /\ \E m \in Spent' : m \notin Spent
    BY <1>3, <1>4
  <1>7. lamports'[Team] <= Cardinality(Spent') * TeamDue'
    BY <1>5, <1>6, PaidForSpent DEF TeamInv, ProgramInv, FundsInv
  <1> QED
    BY <1>2, <1>7 DEF TeamInv

\* The finalize transactions that are anywhere are of this run or of one before.
LEMMA FinalizesAre ==
  ASSUME ScriptInv, NEW tx \in Tx, tx.op = "finalize",
         tx \in in_flight \/ tx.mint = mint
  PROVE  tx.mint \in 1 .. run /\ tx = FinalizeOf(tx.mint)
  <1>1. tx.mint \in 1 .. MaxRuns /\ tx = FinalizeOf(tx.mint)
    BY DEF Tx, FinalizeOf
  <1>2. tx.mint = mint \/ tx.mint < run
    BY DEF ScriptInv, TokensOK, NothingOfLaterRuns
  <1>3. mint \in {0, run} /\ run \in Nat /\ MaxRuns \in Nat
    BY CampaignAssumption DEF ScriptInv, TokensOK
  <1> QED
    BY <1>1, <1>2, <1>3

\* The function of a call of finalize was to call it.
LEMMA FinalizeCall ==
  ASSUME ScriptInv, NEW k \in 1 .. Last, AtCall(k), mint # 0
  PROVE  /\ NextCall(k) \in Tx /\ NextCall(k).mint = run /\ mint = run
         /\ k = FinalizeIt =>
              /\ FinalizeToCall /\ NextCall(k) = FinalizeOf(run)
              /\ step[k] = 1 /\ Len(Its[k]) = 1 /\ k # ClaimIt
         /\ k # FinalizeIt => NextCall(k).op # "finalize"
  <1>1. NextCall(k) \in Tx /\ NextCall(k).mint = mint /\ mint = run
    BY NextCallTyped DEF ScriptInv, TokensOK
  <1>2. step[k] \in 1 .. Calls(k)
    BY CallsTyped DEF ScriptInv, ProgressOK
  <1>3. CASE k = FinalizeIt
    <2>1. Its[k] = FinalizePresale /\ step[k] = 1 /\ k # ClaimIt
      BY <1>2, <1>3, OpsAre
    <2>2. k \in running
      BY DEF AtCall
    <2> QED
      BY <1>1, <1>3, <2>1, <2>2
      DEF FinalizePresale, Tell, FinalizeOf, NextCall, FinalizeToCall
  <1>4. CASE k # FinalizeIt
    BY <1>1, <1>2, <1>4, OpsAre DEF NextCall
  <1> QED
    BY <1>3, <1>4

\* A confirmed call.
LEMMA ConfirmedOnTeam ==
  ASSUME ScriptInv, ScriptInv', ProgramInv, ProgramInv', RunningOK, TeamInv,
         NEW k \in 1 .. Last, Confirmed(k)
  PROVE  TeamInv'
  <1>1. /\ AtCall(k) /\ mint # 0 /\ Lands(NextCall(k)) /\ k \in running
        /\ in_flight' = in_flight
    BY DEF Confirmed, AtCall
  <1>2. /\ NextCall(k) \in Tx
        /\ k = FinalizeIt =>
             /\ FinalizeToCall /\ NextCall(k) = FinalizeOf(run)
             /\ step[k] = 1 /\ Len(Its[k]) = 1 /\ k # ClaimIt
        /\ k # FinalizeIt => NextCall(k).op # "finalize"
    BY <1>1, FinalizeCall
  <1>3. run' = run /\ (FinalizeToCall' => FinalizeToCall)
    BY ScriptKeepsRunning DEF Call
  <1>4. /\ NextCall(k).op # "finalize" => lamports'[Team] = lamports[Team]
        /\ NextCall(k).op = "finalize" =>
             lamports'[Team] <= lamports[Team] + TeamDue'
        /\ PaidForGood' /\ (lamports[Team] > 0 => TeamDue <= TeamDue')
    BY <1>1, <1>2, LandsOnTeam DEF TeamInv
  <1>5. CASE k = FinalizeIt
    <2>1. LastCallDone(k)
      <3>1. ~NextStep(k)
        <4>1. step[k] = 1 /\ Len(Its[k]) = 1
          BY <1>2, <1>5
        <4>2. ~ (step[k] < Len(Its[k]))
          BY <4>1
        <4> QED
          BY <4>2 DEF NextStep
      <3>2. ~NextAccount(k)
        BY <1>2, <1>5 DEF NextAccount
      <3> QED
        BY <3>1, <3>2 DEF Confirmed
    <2>2. ~FinalizeToCall'
      BY <1>1, <1>5, <2>1, ReturnsOnRunning DEF LastCallDone
    <2>3. FinalizeOf(run) \notin in_flight' /\ run \in 1 .. run
      BY <1>1, <1>2, <1>5, CampaignAssumption DEF TeamInv, ScriptInv, TokensOK
    <2>4. lamports'[Team] <= lamports[Team] + TeamDue'
      BY <1>2, <1>4, <1>5 DEF FinalizeOf
    <2> QED
      BY <1>1, <1>2, <1>3, <1>4, <1>5, <2>2, <2>3, <2>4, TeamStep
  <1>6. CASE k # FinalizeIt
    BY <1>1, <1>2, <1>3, <1>4, <1>6, TeamStep
  <1> QED
    BY <1>5, <1>6

\* A call that is refused or not confirmed.
LEMMA BrokenOffOnTeam ==
  ASSUME ScriptInv, ScriptInv', ProgramInv, ProgramInv', RunningOK, TeamInv,
         NEW k \in 1 .. Last, Refused(k) \/ Unconfirmed(k)
  PROVE  TeamInv'
  <1>1. /\ AtCall(k) /\ k \in running /\ BreaksOff(k)
        /\ lamports' = lamports /\ presale' = presale
    BY DEF Refused, Unconfirmed, BreaksOffUnconfirmed, AtCall, chain, vars
  <1>2. run' = run /\ (FinalizeToCall' => FinalizeToCall)
    BY ScriptKeepsRunning DEF Call
  <1>3. FinalizeToCall' => k # FinalizeIt
    BY <1>1, BreaksOffReturns, ReturnsOnRunning
  <1>4. /\ PaidForGood' /\ (lamports[Team] > 0 => TeamDue <= TeamDue')
        /\ lamports'[Team] = lamports[Team]
    BY <1>1, SameTermsKept DEF SameTerms, TeamInv, ProgramInv, FundsInv
  <1>5. \A m \in 1 .. run : FinalizeOf(m) \in in_flight' =>
          \/ FinalizeOf(m) \in in_flight
          \/ m = run /\ FinalizeToCall /\ ~FinalizeToCall'
    <2>1. CASE Refused(k)
      BY <2>1 DEF Refused
    <2>2. CASE Unconfirmed(k)
      <3>1. in_flight' = in_flight \cup {NextCall(k)} /\ mint # 0
        BY <2>2 DEF Unconfirmed, Acceptable
      <3>2. /\ NextCall(k).mint = run
            /\ k = FinalizeIt => FinalizeToCall
            /\ k # FinalizeIt => NextCall(k).op # "finalize"
        BY <1>1, <3>1, FinalizeCall
      <3> QED
        BY <1>3, <3>1, <3>2 DEF FinalizeOf
    <2> QED
      BY <2>1, <2>2
  <1> QED
    BY <1>2, <1>4, <1>5, TeamStep

\* A late transaction.
LEMMA LandsLateOnTeam ==
  ASSUME ScriptInv, ScriptInv', ProgramInv, ProgramInv', TeamInv,
         NEW tx \in in_flight, LandsLate(tx)
  PROVE  TeamInv'
  <1>1. /\ Lands(tx) /\ tx \in Tx /\ in_flight' = in_flight \ {tx}
        /\ run' = run /\ FinalizeToCall' = FinalizeToCall
    BY DEF LandsLate, script, progress, FinalizeToCall, FinalizeIt, Last,
           ScriptInv, TokensOK
  <1>2. /\ tx.op # "finalize" => lamports'[Team] = lamports[Team]
        /\ tx.op = "finalize" => lamports'[Team] <= lamports[Team] + TeamDue'
        /\ PaidForGood' /\ (lamports[Team] > 0 => TeamDue <= TeamDue')
    BY <1>1, LandsOnTeam DEF TeamInv
  <1>3. CASE tx.op # "finalize"
    BY <1>1, <1>2, <1>3, TeamStep
  <1>4. CASE tx.op = "finalize"
    <2>1. tx.mint \in 1 .. run /\ tx = FinalizeOf(tx.mint)
      BY <1>1, <1>4, FinalizesAre
    <2>2. tx.mint = run => ~FinalizeToCall
      BY <2>1 DEF TeamInv
    <2>3. \E m \in 1 .. run :
            /\ FinalizeOf(m) \in in_flight \/ (m = run /\ FinalizeToCall)
            /\ FinalizeOf(m) \notin in_flight'
            /\ m = run => ~FinalizeToCall'
      BY <1>1, <2>1, <2>2
    <2> QED
      BY <1>1, <1>2, <1>4, <2>3, TeamStep
  <1> QED
    BY <1>3, <1>4

\* The script is run again: its finalize is outstanding too.
LEMMA StartAgainOnTeam ==
  ASSUME ScriptInv, ScriptInv', ProgramInv, ProgramInv', TeamInv, StartAgain
  PROVE  TeamInv'
  <1>1. /\ run' = run + 1 /\ run \in Nat /\ in_flight' = in_flight
        /\ lamports' = lamports /\ presale' = presale
    BY CampaignAssumption DEF StartAgain, vars, ScriptInv, TokensOK
  <1>2. /\ PaidForGood' /\ (lamports[Team] > 0 => TeamDue <= TeamDue')
        /\ lamports'[Team] = lamports[Team]
    BY <1>1, SameTermsKept DEF SameTerms, TeamInv, ProgramInv, FundsInv
  <1>3. FinalizeOf(run') \notin in_flight'
    <2>1. ASSUME FinalizeOf(run') \in in_flight
          PROVE  FALSE
      <3>1. FinalizeOf(run') \in Tx /\ FinalizeOf(run').op = "finalize"
            /\ FinalizeOf(run').mint = run'
        BY <2>1 DEF ScriptInv, TokensOK, FinalizeOf
      <3>2. run' \in 1 .. run
        BY <2>1, <3>1, FinalizesAre
      <3> QED
        BY <1>1, <3>2
    <2> QED
      BY <1>1, <2>1
  <1>4. Spent \subseteq Spent'
    <2> SUFFICES ASSUME NEW m \in Spent
                 PROVE  m \in Spent'
      OBVIOUS
    <2>1. m \in 1 .. run /\ FinalizeOf(m) \notin in_flight
      BY DEF Spent
    <2>2. m \in 1 .. run' /\ m # run'
      BY <1>1, <2>1
    <2> QED
      BY <1>1, <2>1, <2>2 DEF Spent, FinalizeOf
  <1>5. lamports'[Team] <= Cardinality(Spent') * TeamDue'
    BY <1>2, <1>4, PaidForSpent DEF TeamInv, ProgramInv, FundsInv
  <1> QED
    BY <1>2, <1>3, <1>5 DEF TeamInv

\* Everything else leaves the finalize transactions where they are, or drops
\* some.
LEMMA OthersOnTeam ==
  ASSUME ScriptInv, ScriptInv', ProgramInv, ProgramInv', RunningOK, TeamInv,
         \/ CreateToken \/ FetchAccounts \/ (\E u \in Users : VisitAccount(u))
         \/ AllVisited \/ ReadFails \/ GivesUp
         \/ \E tx \in in_flight : Expires(tx)
         \/ \E u \in Outsiders : OutsideStep(u)
         \/ \E u \in AtaOpeners : OpensAta(u)
         \/ ClockStep \/ UNCHANGED campaign_vars
  PROVE  TeamInv'
  <1>1. in_flight' \subseteq in_flight
    BY DEF CreateToken, FetchAccounts, VisitAccount, AllVisited, ReadFails,
           GivesUp, Expires, OutsideStep, OpensAta, ClockStep, campaign_vars
  <1>2. run' = run /\ (FinalizeToCall' => FinalizeToCall)
    <2>1. CASE \/ CreateToken \/ FetchAccounts
               \/ (\E u \in Users : VisitAccount(u)) \/ AllVisited
               \/ ReadFails \/ GivesUp
      BY <2>1, ScriptKeepsRunning
    <2>2. CASE UNCHANGED script
      BY <2>2 DEF script, progress, FinalizeToCall, FinalizeIt, Last
    <2> QED
      BY <2>1, <2>2 DEF Expires, OutsideStep, OpensAta, ClockStep, campaign_vars
  <1>3. /\ PaidForGood' /\ (lamports[Team] > 0 => TeamDue <= TeamDue')
        /\ lamports'[Team] = lamports[Team]
    <2>1. CASE \E u \in Outsiders : OutsideStep(u)
      <3>1. PICK u \in Users :
              (\E amount \in BuyAmounts : BuyToken(u, amount)) \/ RefundToken(u)
        BY <2>1, CampaignAssumption DEF OutsideStep
      <3> QED
        BY <3>1, BuyersOnTeam DEF TeamInv
    <2>2. CASE UNCHANGED <<presale, lamports>>
      BY <2>2, SameTermsKept DEF SameTerms, TeamInv, ProgramInv, FundsInv
    <2> QED
      BY <2>1, <2>2
      DEF CreateToken, FetchAccounts, VisitAccount, AllVisited, ReadFails,
          GivesUp, Expires, OpensAta, CreatesAta, ClockStep, Tick, campaign_vars, chain, vars
  <1> QED
    BY <1>1, <1>2, <1>3, TeamStep

\* TeamInv holds in every state of a campaign.
LEMMA TeamInvariant == CampaignSpec => []TeamInv
  <1>1. CampaignInit /\ ScriptInv /\ ProgramInv => TeamInv
    <2> SUFFICES ASSUME CampaignInit, ScriptInv, ProgramInv
                 PROVE  TeamInv
      OBVIOUS
    <2>1. lamports[Team] = 0 /\ in_flight = {}
      BY TeamApart DEF CampaignInit, Init, Wallets
    <2>2. Cardinality(Spent) \in Nat /\ TeamDue \in Nat
      BY SpentFinite, TeamTyped DEF Spent, ProgramInv, FundsInv
    <2>3. lamports[Team] <= Cardinality(Spent) * TeamDue
      BY <2>1, <2>2, Cardinality(Spent) * TeamDue \in Nat
    <2> QED
      BY <2>1, <2>3 DEF TeamInv, PaidForGood
  <1>2. /\ ScriptInv /\ ScriptInv' /\ ProgramInv /\ ProgramInv' /\ RunningOK
        /\ TeamInv /\ [CampaignNext]_campaign_vars
        => TeamInv'
    <2> SUFFICES ASSUME ScriptInv, ScriptInv', ProgramInv, ProgramInv', RunningOK,
                        TeamInv, [CampaignNext]_campaign_vars
                 PROVE  TeamInv'
      OBVIOUS
    <2>1. ASSUME NEW k \in 1 .. Last, Call(k)
          PROVE  TeamInv'
      BY <2>1, ConfirmedOnTeam, BrokenOffOnTeam DEF Call
    <2>2. CASE ScriptStep
      BY <2>1, <2>2, OthersOnTeam DEF ScriptStep
    <2>3. CASE \E tx \in in_flight : LandsLate(tx)
      BY <2>3, LandsLateOnTeam
    <2>4. CASE StartAgain
      BY <2>4, StartAgainOnTeam
    <2> QED
      BY <2>2, <2>3, <2>4, OthersOnTeam DEF CampaignNext
  <1> QED
    BY <1>1, <1>2, ScriptInvariant, ProgramInvariant, RunningInvariant, PTL
    DEF CampaignSpec

\* Theorem: finalize would pay the team again, but a campaign makes it pay at
\* most once per run of the script, whatever is lost or lands late.
THEOREM TeamIsPaidPerRun == CampaignSpec => []TeamPaidPerRun
  <1>1. ScriptInv /\ ProgramInv /\ TeamInv => TeamPaidPerRun
    <2> SUFFICES ASSUME ScriptInv, ProgramInv, TeamInv
                 PROVE  TeamPaidPerRun
      OBVIOUS
    <2>1. /\ Cardinality(Spent) \in Nat /\ Cardinality(Spent) <= run
          /\ run \in Nat
      BY SpentFinite, CampaignAssumption DEF Spent, ScriptInv, TokensOK
    <2>2. TeamDue \in Nat /\ lamports[Team] \in Nat
      BY TeamTyped DEF ProgramInv, FundsInv
    <2>3. lamports[Team] <= run * TeamDue
      BY <2>1, <2>2, SharesGrow DEF TeamInv
    <2> QED
      BY <2>3 DEF TeamPaidPerRun, TeamDue
  <1> QED
    BY <1>1, ScriptInvariant, ProgramInvariant, TeamInvariant, PTL

-----------------------------------------------------------------------------
(* What a transaction does to a presale that is open, or finalized early *)

\* initialize has run once and for all.
LEMMA InitializedForGood ==
  ASSUME [Next]_vars, Initialized
  PROVE  Initialized'
  <1>1. ASSUME NEW signer \in Admins, AdminNext(signer)
        PROVE  admin_account' = admin_account
    BY <1>1
    DEF AdminNext, Initialize, DepositToken, AddWhitelist, RemoveWhitelist,
        UpdatePresaleDetails, CancelPresale, Finalize, ClaimToken,
        WithdrawToken, Withdraw, Initialized
  <1>2. ASSUME NEW u \in Users, BuyerNext(u)
        PROVE  admin_account' = admin_account
    BY <1>2 DEF BuyerNext, BuyToken, RefundToken
  <1>3. admin_account' = admin_account
    BY <1>1, <1>2 DEF Next, Tick, vars
  <1> QED
    BY <1>3 DEF Initialized

\* The wallets have what they had, bought what they had bought, and are on the
\* list if they were.
SameBuyers ==
  \A u \in Users : /\ tokens'[u] = tokens[u]
                   /\ user'[u].user_buy_amount = user[u].user_buy_amount
                   /\ user'[u].is_whitelisted = user[u].is_whitelisted

\* Nothing of what a finished run has achieved is touched.
Untouched ==
  /\ SameTerms /\ lamports'[Team] = lamports[Team]
  /\ SameBuyers /\ UNCHANGED <<vault, escrow>>

\* No transaction the script sends changes the time, nor, but for initialize,
\* the mint and the end of the presale.
LEMMA LandsInTime ==
  ASSUME TypeOK, NEW tx \in Tx, Lands(tx)
  PROVE  /\ now' = now
         /\ tx.op # "initialize" => /\ presale_mint' = presale_mint
                                    /\ presale'.end_time = presale.end_time
  <1>1. CASE tx.op = "initialize"
    BY <1>1 DEF Lands, OnPresale, Initialize
  <1>2. CASE tx.op = "createAta"
    BY <1>2 DEF Lands, OnPresale, CreatesAta, vars
  <1>3. CASE tx.op \notin {"initialize", "createAta"}
    <2>1. OnPresale(tx) /\ presale_mint' = presale_mint
      BY <1>3 DEF Lands
    <2>2. now' = now
      BY <2>1
      DEF OnPresale, DepositToken, AddWhitelist, RemoveWhitelist, BuyToken,
          Finalize, ClaimToken, WithdrawToken, Withdraw
    <2>3. presale'.end_time = presale.end_time
      <3>1. presale \in PresaleAccount
        BY DEF TypeOK
      <3>2. CASE tx.op = "buyToken"
        <4>1. BuyToken(tx.u, tx.amount) /\ tx.u \in Users /\ tx.amount \in BuyAmounts
          BY <2>1, <3>2 DEF OnPresale, Tx
        <4> QED
          BY <4>1, BuyOnTerms
      <3>3. CASE tx.op = "finalize"
        BY <2>1, <3>1, <3>3 DEF OnPresale, Finalize, PresaleAccount
      <3>4. CASE tx.op \notin {"buyToken", "finalize"}
        BY <1>3, <3>4, OthersKeepTerms DEF SameTerms
      <3> QED
        BY <3>2, <3>3, <3>4
    <2> QED
      BY <1>3, <2>1, <2>2, <2>3
  <1> QED
    BY <1>1, <1>2, <1>3

\* What the buyers do by themselves: an open presale stays open and pays no
\* team, and one that is sold out is not touched.
LEMMA BuyersOnRun ==
  ASSUME ProgramInv, NEW u \in Users,
         (\E amount \in BuyAmounts : BuyToken(u, amount)) \/ RefundToken(u)
  PROVE  /\ now' = now /\ presale'.end_time = presale.end_time
         /\ presale.is_cancelled = 0 =>
              lamports'[Team] = lamports[Team] /\ presale'.is_cancelled = 0
         /\ presale.is_cancelled = 0 /\ presale.is_hardcapped = 1 => Untouched
  <1>1. TypeOK /\ SaleInv
    BY DEF ProgramInv, FundsInv
  <1>2. ASSUME NEW amount \in BuyAmounts, BuyToken(u, amount)
        PROVE  /\ now' = now /\ presale'.end_time = presale.end_time
               /\ presale.is_cancelled = 0 =>
                    lamports'[Team] = lamports[Team] /\ presale'.is_cancelled = 0
               /\ presale.is_cancelled = 0 /\ presale.is_hardcapped = 1 => Untouched
    <2>1. now' = now
      BY <1>2 DEF BuyToken
    <2>2. /\ presale'.end_time = presale.end_time
          /\ lamports'[Team] = lamports[Team]
          /\ presale'.is_cancelled = presale.is_cancelled
      BY <1>1, <1>2, BuyOnTerms
    <2>3. CASE presale.is_hardcapped = 1
      BY <1>1, <1>2, <2>1, <2>2, <2>3, SoldOutBuy DEF Untouched, SameBuyers
    <2> QED
      BY <2>1, <2>2, <2>3
  <1>3. CASE RefundToken(u)
    <2>1. presale.is_cancelled # 0 /\ now' = now
      BY <1>3 DEF RefundToken, MayRefund
    <2>2. presale'.end_time = presale.end_time
      BY <1>1, <1>3 DEF RefundToken, Refunded, TypeOK, PresaleAccount
    <2> QED
      BY <2>1, <2>2
  <1> QED
    BY <1>2, <1>3

-----------------------------------------------------------------------------
(* The script while no function of the run has failed *)

\* What the steps rely on.
RunsInv == CampaignInv /\ RunningOK /\ RunInv

\* The function that runs is the only one, and the next one starts after it.
LEMMA RunsAlone ==
  ASSUME ScriptInv, OwnPresale, NEW k \in running
  PROVE  /\ k = current /\ k \in 1 .. Last
         /\ Passes(k) => /\ current' = k + 1 /\ failed' = failed
                         /\ running' = {current'} \cap 1 .. Last
  <1>1. k = current /\ k \in 1 .. Last /\ running = {k}
    BY DEF OwnPresale
  <1>2. ASSUME Passes(k)
        PROVE  /\ current' = k + 1 /\ failed' = failed
               /\ running' = {current'} \cap 1 .. Last
    BY <1>1, <1>2 DEF Passes, Returns
  <1> QED
    BY <1>1, <1>2

\* The functions that make a single call.
LEMMA SingleCalls ==
  ASSUME ScriptInv, NEW k,
         k \in {InitializeIt, LastPurchaseIt, FinalizeIt, Last - 1, Last}
  PROVE  /\ k \in 1 .. Last /\ k # ClaimIt
         /\ step[k] = 1 /\ Len(Its[k]) = 1
         /\ k = InitializeIt => NextCall(k) = Tell("initialize")
         /\ k = LastPurchaseIt => NextCall(k).op = "buyToken"
         /\ k = FinalizeIt => NextCall(k) = Tell("finalize")
         /\ k = Last - 1 => NextCall(k) = Tell("withdrawToken")
         /\ k = Last => NextCall(k) = Tell("withdraw")
  <1> DEFINE b == Len(Buyers)
             p == Len(Purchases)
  <1>1. b \in Nat /\ p \in Nat
    BY ListsTyped
  <1>2. /\ Last = b + p + 9 /\ ClaimIt = b + p + 7 /\ InitializeIt = 1
        /\ LastPurchaseIt = b + p + 5 /\ FinalizeIt = b + p + 6
    BY <1>1 DEF Last, ClaimIt, LastPurchaseIt, FinalizeIt, InitializeIt
  <1> HIDE DEF b, p
  <1>3. Calls(k) = 1
    BY <1>1, <1>2 DEF Calls, b
  <1>4. k \in 1 .. Last /\ k # ClaimIt
    BY <1>1, <1>2
  <1>5. step[k] = 1 /\ Len(Its[k]) = 1
    <2>1. step[k] \in Nat \ {0} /\ step[k] <= 1
      BY <1>3, <1>4 DEF ScriptInv, ProgressOK
    <2>2. mint \in {mint}
      OBVIOUS
    <2>3. Len(Its[k]) = Calls(k)
      BY <1>4, <2>2, ItsShape
    <2> QED
      BY <1>3, <2>1, <2>3
  <1>6. NextCall(k) = Its[k][1]
    BY <1>5 DEF NextCall
  <1>7. Its[InitializeIt] = InitializePresaleVault
    BY <1>2, ItsAre
  <1> QED
    BY <1>4, <1>5, <1>6, <1>7, ItsAre
    DEF InitializePresaleVault, BuyMoreThanIsLeft, Buy, FinalizePresale,
        WithdrawRemainingTokens, WithdrawSol, Tell

\* Such a function returns with its call.
LEMMA SingleCallReturns ==
  ASSUME ScriptInv, NEW k, Confirmed(k),
         k \in {InitializeIt, LastPurchaseIt, FinalizeIt, Last - 1, Last}
  PROVE  Passes(k) /\ UNCHANGED visiting
  <1>1. k # ClaimIt /\ step[k] = 1 /\ Len(Its[k]) = 1
    BY SingleCalls
  <1>2. ~ (step[k] < Len(Its[k]))
    BY <1>1
  <1>3. ~NextStep(k) /\ ~NextAccount(k)
    BY <1>1, <1>2 DEF NextStep, NextAccount
  <1> QED
    BY <1>3 DEF Confirmed, LastCallDone

\* What is served stays served while nothing of it is touched.
LEMMA ServedKept ==
  ASSUME ServedSoFar, Untouched, UNCHANGED <<current, visiting>>
  PROVE  ServedSoFar'
  <1>1. TeamDue' = TeamDue
    BY DEF Untouched, SameTerms, TeamDue
  <1>2. StillToServe'
    BY DEF ServedSoFar, StillToServe, Untouched, SameBuyers, visiting
  <1> QED
    BY <1>1, <1>2
    DEF ServedSoFar, Untouched, SameTerms, visiting, ClaimIt, Last

\* A run that created the presale stays sound while the script stands still.
LEMMA StillRun ==
  ASSUME SoundRun, UNCHANGED script, in_flight' \subseteq in_flight,
         failed = {} /\ current = 1 => presale_mint' # run,
         failed = {} /\ current > 1 => presale_mint' = presale_mint,
         failed = {} /\ current > 1 /\ presale.is_cancelled = 0 =>
           lamports'[Team] = lamports[Team] /\ presale'.is_cancelled = 0,
         now' < presale'.end_time /\ current > FinalizeIt /\ failed = {} =>
           now < presale.end_time /\ (ServedSoFar => Untouched)
  PROVE  SoundRun'
  <1> SUFFICES ASSUME failed' = {}
               PROVE  /\ OwnPresale'
                      /\ (current > FinalizeIt /\ now < presale.end_time
                          => ServedSoFar)'
    BY DEF SoundRun
  <1>1. /\ current' = current /\ running' = running /\ failed = {}
        /\ run' = run /\ mint' = mint /\ UNCHANGED visiting
    BY DEF script, progress
  <1>2. OwnPresale
    BY <1>1 DEF SoundRun
  <1>3. OwnPresale'
    <2>1. running' = {current'} \cap 1 .. Last'
      BY <1>1, <1>2 DEF OwnPresale, Last
    <2>2. current' = 1 =>
            presale_mint' # run' /\ \A tx \in in_flight' : tx.mint # run'
      BY <1>1, <1>2 DEF OwnPresale
    <2>3. current' > 1 =>
            /\ mint' = run' /\ presale_mint' = run'
            /\ \A tx \in in_flight' : tx.op \in {"initialize", "buyToken"}
      BY <1>1, <1>2 DEF OwnPresale
    <2>4. current' > 1 /\ current' <= FinalizeIt' =>
            lamports'[Team] = 0 /\ presale'.is_cancelled = 0
      BY <1>1, <1>2 DEF OwnPresale, FinalizeIt, Last
    <2> QED
      BY <2>1, <2>2, <2>3, <2>4 DEF OwnPresale
  <1>4. ASSUME current' > FinalizeIt', now' < presale'.end_time
        PROVE  ServedSoFar'
    <2>1. current > FinalizeIt
      BY <1>1, <1>4 DEF FinalizeIt, Last
    <2>2. ServedSoFar /\ Untouched
      BY <1>1, <1>4, <2>1 DEF SoundRun
    <2> QED
      BY <1>1, <2>2, ServedKept
  <1> QED
    BY <1>3, <1>4

\* The presale of a sound run is there from its second function on.
LEMMA OwnPresaleIsThere ==
  ASSUME RunsInv, OwnPresale, current > 1
  PROVE  Initialized /\ mint = run /\ presale_mint = run
  <1>1. mint = run /\ presale_mint = run /\ run # 0
    BY CampaignAssumption DEF OwnPresale, RunsInv, CampaignInv, ScriptInv, TokensOK
  <1> QED
    BY <1>1 DEF RunsInv, CampaignInv, ClaimInv, DeliveryInv

\* A late transaction: in a run that created the presale, a purchase.
LEMMA LandsLateOnRun ==
  ASSUME RunsInv, NEW tx \in in_flight, LandsLate(tx)
  PROVE  SoundRun'
  <1>1. /\ Lands(tx) /\ tx \in Tx /\ UNCHANGED script
        /\ in_flight' \subseteq in_flight
        /\ ProgramInv /\ ScriptInv /\ SoundRun /\ TypeOK /\ atas \subseteq Users
    BY DEF LandsLate, RunsInv, RunInv, CampaignInv, ScriptInv, TokensOK,
           ProgramInv, FundsInv
  <1>2. ASSUME failed = {}, current = 1
        PROVE  presale_mint' # run
    BY <1>1, <1>2, LandsOnScript DEF SoundRun, OwnPresale
  <1>3. ASSUME failed = {}, current > 1
        PROVE  /\ presale_mint' = presale_mint
               /\ now' = now /\ presale'.end_time = presale.end_time
               /\ presale.is_cancelled = 0 =>
                    lamports'[Team] = lamports[Team] /\ presale'.is_cancelled = 0
               /\ presale.is_cancelled = 0 /\ presale.is_hardcapped = 1 => Untouched
    <2>1. OwnPresale
      BY <1>1, <1>3 DEF SoundRun
    <2>2. Initialized
      BY <1>3, <2>1, OwnPresaleIsThere
    <2>3. tx.op # "initialize"
      BY <1>1, <2>2, LandsPays
    <2>4. tx.op = "buyToken"
      BY <1>3, <2>1, <2>3 DEF OwnPresale
    <2>5. /\ BuyToken(tx.u, tx.amount) /\ presale_mint' = presale_mint
          /\ tx.u \in Users /\ tx.amount \in BuyAmounts
      BY <1>1, <2>4 DEF Lands, OnPresale, Tx
    <2> QED
      BY <1>1, <2>5, BuyersOnRun
  <1>4. current > FinalizeIt => current > 1
    BY <1>1, ClaimsComeLast DEF ScriptInv, ProgressOK
  <1>5. ASSUME now' < presale'.end_time, current > FinalizeIt, failed = {}
        PROVE  now < presale.end_time /\ (ServedSoFar => Untouched)
    BY <1>3, <1>4, <1>5 DEF ServedSoFar
  <1> QED
    BY <1>1, <1>2, <1>3, <1>5, StillRun

\* The clock, the buyers, and what never lands.
LEMMA OutsideOnRun ==
  ASSUME RunsInv,
         \/ \E tx \in in_flight : Expires(tx)
         \/ \E u \in Outsiders : OutsideStep(u)
         \/ \E u \in AtaOpeners : OpensAta(u)
         \/ ClockStep \/ UNCHANGED campaign_vars
  PROVE  SoundRun'
  <1>1. ProgramInv /\ ScriptInv /\ SoundRun /\ TypeOK /\ now \in Nat
        /\ presale.end_time \in Nat
    BY RuntimeAssumption
    DEF RunsInv, RunInv, CampaignInv, ProgramInv, FundsInv, TypeOK,
        PresaleAccount, U64
  <1>2. /\ UNCHANGED script /\ in_flight' \subseteq in_flight
        /\ presale_mint' = presale_mint
    BY DEF Expires, OutsideStep, OpensAta, CreatesAta, ClockStep, campaign_vars,
           chain
  <1>3. /\ now' < presale'.end_time => now < presale.end_time
        /\ presale.is_cancelled = 0 =>
             lamports'[Team] = lamports[Team] /\ presale'.is_cancelled = 0
        /\ presale.is_cancelled = 0 /\ presale.is_hardcapped = 1 => Untouched
    <2>1. CASE \E u \in Outsiders : OutsideStep(u)
      <3>1. PICK u \in Users :
              (\E amount \in BuyAmounts : BuyToken(u, amount)) \/ RefundToken(u)
        BY <2>1, CampaignAssumption DEF OutsideStep
      <3> QED
        BY <1>1, <3>1, BuyersOnRun
    <2>2. CASE UNCHANGED <<presale, user, escrow, lamports, vault, tokens>>
               /\ now' \in {now, now + 1}
      <3>1. now' < presale'.end_time => now < presale.end_time
        BY <1>1, <2>2
      <3>2. Untouched
        BY <2>2 DEF Untouched, SameTerms, SameBuyers
      <3> QED
        BY <2>2, <3>1, <3>2
    <2> QED
      BY <2>1, <2>2
      DEF Expires, OpensAta, CreatesAta, ClockStep, Tick, campaign_vars, chain, vars
  <1>4. failed = {} /\ current = 1 => presale_mint' # run
    BY <1>1, <1>2 DEF SoundRun, OwnPresale
  <1>5. ServedSoFar => Untouched
    BY <1>3 DEF ServedSoFar
  <1> QED
    BY <1>1, <1>2, <1>3, <1>4, <1>5, StillRun

\* A new run has sent nothing and created nothing.
LEMMA StartAgainOnRun ==
  ASSUME RunsInv, StartAgain
  PROVE  SoundRun'
  <1>1. /\ run' = run + 1 /\ current' = 1 /\ running' = {1}
        /\ presale_mint' = presale_mint /\ in_flight' = in_flight
    BY DEF StartAgain
  <1>2. /\ run \in Nat /\ mint \in {0, run} /\ presale_mint \in 0 .. run
        /\ in_flight \subseteq Tx /\ NothingOfLaterRuns
    BY CampaignAssumption DEF RunsInv, CampaignInv, ScriptInv, TokensOK
  <1>3. presale_mint' # run'
    BY <1>1, <1>2
  <1>4. \A tx \in in_flight' : tx.mint # run'
    <2> SUFFICES ASSUME NEW tx \in in_flight
                 PROVE  tx.mint # run + 1
      BY <1>1
    <2>1. tx.mint = mint \/ tx.mint < run
      BY <1>2 DEF NothingOfLaterRuns
    <2> QED
      BY <1>2, <2>1
  <1>5. running' = {current'} \cap 1 .. Last'
    BY <1>1, ClaimsComeLast DEF Last
  <1>6. OwnPresale'
    BY <1>1, <1>3, <1>4, <1>5 DEF OwnPresale
  <1>7. ~ (current' > FinalizeIt')
    BY <1>1, OpsAre, ClaimsComeLast DEF FinalizeIt, Last
  <1> QED
    BY <1>6, <1>7 DEF SoundRun

\* A run that created the presale goes on to the next call or function.
LEMMA StaysOwn ==
  ASSUME ScriptInv, OwnPresale, current > 1,
         current' \in {current, current + 1}, running' = {current'} \cap 1 .. Last,
         UNCHANGED <<run, mint, presale_mint>>,
         \A tx \in in_flight' : tx \in in_flight \/ tx.op = "buyToken",
         current' <= FinalizeIt =>
           lamports'[Team] = lamports[Team]
             /\ presale'.is_cancelled = presale.is_cancelled
  PROVE  OwnPresale'
  <1>1. current \in Nat /\ FinalizeIt \in Nat
    BY ClaimsComeLast, OpsAre DEF ScriptInv, ProgressOK
  <1>2. current' > 1 /\ (current' <= FinalizeIt => current <= FinalizeIt)
    BY <1>1
  <1>3. running' = {current'} \cap 1 .. Last'
    BY DEF Last
  <1>4. /\ mint' = run' /\ presale_mint' = run'
        /\ \A tx \in in_flight' : tx.op \in {"initialize", "buyToken"}
    BY DEF OwnPresale
  <1>5. current' <= FinalizeIt' =>
          lamports'[Team] = 0 /\ presale'.is_cancelled = 0
    BY <1>2 DEF OwnPresale, FinalizeIt, Last
  <1> QED
    BY <1>1, <1>2, <1>3, <1>4, <1>5 DEF OwnPresale

\* A confirmed call of a run in which nothing has failed.
LEMMA ConfirmedAlone ==
  ASSUME RunsInv, NEW k \in 1 .. Last, Confirmed(k), failed' = {}
  PROVE  /\ OwnPresale /\ k = current /\ k \in running
         /\ current > FinalizeIt /\ now < presale.end_time => ServedSoFar
         /\ Lands(NextCall(k)) /\ NextCall(k) \in Tx
         /\ mint = run /\ NextCall(k).mint = run
         /\ UNCHANGED <<run, mint, in_flight>>
         /\ ScriptInv /\ ProgramInv /\ TypeOK
         /\ running' = {current'} \cap 1 .. Last
         /\ k # ClaimIt => current' \in {k, k + 1} /\ UNCHANGED visiting
         /\ k = ClaimIt => current' = k
  <1>1. /\ ScriptInv /\ ProgramInv /\ TypeOK /\ SoundRun
        /\ AtCall(k) /\ mint # 0 /\ k \in running /\ Lands(NextCall(k))
        /\ UNCHANGED <<run, mint, in_flight>>
    BY DEF RunsInv, RunInv, CampaignInv, ProgramInv, FundsInv, Confirmed, AtCall
  <1>2. failed = {}
    BY DEF Confirmed, NextStep, NextAccount, LastCallDone, Passes
  <1>3. /\ OwnPresale
        /\ current > FinalizeIt /\ now < presale.end_time => ServedSoFar
    BY <1>1, <1>2 DEF SoundRun
  <1>4. mint = run /\ NextCall(k) \in Tx /\ NextCall(k).mint = run
    BY <1>1, FinalizeCall
  <1>5. k = current /\ running = {k}
    BY <1>1, <1>3, RunsAlone DEF OwnPresale
  <1>6. /\ running' = {current'} \cap 1 .. Last
        /\ k # ClaimIt => current' \in {k, k + 1} /\ UNCHANGED visiting
        /\ k = ClaimIt => current' = k
    <2>1. CASE NextStep(k)
      BY <1>3, <1>5, <2>1 DEF NextStep, OwnPresale
    <2>2. CASE NextAccount(k)
      BY <1>3, <1>5, <2>2 DEF NextAccount, OwnPresale
    <2>3. CASE LastCallDone(k)
      <3>1. k # ClaimIt /\ Passes(k) /\ UNCHANGED visiting
        BY <2>3 DEF LastCallDone
      <3>2. current' = k + 1 /\ running' = {current'} \cap 1 .. Last
        BY <1>1, <1>3, <3>1, RunsAlone
      <3> QED
        BY <3>1, <3>2
    <2> QED
      BY <2>1, <2>2, <2>3 DEF Confirmed
  <1> QED
    BY <1>1, <1>3, <1>4, <1>5, <1>6

\* initialize: the presale is new, and the run its own.
LEMMA InitializeOnRun ==
  ASSUME RunsInv, Confirmed(InitializeIt), failed' = {}
  PROVE  SoundRun'
  <1>1. InitializeIt = 1 /\ 1 \in 1 .. Last /\ Last \in Nat /\ FinalizeIt \in Nat
        /\ 1 < FinalizeIt
    BY ClaimsComeLast, OpsAre
  <1>2. /\ OwnPresale /\ current = 1 /\ Lands(NextCall(1)) /\ NextCall(1) \in Tx
        /\ mint = run /\ UNCHANGED <<run, mint, in_flight>>
        /\ ScriptInv /\ ProgramInv /\ TypeOK
        /\ running' = {current'} \cap 1 .. Last
    BY <1>1, ConfirmedAlone
  <1>3. NextCall(1) = Tell("initialize") /\ current' = 2
    BY <1>1, <1>2, SingleCalls, SingleCallReturns DEF Passes, Returns
  <1>4. /\ Initialize(Admin, SaleArgs) /\ presale_mint' = run
    BY <1>2, <1>3 DEF Lands, OnPresale, Tell
  <1>5. ~Initialized
    BY <1>4 DEF Initialize, Initialized
  <1>6. lamports'[Team] = 0 /\ presale'.is_cancelled = 0
    BY <1>2, <1>4, <1>5
    DEF Initialize, ZeroedPresale, ProgramInv, FundsInv, NothingBeforeInitialize
  <1>7. \A tx \in in_flight' : tx.op \in {"initialize", "buyToken"}
    BY <1>2, <1>5 DEF RunsInv, RunInv, OnlyInitializeBefore
  <1>8. running' = {current'} \cap 1 .. Last'
    BY <1>2 DEF Last
  <1>9. OwnPresale'
    BY <1>2, <1>3, <1>4, <1>6, <1>7, <1>8 DEF OwnPresale
  <1>10. ~ (current' > FinalizeIt')
    BY <1>1, <1>3 DEF FinalizeIt, Last
  <1> QED
    BY <1>9, <1>10 DEF SoundRun

\* The calls before finalize leave the presale open and the team unpaid.
LEMMA EarlyCallOnRun ==
  ASSUME RunsInv, NEW k \in 1 .. Last, Confirmed(k), failed' = {},
         k > 1, k < FinalizeIt
  PROVE  SoundRun'
  <1>1. InitializeIt = 1 /\ FinalizeIt \in 1 .. Last /\ k # ClaimIt
        /\ k # InitializeIt /\ Last \in Nat /\ FinalizeIt # k /\ k # Last - 1
    BY ClaimsComeLast, OpsAre
  <1>2. /\ OwnPresale /\ k = current /\ k \in running
        /\ Lands(NextCall(k)) /\ NextCall(k) \in Tx /\ mint = run
        /\ UNCHANGED <<run, mint, in_flight>>
        /\ ScriptInv /\ ProgramInv /\ TypeOK
        /\ running' = {current'} \cap 1 .. Last /\ current' \in {k, k + 1}
    BY <1>1, ConfirmedAlone
  <1>3. NextCall(k).op \notin {"initialize", "finalize"}
    <2>1. step[k] \in 1 .. Calls(k)
      BY <1>2, CallsTyped DEF ScriptInv, ProgressOK
    <2> QED
      BY <1>1, <2>1, OpsAre DEF NextCall
  <1>4. presale_mint' = presale_mint
    BY <1>2, <1>3, LandsInTime
  <1>5. lamports'[Team] = lamports[Team]
        /\ presale'.is_cancelled = presale.is_cancelled
    <2>1. CASE NextCall(k).op = "buyToken"
      <3>1. PICK u \in Users, amount \in BuyAmounts : BuyToken(u, amount)
        BY <1>2, <2>1 DEF Lands, OnPresale, Tx
      <3> QED
        BY <1>2, <3>1, BuyOnTerms
    <2>2. CASE NextCall(k).op # "buyToken"
      BY <1>2, <1>3, <2>2, OthersKeepTerms DEF SameTerms
    <2> QED
      BY <2>1, <2>2
  <1>6. OwnPresale'
    BY <1>2, <1>4, <1>5, StaysOwn
  <1>7. ~ (current' > FinalizeIt')
    BY <1>1, <1>2 DEF FinalizeIt, Last
  <1> QED
    BY <1>6, <1>7 DEF SoundRun

\* finalize: before the end of the sale it is accepted only if the presale has
\* sold out, and then it pays the team its share.
LEMMA FinalizeOnRun ==
  ASSUME RunsInv, Confirmed(FinalizeIt), failed' = {}
  PROVE  SoundRun'
  <1>1. /\ FinalizeIt \in 1 .. Last /\ FinalizeIt > 1 /\ Last \in Nat
        /\ FinalizeIt # ClaimIt /\ ClaimIt = FinalizeIt + 1
    BY ClaimsComeLast, OpsAre
  <1>2. /\ OwnPresale /\ current = FinalizeIt
        /\ Lands(NextCall(FinalizeIt)) /\ NextCall(FinalizeIt) \in Tx
        /\ UNCHANGED <<run, mint, in_flight>>
        /\ ScriptInv /\ ProgramInv /\ TypeOK
        /\ running' = {current'} \cap 1 .. Last /\ UNCHANGED visiting
    BY <1>1, ConfirmedAlone
  <1>3. /\ NextCall(FinalizeIt) = Tell("finalize") /\ current' = FinalizeIt + 1
    BY <1>1, <1>2, SingleCalls, SingleCallReturns DEF Passes, Returns
  <1>4. Finalize(Admin, 0) /\ presale_mint' = presale_mint
    BY <1>2, <1>3 DEF Lands, OnPresale, Tell
  <1>5. lamports[Team] = 0 /\ presale.is_cancelled = 0
    BY <1>1, <1>2 DEF OwnPresale
  <1>6. OwnPresale'
    BY <1>1, <1>2, <1>3, <1>4, StaysOwn
  <1>7. ASSUME now' < presale'.end_time
        PROVE  ServedSoFar'
    <2>1. presale \in PresaleAccount /\ lamports \in [Wallets -> Nat]
      BY <1>2 DEF TypeOK
    <2>2. now' = now /\ presale'.end_time = presale.end_time
      BY <1>2, <1>3, LandsInTime DEF Tell
    <2>3. presale.is_hardcapped # 0
      <3>1. now \in Nat /\ presale.end_time \in Nat
        BY <1>2, RuntimeAssumption DEF TypeOK, PresaleAccount, U64
      <3> QED
        BY <1>4, <1>7, <2>2, <3>1 DEF Finalize, SaleOver
    <2>4. presale.is_hardcapped = 1
      BY <2>1, <2>3 DEF PresaleAccount, Flag
    <2>5. /\ presale' = [presale EXCEPT !.is_finalized = 1]
          /\ lamports' = [lamports EXCEPT ![Team] = @ + TeamDue]
      BY <1>4, <1>5, <2>4 DEF Finalize, CancelledByFinalize, TeamDue
    <2>6. /\ presale'.is_cancelled = 0 /\ presale'.is_hardcapped = 1
          /\ TeamDue' = TeamDue
      BY <1>5, <2>1, <2>4, <2>5 DEF PresaleAccount, TeamDue
    <2>7. lamports'[Team] = TeamDue'
      BY <1>2, <1>5, <2>1, <2>5, <2>6, TeamTyped DEF Wallets
    <2>8. loop' = "fetch"
      BY <1>1, <1>2 DEF RunsInv, RunningOK, visiting
    <2>9. current' = ClaimIt' /\ ~ (current' > Last' - 1) /\ ~ (current' > Last')
          /\ ~ (current' > ClaimIt')
      BY <1>1, <1>3, ClaimsComeLast DEF ClaimIt, Last
    <2> QED
      BY <2>6, <2>7, <2>8, <2>9 DEF ServedSoFar, StillToServe
  <1> QED
    BY <1>6, <1>7 DEF SoundRun

\* The claim function creates an account for a wallet, or pays it what it
\* bought: it had received nothing.
LEMMA ClaimOnRun ==
  ASSUME RunsInv, Confirmed(ClaimIt), failed' = {}
  PROVE  SoundRun'
  <1>1. /\ ClaimIt \in 1 .. Last /\ ClaimIt > 1 /\ ClaimIt > FinalizeIt
        /\ Last \in Nat /\ FinalizeIt \in Nat
    BY ClaimsComeLast, OpsAre
  <1> DEFINE tx == NextCall(ClaimIt)
  <1>2. /\ OwnPresale /\ current = ClaimIt /\ mint = run
        /\ now < presale.end_time => ServedSoFar
        /\ Lands(tx) /\ tx \in Tx /\ UNCHANGED <<run, mint, in_flight>>
        /\ ScriptInv /\ ProgramInv /\ TypeOK
        /\ running' = {current'} \cap 1 .. Last /\ current' = current
    BY <1>1, ConfirmedAlone
  <1>3. AtCall(ClaimIt) /\ mint # 0 /\ loop = "serve"
    BY DEF Confirmed, AtCall
  <1>4. /\ claiming \in Users /\ step[ClaimIt] \in 1 .. 2
        /\ step[ClaimIt] = 1 => tx = About("createAta", claiming)
        /\ step[ClaimIt] = 2 => tx = About("claimToken", claiming)
        /\ Len(Its[ClaimIt]) = 2
    <2>1. Its[ClaimIt] = ClaimForOne
      BY ItsAre
    <2> QED
      BY <1>1, <1>2, <1>3, <2>1, NextCallTyped DEF ClaimForOne
  <1>5. tx.op \notin {"initialize", "finalize", "buyToken"}
    BY <1>4 DEF About
  <1>6. /\ SameTerms /\ lamports'[Team] = lamports[Team]
        /\ now' = now /\ presale_mint' = presale_mint
    BY <1>2, <1>5, OthersKeepTerms, LandsInTime
  <1>7. OwnPresale'
    BY <1>1, <1>2, <1>6, StaysOwn DEF SameTerms
  <1>8. ASSUME now' < presale'.end_time
        PROVE  ServedSoFar'
    <2>1. ServedSoFar
      BY <1>2, <1>6, <1>8 DEF SameTerms
    <2>2. CASE step[ClaimIt] = 1
      <3>1. UNCHANGED <<presale, user, escrow, lamports, vault, tokens>>
        BY <1>2, <1>4, <2>2 DEF Lands, OnPresale, About, CreatesAta, vars
      <3>2. Untouched
        BY <3>1 DEF Untouched, SameTerms, SameBuyers
      <3>3. NextStep(ClaimIt)
        BY <1>1, <1>4, <2>2 DEF Confirmed, NextAccount, LastCallDone
      <3> QED
        BY <1>2, <2>1, <3>2, <3>3, ServedKept DEF NextStep
    <2>3. CASE step[ClaimIt] = 2
      <3>1. NextAccount(ClaimIt)
        BY <1>4, <2>3 DEF Confirmed, NextStep, LastCallDone
      <3>2. /\ tx.op = "claimToken" /\ tx.u = claiming
            /\ presale_mint = mint
            /\ tokens' = [tokens EXCEPT
                 ![claiming] = @ + user[claiming].user_buy_amount]
            /\ user' = [user EXCEPT ![claiming].is_claimed = 1]
        <4>1. tx = About("claimToken", claiming)
          BY <1>4, <2>3
        <4>2. tx.op = "claimToken" /\ tx.u = claiming
          BY <4>1 DEF About
        <4>3. presale_mint = mint
          BY <1>1, <1>2 DEF OwnPresale
        <4> HIDE DEF tx
        <4> QED
          BY <1>2, <4>2, <4>3, LandsPays
      <3>3. tokens[claiming] = 0
        <4>1. mint \in 1 .. MaxRuns
          BY <1>2, <1>3 DEF ScriptInv, TokensOK
        <4>2. Due(claiming, mint)
          BY <2>3 DEF Due
        <4>3. ~Delivered(claiming, mint)
          BY <1>4, <4>1, <4>2
          DEF RunsInv, CampaignInv, ClaimInv, OneClaimEach, OneClaim
        <4>4. tokens[claiming] \in Nat
          BY <1>2, <1>4, AmountsTyped
        <4> QED
          BY <3>2, <4>3, <4>4 DEF Delivered
      <3>4. \A u \in Users :
              /\ user'[u].user_buy_amount = user[u].user_buy_amount
              /\ user'[u].is_whitelisted = user[u].is_whitelisted
        BY <1>2, <3>2 DEF TypeOK, UserAccount
      <3>5. \A u \in Users \ {claiming} : tokens'[u] = tokens[u]
        BY <1>2, <3>2 DEF TypeOK
      <3>6. tokens'[claiming] = user'[claiming].user_buy_amount
        <4>1. user[claiming].user_buy_amount \in Nat
          BY <1>2, <1>4, AmountsTyped
        <4>2. tokens'[claiming] = 0 + user[claiming].user_buy_amount
          BY <1>2, <1>4, <3>2, <3>3 DEF TypeOK
        <4> QED
          BY <1>4, <3>4, <4>1, <4>2
      <3>7. StillToServe'
        <4> SUFFICES ASSUME NEW u \in Users, user'[u].is_whitelisted,
                            tokens'[u] # user'[u].user_buy_amount
                     PROVE  u \in accounts'
          BY DEF StillToServe
        <4>1. u # claiming
          BY <3>6
        <4>2. user[u].is_whitelisted /\ tokens[u] # user[u].user_buy_amount
          BY <3>4, <3>5, <4>1
        <4>3. u \in accounts
          BY <1>3, <2>1, <4>1, <4>2 DEF ServedSoFar, StillToServe
        <4> QED
          BY <3>1, <4>3 DEF NextAccount
      <3>8. TeamDue' = TeamDue
        BY <1>6 DEF SameTerms, TeamDue
      <3>9. ~ (current' > ClaimIt') /\ ~ (current' > Last' - 1)
            /\ ~ (current' > Last')
        BY <1>1, <1>2, ClaimsComeLast DEF ClaimIt, Last
      <3> QED
        BY <1>6, <2>1, <3>7, <3>8, <3>9 DEF ServedSoFar, SameTerms
    <2> QED
      BY <1>4, <2>2, <2>3
  <1> QED
    BY <1>7, <1>8 DEF SoundRun

\* The last two functions take the rest of the vault and of the escrow.
LEMMA WithdrawalOnRun ==
  ASSUME RunsInv, NEW k \in {Last - 1, Last}, Confirmed(k), failed' = {}
  PROVE  SoundRun'
  <1>1. /\ k \in 1 .. Last /\ k > 1 /\ k > FinalizeIt /\ k > ClaimIt
        /\ Last \in Nat /\ FinalizeIt \in Nat /\ k # ClaimIt /\ ClaimIt \in Nat
    BY ClaimsComeLast, OpsAre
  <1>2. /\ OwnPresale /\ current = k
        /\ now < presale.end_time => ServedSoFar
        /\ Lands(NextCall(k)) /\ NextCall(k) \in Tx
        /\ UNCHANGED <<run, mint, in_flight>>
        /\ ScriptInv /\ ProgramInv /\ TypeOK
        /\ running' = {current'} \cap 1 .. Last /\ UNCHANGED visiting
    BY <1>1, ConfirmedAlone
  <1>3. /\ k = Last - 1 => NextCall(k) = Tell("withdrawToken")
        /\ k = Last => NextCall(k) = Tell("withdraw")
        /\ current' = k + 1
    BY <1>2, SingleCalls, SingleCallReturns DEF Passes, Returns
  <1>4. /\ k = Last - 1 => WithdrawToken(Admin)
        /\ k = Last => Withdraw(Admin)
    BY <1>2, <1>3 DEF Lands, OnPresale, Tell
  <1>5. NextCall(k).op \notin {"initialize", "finalize", "buyToken"}
    BY <1>3 DEF Tell
  <1>6. /\ SameTerms /\ lamports'[Team] = lamports[Team]
        /\ now' = now /\ presale_mint' = presale_mint
    BY <1>2, <1>5, OthersKeepTerms, LandsInTime
  <1>7. OwnPresale'
    BY <1>1, <1>2, <1>3, <1>6, StaysOwn DEF SameTerms
  <1>8. ASSUME now' < presale'.end_time
        PROVE  ServedSoFar'
    <2>1. ServedSoFar
      BY <1>2, <1>6, <1>8 DEF SameTerms
    <2>2. user' = user /\ \A u \in Users : tokens'[u] = tokens[u]
      BY <1>2, <1>4, CampaignAssumption, PresaleAssumption
      DEF WithdrawToken, Withdraw, TypeOK
    <2>3. StillToServe'
      BY <1>2, <2>1, <2>2 DEF ServedSoFar, StillToServe, visiting
    <2>4. TeamDue' = TeamDue
      BY <1>6 DEF SameTerms, TeamDue
    <2>5. loop' = "next" /\ accounts' = {}
      BY <1>1, <1>2, <2>1 DEF ServedSoFar, visiting
    <2>6. vault' = 0
      BY <1>1, <1>2, <1>4, <2>1 DEF ServedSoFar, WithdrawToken, Withdraw
    <2>7. k = Last => escrow' = NoAccount
      BY <1>4 DEF Withdraw, Debited
    <2>8. current' > Last' => k = Last
      BY <1>1, <1>3 DEF Last
    <2> QED
      BY <1>6, <2>1, <2>3, <2>4, <2>5, <2>6, <2>7, <2>8
      DEF ServedSoFar, SameTerms
  <1> QED
    BY <1>7, <1>8 DEF SoundRun

\* A refused or unconfirmed call goes unnoticed only in the last purchase.
LEMMA BrokenOffOnRun ==
  ASSUME RunsInv, NEW k \in 1 .. Last, Refused(k) \/ Unconfirmed(k), failed' = {}
  PROVE  SoundRun'
  <1>1. /\ AtCall(k) /\ k \in running /\ BreaksOff(k)
        /\ UNCHANGED <<chain, run, mint, visiting>>
        /\ in_flight' \in {in_flight, in_flight \cup {NextCall(k)}}
    BY DEF Refused, Unconfirmed, BreaksOffUnconfirmed, AtCall
  <1>2. Caught(k) /\ Passes(k) /\ k = LastPurchaseIt /\ failed = {}
    <2>1. ~Throws(k)
      BY DEF Throws
    <2>2. Caught(k) /\ Passes(k)
      BY <1>1, <2>1 DEF BreaksOff
    <2> QED
      BY <2>2 DEF Caught, Passes
  <1>3. ScriptInv /\ OwnPresale
    BY <1>2 DEF RunsInv, CampaignInv, RunInv, SoundRun
  <1>4. /\ k = current /\ current' = k + 1 /\ running' = {current'} \cap 1 .. Last
    BY <1>1, <1>2, <1>3, RunsAlone
  <1>5. k \in Nat /\ k > 1 /\ current' = FinalizeIt /\ FinalizeIt \in Nat
    BY <1>2, <1>4, ListsTyped DEF LastPurchaseIt, FinalizeIt, Last
  <1>6. \A tx \in in_flight' : tx \in in_flight \/ tx.op = "buyToken"
    BY <1>1, <1>2, <1>3, SingleCalls
  <1>7. OwnPresale'
    <2>1. UNCHANGED <<run, mint, presale_mint, lamports, presale>>
      BY <1>1 DEF chain, vars
    <2> QED
      BY <1>3, <1>4, <1>5, <1>6, <2>1, StaysOwn
  <1>8. ~ (current' > FinalizeIt')
    BY <1>5 DEF FinalizeIt, Last
  <1> QED
    BY <1>7, <1>8 DEF SoundRun

\* The creation of the token.
LEMMA CreateTokenOnRun ==
  ASSUME RunsInv, CreateToken, failed' = {}
  PROVE  SoundRun'
  <1>1. /\ 1 \in running /\ progress' = progress
        /\ UNCHANGED <<run, presale_mint, in_flight>>
    BY ClaimsComeLast DEF CreateToken, Throws, chain
  <1>2. /\ failed = {} /\ current' = current /\ running' = running
    BY <1>1 DEF progress
  <1>3. OwnPresale /\ current = 1
    BY <1>1, <1>2 DEF RunsInv, RunInv, SoundRun, OwnPresale
  <1>4. OwnPresale'
    BY <1>1, <1>2, <1>3 DEF OwnPresale, Last
  <1>5. ~ (current' > FinalizeIt')
    BY <1>2, <1>3, ClaimsComeLast, OpsAre DEF FinalizeIt, Last
  <1> QED
    BY <1>4, <1>5 DEF SoundRun

\* What the claim function does between its calls: a wallet on the list without
\* its tokens has an account, and is owed.
LEMMA VisitsOnRun ==
  ASSUME RunsInv, failed' = {},
         FetchAccounts \/ (\E u \in Users : VisitAccount(u)) \/ AllVisited
  PROVE  SoundRun'
  <1>1. /\ ClaimIt \in 1 .. Last /\ ClaimIt > 1 /\ ClaimIt > FinalizeIt
        /\ Last \in Nat /\ FinalizeIt \in Nat /\ ClaimIt = Last - 2
    BY ClaimsComeLast, OpsAre
  <1>2. /\ ClaimIt \in running /\ failed = {} /\ ScriptInv /\ SoundRun
        /\ SaleInv /\ TypeOK /\ DeliveredAtMostBought
        /\ UNCHANGED <<chain, run, mint, in_flight>>
    BY DEF RunsInv, RunInv, CampaignInv, ProgramInv, FundsInv, ClaimInv,
           DeliveryInv, FetchAccounts, VisitAccount, AllVisited, Passes, progress
  <1>3. UNCHANGED <<now, presale, user, escrow, lamports, vault, tokens,
                    presale_mint>>
    BY <1>2 DEF chain, vars
  <1>4. /\ OwnPresale /\ current = ClaimIt
        /\ now < presale.end_time => ServedSoFar
    BY <1>1, <1>2, RunsAlone DEF SoundRun
  <1>5. /\ running' = {current'} \cap 1 .. Last
        /\ \/ current' = ClaimIt
           \/ /\ current' = ClaimIt + 1
              /\ loop = "next" /\ accounts = {} /\ UNCHANGED visiting
    <2>1. CASE AllVisited
      BY <1>2, <1>4, <2>1, RunsAlone DEF AllVisited
    <2>2. CASE FetchAccounts \/ \E u \in Users : VisitAccount(u)
      BY <1>4, <2>2 DEF FetchAccounts, VisitAccount, progress, OwnPresale
    <2> QED
      BY <2>1, <2>2
  <1>6. OwnPresale'
    BY <1>1, <1>2, <1>3, <1>4, <1>5, StaysOwn
  <1>7. ASSUME now' < presale'.end_time
        PROVE  ServedSoFar'
    <2>1. ServedSoFar /\ TeamDue' = TeamDue
      BY <1>3, <1>4, <1>7 DEF TeamDue
    <2>2. StillToServe'
      <3>1. CASE FetchAccounts
        <4> SUFFICES ASSUME NEW u \in Users, user[u].is_whitelisted
                     PROVE  u \in accounts'
          BY <1>3 DEF StillToServe
        <4>1. user[u].exists
          BY <1>2 DEF SaleInv, StrangersOwnNothing, NewUser
        <4> QED
          BY <3>1, <4>1 DEF FetchAccounts
      <3>2. ASSUME NEW w \in Users, VisitAccount(w)
            PROVE  StillToServe'
        <4> SUFFICES ASSUME NEW u \in Users, user[u].is_whitelisted,
                            tokens[u] # user[u].user_buy_amount
                     PROVE  u \in accounts' \/ (loop' = "serve" /\ claiming' = u)
          BY <1>3 DEF StillToServe
        <4>1. u \in accounts
          BY <2>1, <3>2 DEF ServedSoFar, StillToServe, VisitAccount
        <4>2. Owed(u)
          <5>1. /\ tokens[u] \in Nat /\ user[u].user_buy_amount \in Nat
                /\ tokens[u] <= user[u].user_buy_amount
            BY <1>2, AmountsTyped DEF DeliveredAtMostBought
          <5> QED
            BY <5>1 DEF Owed
        <4> QED
          BY <3>2, <4>1, <4>2 DEF VisitAccount, StillToVisit
      <3>3. CASE AllVisited
        BY <1>3, <2>1, <3>3 DEF ServedSoFar, StillToServe, AllVisited, visiting
      <3> QED
        BY <3>1, <3>2, <3>3
    <2>3. current' > ClaimIt' => loop' = "next" /\ accounts' = {}
      BY <1>1, <1>5 DEF ClaimIt, Last, visiting
    <2>4. ~ (current' > Last' - 1) /\ ~ (current' > Last')
      BY <1>1, <1>5 DEF Last
    <2> QED
      BY <1>3, <2>1, <2>2, <2>3, <2>4 DEF ServedSoFar
  <1> QED
    BY <1>6, <1>7 DEF SoundRun

\* Nothing but initialize is sent before the presale is there.
LEMMA OnlyInitializeKept ==
  ASSUME RunsInv, [CampaignNext]_campaign_vars
  PROVE  OnlyInitializeBefore'
  <1>1. Initialized => Initialized'
    BY StepInProgram, InitializedForGood DEF RunsInv, CampaignInv
  <1>2. SUFFICES ASSUME ~Initialized
                 PROVE  \A tx \in in_flight' : tx.op = "initialize"
    BY <1>1 DEF OnlyInitializeBefore
  <1>3. \A tx \in in_flight : tx.op = "initialize"
    BY <1>2 DEF RunsInv, RunInv, OnlyInitializeBefore
  <1>4. ASSUME NEW k \in 1 .. Last, Call(k)
        PROVE  \A tx \in in_flight' : tx.op = "initialize"
    <2>1. CASE Confirmed(k) \/ Refused(k)
      BY <1>3, <2>1 DEF Confirmed, Refused
    <2>2. CASE Unconfirmed(k)
      BY <1>2, <1>3, <2>2 DEF Unconfirmed, Acceptable, Initialized
    <2> QED
      BY <1>4, <2>1, <2>2 DEF Call
  <1>5. CASE ~ \E k \in 1 .. Last : Call(k)
    <2>1. in_flight' \subseteq in_flight
      BY <1>5
      DEF CampaignNext, ScriptStep, CreateToken, FetchAccounts, VisitAccount,
          AllVisited, ReadFails, GivesUp, StartAgain, LandsLate, Expires,
          OutsideStep, OpensAta, ClockStep, campaign_vars
    <2> QED
      BY <1>3, <2>1
  <1> QED
    BY <1>4, <1>5

\* A confirmed call, whichever function makes it.
LEMMA ConfirmedOnRun ==
  ASSUME RunsInv, NEW k \in 1 .. Last, Confirmed(k), failed' = {}
  PROVE  SoundRun'
  <1>1. \/ k = InitializeIt \/ (k > 1 /\ k < FinalizeIt) \/ k = FinalizeIt
        \/ k = ClaimIt \/ k \in {Last - 1, Last}
    BY ClaimsComeLast
  <1> QED
    BY <1>1, InitializeOnRun, EarlyCallOnRun, FinalizeOnRun, ClaimOnRun,
       WithdrawalOnRun

\* RunInv holds in every state of a campaign.
LEMMA RunInvariant == CampaignSpec => []RunInv
  <1>1. CampaignInit => RunInv
    <2> SUFFICES ASSUME CampaignInit
                 PROVE  RunInv
      OBVIOUS
    <2>1. OwnPresale
      BY ClaimsComeLast DEF CampaignInit, OwnPresale
    <2>2. ~ (current > FinalizeIt)
      BY ClaimsComeLast, OpsAre DEF CampaignInit
    <2> QED
      BY <2>1, <2>2 DEF CampaignInit, RunInv, SoundRun, OnlyInitializeBefore
  <1>2. RunsInv /\ [CampaignNext]_campaign_vars => RunInv'
    <2> SUFFICES ASSUME RunsInv, [CampaignNext]_campaign_vars
                 PROVE  SoundRun'
      BY OnlyInitializeKept DEF RunInv
    <2>1. ASSUME failed' = {}, ScriptStep
          PROVE  SoundRun'
      <3>1. CASE ReadFails
        BY <2>1, <3>1 DEF ReadFails, Throws
      <3>2. CASE ~ReadFails
        BY <2>1, <3>2, ConfirmedOnRun, BrokenOffOnRun, CreateTokenOnRun,
           VisitsOnRun
        DEF ScriptStep, Call
      <3> QED
        BY <3>1, <3>2
    <2>2. CASE failed' # {}
      BY <2>2 DEF SoundRun
    <2>3. CASE GivesUp
      BY <2>3 DEF GivesUp, SoundRun
    <2>4. CASE \E tx \in in_flight : LandsLate(tx)
      BY <2>4, LandsLateOnRun
    <2> QED
      BY <2>1, <2>2, <2>3, <2>4, StartAgainOnRun, OutsideOnRun DEF CampaignNext
  <1>3. ScriptInv /\ ProgramInv /\ ClaimInv /\ RunningOK /\ RunInv <=> RunsInv
    BY DEF RunsInv, CampaignInv
  <1> QED
    BY <1>1, <1>2, <1>3, ScriptInvariant, ProgramInvariant, ClaimInvariant,
       RunningInvariant, PTL
    DEF CampaignSpec

\* Once the claim function has returned, nobody on the list is owed a token.
LEMMA NobodyWaits ==
  ASSUME ServedSoFar, current > ClaimIt
  PROVE  \A u \in Users : user[u].is_whitelisted =>
                            tokens[u] = user[u].user_buy_amount
  BY DEF ServedSoFar, StillToServe

\* Theorem: a run in which no function failed has served everybody: each wallet
\* on the list has what it bought, the team its share, the admin the rest.
\* However long the lists are, and whatever earlier runs left behind.
THEOREM GreenRunServes == CampaignSpec => []GreenMeansServed
  <1>1. ScriptInv /\ RunInv => GreenMeansServed
    <2> SUFFICES ASSUME ScriptInv, RunInv, Green, now < presale.end_time
                 PROVE  Served
      BY DEF GreenMeansServed
    <2>1. /\ current > Last /\ current > Last - 1 /\ current > ClaimIt
          /\ current > FinalizeIt /\ failed = {}
      BY ListsTyped DEF Green, ScriptInv, ProgressOK, Last, ClaimIt, FinalizeIt
    <2>2. ServedSoFar
      BY <2>1 DEF RunInv, SoundRun
    <2> QED
      BY <2>1, <2>2, NobodyWaits DEF ServedSoFar, Served, TeamDue
  <1> QED
    BY <1>1, ScriptInvariant, RunInvariant, PTL

\* Of the transactions of the script only withdraw_token gives the admin tokens.
LEMMA AdminGains ==
  ASSUME TypeOK, NEW tx \in Tx, Lands(tx), tokens'[Admin] > tokens[Admin]
  PROVE  tx.op = "withdrawToken" /\ HasVault(tx)
  <1>1. tokens[Admin] \in Nat /\ tokens' # tokens
    BY CampaignAssumption DEF TypeOK
  <1>2. CASE tx.op = "initialize"
    BY <1>1, <1>2 DEF Lands, OnPresale, Initialize
  <1>3. CASE tx.op = "createAta"
    BY <1>1, <1>3 DEF Lands, OnPresale, CreatesAta, vars
  <1>4. CASE tx.op \notin {"initialize", "createAta"}
    <2>1. OnPresale(tx)
      BY <1>4 DEF Lands
    <2>2. CASE tx.op = "depositToken"
      <3>1. tokens' = [tokens EXCEPT ![Admin] = @ - DepositAmount]
        BY <2>1, <2>2 DEF OnPresale, DepositToken
      <3>2. DepositAmount \in Nat
        BY RuntimeAssumption, PresaleAssumption, CampaignAssumption DEF U64
      <3>3. tokens'[Admin] = tokens[Admin] - DepositAmount
        BY <3>1, CampaignAssumption DEF TypeOK
      <3> QED
        BY <1>1, <3>2, <3>3
    <2>3. CASE tx.op = "claimToken"
      <3>1. /\ tx.u \in Users /\ tx.u # Admin
            /\ tokens' = [tokens EXCEPT ![tx.u] = @ + user[tx.u].user_buy_amount]
        BY <2>1, <2>3, PresaleAssumption, CampaignAssumption
        DEF OnPresale, ClaimToken, Tx
      <3>2. tokens'[Admin] = tokens[Admin]
        BY <3>1, CampaignAssumption DEF TypeOK
      <3> QED
        BY <1>1, <3>2
    <2>4. CASE tx.op \in {"addWhitelist", "removeWhitelist", "buyToken",
                          "finalize", "withdraw"}
      BY <1>1, <2>1, <2>4
      DEF OnPresale, AddWhitelist, RemoveWhitelist, BuyToken, Finalize, Withdraw
    <2> QED
      BY <1>4, <2>1, <2>2, <2>3, <2>4 DEF Tx, OnPresale
  <1> QED
    BY <1>2, <1>3, <1>4

\* Theorem: in the run that created the presale the admin takes tokens out of
\* the vault only when nobody on the list waits for some.
THEOREM WithdrawsNothingOwed == CampaignSpec => NothingOwedIsWithdrawn
  <1> DEFINE Unsold ==
               presale_mint = mint /\ failed = {} /\ now < presale.end_time
                 /\ tokens'[Admin] > tokens[Admin]
               => \A u \in Users : user[u].is_whitelisted =>
                                     tokens[u] = user[u].user_buy_amount
  <1>1. ScriptInv /\ ProgramInv /\ RunInv /\ [CampaignNext]_campaign_vars
        => [Unsold]_campaign_vars
    <2> SUFFICES ASSUME ScriptInv, ProgramInv, RunInv, CampaignNext,
                        presale_mint = mint, failed = {}, now < presale.end_time,
                        tokens'[Admin] > tokens[Admin]
                 PROVE  \A u \in Users : user[u].is_whitelisted =>
                                           tokens[u] = user[u].user_buy_amount
      OBVIOUS
    <2>1. /\ TypeOK /\ OwnPresale /\ current \in 1 .. Last + 1 /\ Last \in Nat
          /\ current > FinalizeIt => ServedSoFar
          /\ tokens[Admin] \in Nat /\ tokens' # tokens
      BY ClaimsComeLast, CampaignAssumption
      DEF ProgramInv, FundsInv, RunInv, SoundRun, ScriptInv, ProgressOK, TypeOK
    <2>2. ASSUME NEW k \in 1 .. Last, Confirmed(k)
          PROVE  current > FinalizeIt /\ current > ClaimIt
      <3>1. /\ AtCall(k) /\ k \in running /\ mint # 0 /\ Lands(NextCall(k))
        BY <2>2 DEF Confirmed, AtCall
      <3>2. NextCall(k) \in Tx /\ step[k] \in 1 .. Calls(k)
        <4>1. NextCall(k) \in Tx
          BY <3>1, FinalizeCall
        <4>2. step[k] \in 1 .. Calls(k)
          BY CallsTyped DEF ScriptInv, ProgressOK
        <4> QED
          BY <4>1, <4>2
      <3>3. NextCall(k).op = "withdrawToken"
        BY <2>1, <3>1, <3>2, AdminGains
      <3>4. k = Last - 1
        BY <3>2, <3>3, OpsAre DEF NextCall
      <3>5. current = Last - 1
        BY <2>1, <3>1, <3>4 DEF OwnPresale
      <3> QED
        BY <3>5, ClaimsComeLast, ListsTyped DEF Last, FinalizeIt, ClaimIt
    <2>3. ASSUME NEW tx \in in_flight, LandsLate(tx)
          PROVE  FALSE
      <3>1. tx \in Tx /\ Lands(tx)
        BY <2>3 DEF ScriptInv, TokensOK, LandsLate
      <3>2. tx.op = "withdrawToken" /\ tx.mint = presale_mint
        BY <2>1, <3>1, AdminGains DEF HasVault
      <3>3. ~ (current > 1)
        BY <3>2 DEF OwnPresale, RunInv, SoundRun
      <3>4. presale_mint = 0
        BY <2>1, <3>3 DEF OwnPresale, ScriptInv, TokensOK
      <3>5. tx.mint \in 1 .. MaxRuns
        BY <3>1, <3>2 DEF Tx
      <3> QED
        BY <3>2, <3>4, <3>5
    <2>4. CASE \/ \E k \in 1 .. Last : Refused(k) \/ Unconfirmed(k)
               \/ CreateToken \/ FetchAccounts
               \/ (\E u \in Users : VisitAccount(u)) \/ AllVisited
               \/ ReadFails \/ GivesUp \/ StartAgain
               \/ (\E tx \in in_flight : Expires(tx))
               \/ (\E u \in AtaOpeners : OpensAta(u)) \/ ClockStep
      <3>1. tokens' = tokens
        BY <2>4
        DEF Refused, Unconfirmed, CreateToken, FetchAccounts, VisitAccount,
            AllVisited, ReadFails, GivesUp, StartAgain, Expires, OpensAta,
            CreatesAta,
            ClockStep, Tick, chain, vars
      <3> QED
        BY <2>1, <3>1
    <2>5. CASE \E u \in Outsiders : OutsideStep(u)
      <3>1. tokens' = tokens
        BY <2>5 DEF OutsideStep, BuyToken, RefundToken
      <3> QED
        BY <2>1, <3>1
    <2> QED
      BY <2>1, <2>2, <2>3, <2>4, <2>5, NobodyWaits
      DEF CampaignNext, ScriptStep, Call
  <1> QED
    BY <1>1, ScriptInvariant, ProgramInvariant, RunInvariant, PTL
    DEF CampaignSpec, NothingOwedIsWithdrawn

-----------------------------------------------------------------------------
(* What finalize decides in a campaign: the script calls it without force   *)
(* and never moves the dates                                                *)

\* Buyers neither finalize nor move the end of the sale.
LEMMA BuyersKeepFinalized ==
  ASSUME TypeOK, NEW u \in Users,
         (\E amount \in BuyAmounts : BuyToken(u, amount)) \/ RefundToken(u)
  PROVE  /\ presale'.is_finalized = presale.is_finalized
         /\ presale'.end_time = presale.end_time /\ presale.end_time \in Nat
  <1>1. presale \in PresaleAccount /\ presale.end_time \in Nat
    BY RuntimeAssumption DEF TypeOK, PresaleAccount, U64
  <1> QED
    BY <1>1 DEF BuyToken, Sold, RefundToken, Refunded, PresaleAccount

\* No transaction of the script finalizes by force or postpones the end.
LEMMA LandsUnforced ==
  ASSUME TypeOK, NEW tx \in Tx, Lands(tx)
  PROVE  NeverForced /\ NeverPostponed
  <1>1. Admin \in Admins /\ presale \in PresaleAccount
    BY CampaignAssumption DEF TypeOK
  <1>2. CASE tx.op = "initialize"
    <2>1. Initialize(Admin, SaleArgs)
      BY <1>2 DEF Lands, OnPresale
    <2>2. ~Initialized /\ presale'.is_finalized = 0
      BY <2>1 DEF Initialize, Initialized, ZeroedPresale
    <2> QED
      BY <2>2 DEF NeverForced, NeverPostponed
  <1>3. CASE tx.op # "initialize"
    <2>1. presale'.end_time = presale.end_time
      BY <1>3, LandsInTime
    <2>2. NeverPostponed
      <3>1. presale.end_time \in Nat
        BY <1>1, RuntimeAssumption DEF PresaleAccount, U64
      <3> QED
        BY <2>1, <3>1 DEF NeverPostponed
    <2>3. CASE tx.op = "finalize"
      BY <1>1, <2>2, <2>3 DEF Lands, OnPresale, NeverForced
    <2>4. CASE tx.op = "buyToken"
      <3>1. /\ BuyToken(tx.u, tx.amount)
            /\ tx.u \in Users /\ tx.amount \in BuyAmounts
        BY <2>4 DEF Lands, OnPresale, Tx
      <3>2. presale'.is_finalized = presale.is_finalized
        BY <3>1, BuyersKeepFinalized
      <3> QED
        BY <2>2, <3>2 DEF NeverForced
    <2>5. CASE tx.op \notin {"finalize", "buyToken"}
      <3>1. presale'.is_finalized = presale.is_finalized
        BY <1>1, <1>3, <2>5
        DEF Lands, OnPresale, CreatesAta, vars, DepositToken, AddWhitelist,
            RemoveWhitelist, ClaimToken, WithdrawToken, Withdraw,
            PresaleAccount
      <3> QED
        BY <2>2, <3>1 DEF NeverForced
    <2> QED
      BY <2>3, <2>4, <2>5
  <1> QED
    BY <1>2, <1>3

\* Nor does any other step of a campaign.
LEMMA CampaignUnforced ==
  ASSUME ScriptInv, TypeOK, [CampaignNext]_campaign_vars
  PROVE  [NeverForced /\ NeverPostponed]_vars
  <1>1. CASE \E tx \in Tx : Lands(tx)
    BY <1>1, LandsUnforced
  <1>2. ASSUME NEW u \in Outsiders, OutsideStep(u)
        PROVE  NeverForced /\ NeverPostponed
    <2>1. /\ u \in Users
          /\ (\E amount \in BuyAmounts : BuyToken(u, amount)) \/ RefundToken(u)
      BY <1>2, CampaignAssumption DEF OutsideStep
    <2>2. /\ presale'.is_finalized = presale.is_finalized
          /\ presale'.end_time = presale.end_time /\ presale.end_time \in Nat
      BY <2>1, BuyersKeepFinalized
    <2> QED
      BY <2>2 DEF NeverForced, NeverPostponed
  <1>3. CASE ClockStep
    <2>1. presale' = presale /\ presale.end_time \in Nat
      BY <1>3, RuntimeAssumption DEF ClockStep, Tick, TypeOK, PresaleAccount, U64
    <2> QED
      BY <2>1 DEF NeverForced, NeverPostponed
  <1>4. ASSUME ~ \E tx \in Tx : Lands(tx),
               ~ \E u \in Outsiders : OutsideStep(u), ~ClockStep
        PROVE  UNCHANGED vars
    <2>1. ASSUME NEW k \in 1 .. Last, Call(k)
          PROVE  UNCHANGED vars
      BY <1>4, <2>1, NextCallTyped
      DEF Call, Confirmed, Refused, Unconfirmed, chain
    <2>2. CASE ScriptStep
      BY <2>1, <2>2
      DEF ScriptStep, CreateToken, FetchAccounts, VisitAccount, AllVisited,
          ReadFails, chain
    <2>3. CASE \E tx \in in_flight : LandsLate(tx) \/ Expires(tx)
      BY <1>4, <2>3 DEF ScriptInv, TokensOK, LandsLate, Expires, chain
    <2>4. CASE \E u \in AtaOpeners : OpensAta(u)
      BY <2>4 DEF OpensAta, CreatesAta
    <2>5. CASE GivesUp \/ StartAgain \/ UNCHANGED campaign_vars
      BY <2>5 DEF GivesUp, StartAgain, campaign_vars, chain
    <2> QED
      BY <1>4, <2>2, <2>3, <2>4, <2>5 DEF CampaignNext
  <1> QED
    BY <1>1, <1>2, <1>3, <1>4

\* A campaign is a behaviour of the program of which the settlement theorems
\* speak.
LEMMA CampaignIsUnforced ==
  CampaignSpec =>
    Spec /\ [][NeverForced]_vars /\ [][NeverPostponed]_vars
  <1>1. ScriptInv /\ TypeOK /\ [CampaignNext]_campaign_vars
          => [NeverForced]_vars /\ [NeverPostponed]_vars
    BY CampaignUnforced
  <1>2. CampaignSpec => []TypeOK
    BY CampaignInProgram, TypeCorrect, PTL
  <1> QED
    BY <1>1, <1>2, CampaignInProgram, ScriptInvariant, PTL DEF CampaignSpec

\* Theorem: in every campaign, whatever is lost, late or run again, the presale
\* is finalized only when it sold out or left less than its soft cap.
THEOREM CampaignReachesACap == CampaignSpec => []FinalizedMeansCapReached
  BY CampaignIsUnforced, FinalizedReachedACap, PTL

\* Theorem: in every campaign the lamports and the unsold tokens leave before
\* the end of the sale only when it is sold out.
THEOREM CampaignPaysOutSoldOut == CampaignSpec => []PaidOutEarlyMeansSoldOut
  BY CampaignIsUnforced, PaidOutEarlySoldOut, PTL
=============================================================================
