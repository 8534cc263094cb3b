-------------------------- MODULE CampaignProperties --------------------------
(***************************************************************************)
(* What a campaign run by the script promises.                             *)
(***************************************************************************)
EXTENDS Campaign, PresaleProperties

\* The state of the script and of its transactions has the shape the actions
\* rely on; while the claim function serves a wallet, it is a wallet.
CampaignTypeOK ==
  /\ TypeOK
  /\ run \in 1 .. MaxRuns
  /\ mint \in {0, run}
  /\ presale_mint \in 0 .. run
  /\ current \in 1 .. Last + 1
  /\ running \subseteq 1 .. Last
  /\ step \in [1 .. Last -> Nat \ {0}]
  /\ \A k \in running : step[k] <= Len(Its[k])
  /\ failed \subseteq 1 .. Last
  /\ loop \in {"fetch", "next", "serve"}
  /\ accounts \subseteq Users
  /\ claiming \in Users \cup {Nobody}
  /\ loop = "serve" => claiming \in Users
  /\ atas \subseteq Users
  /\ in_flight \subseteq Tx
  /\ faults \in 0 .. MaxFaults

-----------------------------------------------------------------------------
(* The script uses the program within its promises *)

\* claim_token pays a repeated claim again, but the campaign never makes it
\* do so: a wallet never receives more than it bought, since a wallet is
\* served only right after its token account was created, and a new run works
\* with a new token.
DeliveredAtMostBought == \A u \in Users : tokens[u] <= user[u].user_buy_amount

\* finalize pays the team again when it is called again. Each run of the
\* script calls it once and gives up on a lost confirmation, so the team gets
\* at most its share per run.
TeamPaidPerRun ==
  lamports[Team] <= run * Share(presale.total_sol_amount, presale.team_percent)

-----------------------------------------------------------------------------
(* Strengthenings that make the invariants inductive *)

\* How many calls function k makes, whatever the state.
Calls(k) ==
  IF k = Len(Buyers) + 3 THEN Len(Others)
  ELSE IF k = Len(Buyers) + 4 THEN Removals
  ELSE IF k = ClaimIt THEN 2 ELSE 1

\* A transaction is about the token of this run or of one before; and so is
\* the presale's vault, once there is one.
NothingOfLaterRuns ==
  /\ \A tx \in in_flight : tx.mint = mint \/ tx.mint < run
  /\ presale_mint = mint \/ presale_mint < run

ProgressOK ==
  /\ current \in 1 .. Last + 1 /\ running \subseteq 1 .. Last
  /\ step \in [1 .. Last -> Nat \ {0}]
  /\ \A k \in 1 .. Last : step[k] <= Calls(k)
  /\ failed \subseteq 1 .. Last

TokensOK ==
  /\ run \in 1 .. MaxRuns /\ mint \in {0, run} /\ presale_mint \in 0 .. run
  /\ atas \subseteq Users /\ in_flight \subseteq Tx /\ faults \in 0 .. MaxFaults
  /\ NothingOfLaterRuns

VisitingOK ==
  /\ loop \in {"fetch", "next", "serve"} /\ accounts \subseteq Users
  /\ claiming \in Users \cup {Nobody}
  /\ loop = "serve" => claiming \in Users

ScriptInv == ProgressOK /\ TokensOK /\ VisitingOK

\* A claim of wallet u for token m is in flight; is the next call of the claim
\* function; has been paid.
Pending(u, m) == [op |-> "claimToken", u |-> u, mint |-> m] \in in_flight
Due(u, m) == mint = m /\ claiming = u /\ step[ClaimIt] = 2
Delivered(u, m) == presale_mint = m /\ tokens[u] > 0

\* Of each wallet and token at most one claim is anywhere, and none before the
\* wallet has an account for the token.
OneClaim(u, m) ==
  /\ ~ (Pending(u, m) /\ Due(u, m))
  /\ ~ (Pending(u, m) /\ Delivered(u, m))
  /\ ~ (Due(u, m) /\ Delivered(u, m))
  /\ mint = m /\ u \notin atas =>
       ~ Pending(u, m) /\ ~ Due(u, m) /\ ~ Delivered(u, m)

OneClaimEach == \A u \in Users, m \in 1 .. MaxRuns : OneClaim(u, m)

\* The presale has a vault from initialize on.
DeliveryInv == DeliveredAtMostBought /\ (Initialized <=> presale_mint # 0)

\* The claim function is past the creation of an account only while it serves.
ServingOK == step[ClaimIt] = 2 => loop = "serve" /\ mint # 0

ClaimInv == OneClaimEach /\ DeliveryInv /\ ServingOK

\* mocha waits for the last function it called; the claim function is the only
\* one that visits accounts.
RunningOK ==
  /\ \A k \in running : k <= current
  /\ current <= Last => current \in running
  /\ current < ClaimIt => loop = "fetch"

\* The finalize transaction of run m; whether this run may still send its own.
FinalizeIt == Last - 3
FinalizeOf(m) == [op |-> "finalize", mint |-> m]
FinalizeToCall == current < FinalizeIt \/ FinalizeIt \in running

\* The runs whose finalize has landed or never will.
Spent == {m \in 1 .. run : /\ FinalizeOf(m) \notin in_flight
                           /\ m = run => ~FinalizeToCall}

TeamDue == Share(presale.total_sol_amount, presale.team_percent)

\* Once the team was paid, a cap is reached and nothing can cancel the presale,
\* so that no refund lowers the share.
PaidForGood ==
  lamports[Team] > 0 =>
    /\ presale.is_cancelled = 0
    /\ presale.is_softcapped = 1 \/ presale.is_hardcapped = 1

\* The team has at most a share for each run whose finalize is spent.
TeamInv ==
  /\ FinalizeToCall => FinalizeOf(run) \notin in_flight
  /\ PaidForGood
  /\ lamports[Team] <= Cardinality(Spent) * TeamDue

-----------------------------------------------------------------------------
(* What a run without failures means *)

Green == current > Last /\ running = {} /\ failed = {}

\* Every wallet on the list has exactly the tokens it bought, the team its
\* share, and the admin the rest.
Served ==
  /\ \A u \in Users : user[u].is_whitelisted =>
                        tokens[u] = user[u].user_buy_amount
  /\ vault = 0
  /\ escrow = NoAccount
  /\ lamports[Team] = Share(presale.total_sol_amount, presale.team_percent)

\* A run in which no function failed has served everybody, whatever buyers did
\* by themselves in between, when it ends before the sale's last second (in
\* which finalize and purchases are both accepted).
GreenMeansServed == Green /\ now < presale.end_time => Served

\* withdraw_token takes all that is in the vault. The run that created the
\* presale calls it after the claims: when it takes anything before the sale's
\* last second, the sale is sold out, no wallet on the list has tokens to come,
\* and what is taken was bought by wallets removed since, unless mocha has
\* reported a failed function by then.
NothingOwedIsWithdrawn ==
  [][/\ presale_mint = mint /\ failed = {} /\ now < presale.end_time
     /\ tokens'[Admin] > tokens[Admin]
     => \A u \in Users : user[u].is_whitelisted =>
                           tokens[u] = user[u].user_buy_amount]_campaign_vars

-----------------------------------------------------------------------------
(* Strengthenings: what is known while no function of the run has failed *)

\* Before initialize nothing else is accepted, so that nothing else is in
\* flight.
OnlyInitializeBefore ==
  ~Initialized => \A tx \in in_flight : tx.op = "initialize"

\* The run that has come past its first function created the presale, and the
\* only transaction it has in flight is the purchase whose errors are caught.
OwnPresale ==
  /\ running = {current} \cap 1 .. Last
  /\ current = 1 =>
       presale_mint # run /\ \A tx \in in_flight : tx.mint # run
  /\ current > 1 =>
       /\ mint = run /\ presale_mint = run
       /\ \A tx \in in_flight : tx.op \in {"initialize", "buyToken"}
       /\ current <= FinalizeIt =>
            lamports[Team] = 0 /\ presale.is_cancelled = 0

\* A wallet on the list without its tokens is still to be visited or served.
StillToServe ==
  \A u \in Users :
    user[u].is_whitelisted /\ tokens[u] # user[u].user_buy_amount =>
      loop = "fetch" \/ u \in accounts \/ (loop = "serve" /\ claiming = u)

\* A presale finalized early is sold out; each of the functions after finalize
\* has done its part of Served when it has returned.
ServedSoFar ==
  /\ presale.is_cancelled = 0 /\ presale.is_hardcapped = 1
  /\ lamports[Team] = TeamDue
  /\ StillToServe
  /\ current > ClaimIt => loop = "next" /\ accounts = {}
  /\ current > Last - 1 => vault = 0
  /\ current > Last => escrow = NoAccount

SoundRun ==
  failed = {} =>
    /\ OwnPresale
    /\ current > FinalizeIt /\ now < presale.end_time => ServedSoFar

RunInv == OnlyInitializeBefore /\ SoundRun

-----------------------------------------------------------------------------
(* Liveness *)

\* The event loop is not idle while a function can go on; nothing is assumed of
\* which one goes first, of mocha's patience, of the buyers, or of what is in
\* flight.
FairCampaign == CampaignSpec /\ WF_campaign_vars(ScriptStep)

\* Every run of the script ends, whatever fails.
CampaignEnds == <>[](current > Last /\ running = {})

\* With a cluster that confirms in time, a presale that stays open while the
\* script runs, and wallets without token accounts, everybody is served.
CampaignServes == [](faults = 0) => <>[]Served

-----------------------------------------------------------------------------
(* What the script says of the program and does not find. *)

\* anchor_devnet.ts: the claim function is to "Fetch all user accounts who
\* bought token and claim token". It skips wallets that were removed from the
\* whitelist after they bought.
AllBuyersClaim ==
  Green /\ now < presale.end_time =>
    \A u \in Users : user[u].user_buy_amount > 0 => tokens[u] > 0
=============================================================================
