------------------------------ MODULE MCCampaign ------------------------------
(* Values of the constants of Campaign for TLC. *)
EXTENDS CampaignProperties, TLC

CONSTANTS b1, b2, b3, o1, o2, o3, o4, o5, adm

Args(pct, rate, max_buy, duration, total, allocation, softcap) ==
  [team_percent |-> pct, presale_rate |-> rate, user_max_buy |-> max_buy,
   presale_duration |-> duration, total_token_amount |-> total,
   token_allocation |-> allocation, softcap_precent |-> softcap]

Of(u, amount) == [u |-> u, amount |-> amount]

\* The script's own numbers, with a hundredth of a SOL and one token as units.
RealArgs == Args(1000, 1, 1000, 2, 100, 5000, 2500)
RealBuyers == <<b1, b2, b3>>
RealOthers == <<o1, o2, o3, o4, o5>>
RealPurchases == <<Of(b1, 10), Of(b2, 20), Of(b3, 15)>>
RealLastPurchase == Of(b1, 50)
RealWallets == {b1, b2, b3, o1, o2, o3, o4, o5}
RealFunds == [u \in RealWallets |-> 120]

\* A smaller campaign: one buyer with a function of his own and two wallets in
\* the loop, one of them removed; nine tokens at two per lamport, half of what
\* is raised for the team; o1 can pay for one purchase.
SmallArgs == Args(5000, 2, 5, 1, 18, 5000, 1700)
LongArgs == Args(5000, 2, 5, 2, 18, 5000, 1700)
SmallBuyers == <<b1>>
SmallOthers == <<o1, b2>>
SmallPurchases == <<Of(b2, 2)>>
SmallLastPurchase == Of(b1, 5)
SmallWallets == {b1, b2, o1}
SmallFunds == [u \in SmallWallets |-> IF u = o1 THEN 3 ELSE 12]

SmallInitArgs == {SmallArgs}
LongInitArgs == {LongArgs}
RealInitArgs == {RealArgs}
=============================================================================
