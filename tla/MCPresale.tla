------------------------------ MODULE MCPresale ------------------------------
(* Values of the constants of Presale for TLC. *)
EXTENDS PresaleProperties, TLC

CONSTANTS u1, u2, adm, adm2

Args(pct, rate, max_buy, duration, total, allocation, softcap) ==
  [team_percent |-> pct, presale_rate |-> rate, user_max_buy |-> max_buy,
   presale_duration |-> duration, total_token_amount |-> total,
   token_allocation |-> allocation, softcap_precent |-> softcap]

\* Half of eighteen tokens on sale at two per lamport, soft cap at three, half
\* of what is raised for the team.
StandardArgs == {Args(5000, 2, 2, 1, 18, 5000, 1700)}

\* Corners of the arithmetic: rate zero with tokens left and with none; no
\* soft cap; more than the whole for the team; an allotment that rounds down;
\* a rate whose product with 2 overflows; a total whose share overflows.
CornerArgs ==
  {Args(5000, 0, 2, 1, 10, 5000, 2500), Args(5000, 0, 2, 1, 10, 0, 2500),
   Args(5000, 2, 3, 1, 10, 5000, 0), Args(20000, 1, 2, 1, 4, 10000, 10000),
   Args(3333, 3, 2, 1, 3, 9000, 5000), Args(1000, 60000, 2, 0, 8, 7500, 1),
   Args(0, 1, 1, 1, 20, 5001, 0)}

OneBuyerFunds == [u \in {u1} |-> 4]

TwoBuyersFunds == [u \in {u1, u2} |-> 4]

Symmetry == Permutations({u1, u2})
=============================================================================
