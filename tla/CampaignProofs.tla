---------------------------- MODULE CampaignProofs ----------------------------
(***************************************************************************)
(* The campaign script uses the program within its promises: a proof, for  *)
(* every list of buyers and purchases, any number of runs, and whatever is *)
(* lost or late, that every step of a campaign is a step of the program or *)
(* leaves it alone.                                                        *)
(***************************************************************************)
EXTENDS CampaignProperties, PresaleSaleProofs, SequenceTheorems

-----------------------------------------------------------------------------
(* The calls of the functions *)

\* The transactions about one of the tokens M that are no part of the claims.
OtherTx(M) ==
  [op : {"initialize", "depositToken", "finalize", "withdrawToken", "withdraw"},
   mint : M]
  \cup [op : {"addWhitelist", "removeWhitelist"}, u : Users, mint : M]
  \cup [op : {"buyToken"}, u : Users, amount : BuyAmounts, mint : M]

\* The functions from the purchase for more than is left on.
Back ==
  <<BuyMoreThanIsLeft, FinalizePresale, ClaimForOne,
    WithdrawRemainingTokens, WithdrawSol>>

\* A function on 1 .. n is a sequence of length n.
LEMMA FunctionIsSequence ==
  ASSUME NEW S, NEW n \in Nat, NEW f \in [1 .. n -> S]
  PROVE  f \in Seq(S) /\ Len(f) = n
  OBVIOUS

\* One list of functions after another.
LEMMA Joined ==
  ASSUME NEW S, NEW s \in Seq(S), NEW t \in Seq(S)
  PROVE  /\ s \o t \in Seq(S) /\ Len(s \o t) = Len(s) + Len(t)
         /\ \A k \in 1 .. Len(s) : (s \o t)[k] = s[k]
         /\ \A k \in 1 .. Len(t) : (s \o t)[Len(s) + k] = t[k]
  OBVIOUS

\* The lists of the script, by length and element.
LEMMA ListsTyped ==
  /\ Len(Buyers) \in Nat /\ \A i \in 1 .. Len(Buyers) : Buyers[i] \in Users
  /\ Len(Others) \in Nat \ {0}
  /\ \A i \in 1 .. Len(Others) : Others[i] \in Users
  /\ Removals \in 1 .. Len(Others)
  /\ Len(Purchases) \in Nat
  /\ \A i \in 1 .. Len(Purchases) : Purchases[i] \in Purchase
  BY CampaignAssumption, ElementOfSeq, LenProperties, EmptySeq

\* Every function outside the claims makes at least one call and only calls
\* about the current token.
LEMMA PiecesTyped ==
  ASSUME NEW M, mint \in M
  PROVE  LET S == Seq(OtherTx(M)) IN
         /\ InitializePresaleVault \in S /\ Len(InitializePresaleVault) = 1
         /\ DepositToVault \in S /\ Len(DepositToVault) = 1
         /\ \A b \in Users : AddBuyer(b) \in S /\ Len(AddBuyer(b)) = 1
         /\ AddOthers \in S /\ Len(AddOthers) = Len(Others)
         /\ RemoveOthers \in S /\ Len(RemoveOthers) = Removals
         /\ \A p \in Purchase : Buy(p) \in S /\ Len(Buy(p)) = 1
         /\ BuyMoreThanIsLeft \in S /\ Len(BuyMoreThanIsLeft) = 1
         /\ FinalizePresale \in S /\ Len(FinalizePresale) = 1
         /\ WithdrawRemainingTokens \in S /\ Len(WithdrawRemainingTokens) = 1
         /\ WithdrawSol \in S /\ Len(WithdrawSol) = 1
  <1> DEFINE O == OtherTx(M)
  <1>1. \A op \in {"initialize", "depositToken", "finalize", "withdrawToken",
                   "withdraw"} : Tell(op) \in O
    BY DEF Tell, OtherTx
  <1>2. \A op \in {"addWhitelist", "removeWhitelist"}, u \in Users :
          About(op, u) \in O
    BY DEF About, OtherTx
  <1>3. \A p \in Purchase :
          [op |-> "buyToken", u |-> p.u, amount |-> p.amount, mint |-> mint]
            \in O
    BY DEF Purchase, OtherTx
  <1> HIDE DEF O
  <1>4. \A tx \in O : <<tx>> \in Seq(O) /\ Len(<<tx>>) = 1
    OBVIOUS
  <1>5. AddOthers \in Seq(O) /\ Len(AddOthers) = Len(Others)
    <2>1. AddOthers \in [1 .. Len(Others) -> O]
      BY <1>2, ListsTyped DEF AddOthers
    <2> QED
      BY <2>1, ListsTyped, FunctionIsSequence
  <1>6. RemoveOthers \in Seq(O) /\ Len(RemoveOthers) = Removals
    <2>1. RemoveOthers \in [1 .. Removals -> O]
      BY <1>2, ListsTyped DEF RemoveOthers
    <2>2. Removals \in Nat
      BY ListsTyped
    <2> QED
      BY <2>1, <2>2, FunctionIsSequence
  <1>7. \A p \in Purchase : Buy(p) \in Seq(O) /\ Len(Buy(p)) = 1
    BY <1>3, <1>4 DEF Buy
  <1>8. BuyMoreThanIsLeft \in Seq(O) /\ Len(BuyMoreThanIsLeft) = 1
    BY <1>7, CampaignAssumption DEF BuyMoreThanIsLeft
  <1>9. /\ InitializePresaleVault \in Seq(O) /\ Len(InitializePresaleVault) = 1
        /\ DepositToVault \in Seq(O) /\ Len(DepositToVault) = 1
        /\ FinalizePresale \in Seq(O) /\ Len(FinalizePresale) = 1
        /\ WithdrawRemainingTokens \in Seq(O)
        /\ Len(WithdrawRemainingTokens) = 1
        /\ WithdrawSol \in Seq(O) /\ Len(WithdrawSol) = 1
    BY <1>1, <1>4
    DEF InitializePresaleVault, DepositToVault, FinalizePresale,
        WithdrawRemainingTokens, WithdrawSol
  <1>10. \A b \in Users : AddBuyer(b) \in Seq(O) /\ Len(AddBuyer(b)) = 1
    BY <1>2, <1>4 DEF AddBuyer
  <1> QED
    BY <1>5, <1>6, <1>7, <1>8, <1>9, <1>10 DEF O

\* The place of every function of the script.
LEMMA ItsAre ==
  /\ Its[1] = InitializePresaleVault /\ Its[2] = DepositToVault
  /\ \A i \in 1 .. Len(Buyers) : Its[2 + i] = AddBuyer(Buyers[i])
  /\ Its[Len(Buyers) + 3] = AddOthers /\ Its[Len(Buyers) + 4] = RemoveOthers
  /\ \A i \in 1 .. Len(Purchases) :
       Its[Len(Buyers) + 4 + i] = Buy(Purchases[i])
  /\ Its[LastPurchaseIt] = BuyMoreThanIsLeft
  /\ Its[FinalizeIt] = FinalizePresale
  /\ Its[ClaimIt] = ClaimForOne
  /\ Its[Last - 1] = WithdrawRemainingTokens /\ Its[Last] = WithdrawSol
  <1>0. PICK M : mint \in M
    BY mint \in {mint}
  <1> DEFINE S == Seq(OtherTx(M)) \cup {ClaimForOne}
             b == Len(Buyers)
             p == Len(Purchases)
             X1 == <<InitializePresaleVault, DepositToVault>>
             X2 == [i \in 1 .. Len(Buyers) |-> AddBuyer(Buyers[i])]
             X3 == <<AddOthers, RemoveOthers>>
             X4 == [i \in 1 .. Len(Purchases) |-> Buy(Purchases[i])]
  <1>1. b \in Nat /\ p \in Nat
    BY ListsTyped
  <1>2. X1 \in Seq(S) /\ Len(X1) = 2
    BY <1>0, PiecesTyped
  <1>3. X2 \in Seq(S) /\ Len(X2) = b
    <2>1. X2 \in [1 .. b -> S]
      BY <1>0, PiecesTyped, ListsTyped
    <2> QED
      BY <1>1, <2>1, FunctionIsSequence
  <1>4. X3 \in Seq(S) /\ Len(X3) = 2
    BY <1>0, PiecesTyped
  <1>5. X4 \in Seq(S) /\ Len(X4) = p
    <2>1. X4 \in [1 .. p -> S]
      BY <1>0, PiecesTyped, ListsTyped
    <2> QED
      BY <1>1, <2>1, FunctionIsSequence
  <1>6. Back \in Seq(S) /\ Len(Back) = 5
    BY <1>0, PiecesTyped DEF Back
  <1>7. Its = X1 \o X2 \o X3 \o X4 \o Back
    BY DEF Its, Back
  <1>8. /\ X1[1] = InitializePresaleVault /\ X1[2] = DepositToVault
        /\ \A i \in 1 .. b : X2[i] = AddBuyer(Buyers[i])
        /\ X3[1] = AddOthers /\ X3[2] = RemoveOthers
        /\ \A i \in 1 .. p : X4[i] = Buy(Purchases[i])
    OBVIOUS
  <1> DEFINE Y2 == X1 \o X2
             Y3 == Y2 \o X3
             Y4 == Y3 \o X4
  <1> HIDE DEF S, X1, X2, X3, X4, b, p
  <1>12. Its = Y4 \o Back
    BY <1>7
  <1>13. /\ Y2 \in Seq(S) /\ Len(Y2) = 2 + b
         /\ \A k \in 1 .. 2 : Y2[k] = X1[k]
         /\ \A k \in 1 .. b : Y2[2 + k] = X2[k]
    <2>1. X1 \in Seq(S) /\ Len(X1) \in Nat /\ X2 \in Seq(S)
      BY <1>1, <1>2, <1>3
    <2>2. Y2 \in Seq(S) /\ Len(Y2) = Len(X1) + Len(X2)
      BY <2>1, Joined
    <2>3. \A k \in 1 .. Len(X1) : Y2[k] = X1[k]
      BY <2>1, Joined
    <2>4. \A k \in 1 .. Len(X2) : Y2[Len(X1) + k] = X2[k]
      BY <2>1, Joined
    <2> QED
      BY <2>2, <2>3, <2>4, <1>1, <1>2, <1>3
  <1> HIDE DEF Y2
  <1>14. /\ Y3 \in Seq(S) /\ Len(Y3) = 2 + b + 2
         /\ \A k \in 1 .. 2 + b : Y3[k] = Y2[k]
         /\ \A k \in 1 .. 2 : Y3[2 + b + k] = X3[k]
    <2>1. Y2 \in Seq(S) /\ Len(Y2) \in Nat /\ X3 \in Seq(S)
      BY <1>1, <1>4, <1>13
    <2>2. Y3 \in Seq(S) /\ Len(Y3) = Len(Y2) + Len(X3)
      BY <2>1, Joined
    <2>3. \A k \in 1 .. Len(Y2) : Y3[k] = Y2[k]
      BY <2>1, Joined
    <2>4. \A k \in 1 .. Len(X3) : Y3[Len(Y2) + k] = X3[k]
      BY <2>1, Joined
    <2> QED
      BY <2>2, <2>3, <2>4, <1>1, <1>4, <1>13
  <1> HIDE DEF Y3
  <1>15. /\ Y4 \in Seq(S) /\ Len(Y4) = 2 + b + 2 + p
         /\ \A k \in 1 .. 2 + b + 2 : Y4[k] = Y3[k]
         /\ \A k \in 1 .. p : Y4[2 + b + 2 + k] = X4[k]
    <2>1. Y3 \in Seq(S) /\ Len(Y3) \in Nat /\ X4 \in Seq(S)
      BY <1>1, <1>5, <1>14
    <2>2. Y4 \in Seq(S) /\ Len(Y4) = Len(Y3) + Len(X4)
      BY <2>1, Joined
    <2>3. \A k \in 1 .. Len(Y3) : Y4[k] = Y3[k]
      BY <2>1, Joined
    <2>4. \A k \in 1 .. Len(X4) : Y4[Len(Y3) + k] = X4[k]
      BY <2>1, Joined
    <2> QED
      BY <2>2, <2>3, <2>4, <1>1, <1>5, <1>14
  <1> HIDE DEF Y4
  <1>16. /\ \A k \in 1 .. 2 + b + 2 + p : Its[k] = Y4[k]
         /\ \A k \in 1 .. 5 : Its[2 + b + 2 + p + k] = Back[k]
    <2>1. Y4 \in Seq(S) /\ Len(Y4) \in Nat /\ Back \in Seq(S)
      BY <1>1, <1>6, <1>12, <1>15
    <2>2. Its \in Seq(S) /\ Len(Its) = Len(Y4) + Len(Back)
      BY <2>1, Joined, <1>12
    <2>3. \A k \in 1 .. Len(Y4) : Its[k] = Y4[k]
      BY <2>1, Joined, <1>12
    <2>4. \A k \in 1 .. Len(Back) : Its[Len(Y4) + k] = Back[k]
      BY <2>1, Joined, <1>12
    <2> QED
      BY <2>2, <2>3, <2>4, <1>1, <1>6, <1>12, <1>15
  <1>17. Its[1] = InitializePresaleVault /\ Its[2] = DepositToVault
    <2> SUFFICES ASSUME NEW i \in 1 .. 2
                 PROVE  Its[i] = X1[i]
      BY <1>8
    <2>1. i \in 1 .. 2 + b /\ i \in 1 .. 2 + b + 2 /\ i \in 1 .. 2 + b + 2 + p
      BY <1>1
    <2> QED
      BY <2>1, <1>13, <1>14, <1>15, <1>16
  <1>18. \A i \in 1 .. b : Its[2 + i] = AddBuyer(Buyers[i])
    <2> SUFFICES ASSUME NEW i \in 1 .. b
                 PROVE  Its[2 + i] = X2[i]
      BY <1>8
    <2>1. /\ 2 + i \in 1 .. 2 + b /\ 2 + i \in 1 .. 2 + b + 2
          /\ 2 + i \in 1 .. 2 + b + 2 + p
      BY <1>1
    <2> QED
      BY <2>1, <1>13, <1>14, <1>15, <1>16
  <1>19. Its[b + 3] = AddOthers /\ Its[b + 4] = RemoveOthers
    <2>1. \A i \in 1 .. 2 : Its[2 + b + i] = X3[i]
      <3> SUFFICES ASSUME NEW i \in 1 .. 2
                   PROVE  Its[2 + b + i] = X3[i]
        OBVIOUS
      <3>1. 2 + b + i \in 1 .. 2 + b + 2 /\ 2 + b + i \in 1 .. 2 + b + 2 + p
        BY <1>1
      <3> QED
        BY <3>1, <1>14, <1>15, <1>16
    <2>2. 2 + b + 1 = b + 3 /\ 2 + b + 2 = b + 4
      BY <1>1
    <2> QED
      BY <1>8, <2>1, <2>2
  <1>20. \A i \in 1 .. p : Its[b + 4 + i] = Buy(Purchases[i])
    <2> SUFFICES ASSUME NEW i \in 1 .. p
                 PROVE  Its[b + 4 + i] = X4[i]
      BY <1>8
    <2>1. b + 4 + i = 2 + b + 2 + i /\ 2 + b + 2 + i \in 1 .. 2 + b + 2 + p
      BY <1>1
    <2> QED
      BY <1>1, <2>1, <1>15, <1>16
  <1>21. /\ Its[b + p + 5] = Back[1] /\ Its[b + p + 6] = Back[2]
         /\ Its[b + p + 7] = Back[3] /\ Its[b + p + 8] = Back[4]
         /\ Its[b + p + 9] = Back[5]
    <2>1. \A k \in 1 .. 5 : 2 + b + 2 + p + k = b + p + 4 + k
      BY <1>1
    <2> QED
      BY <1>1, <2>1, <1>16
  <1>22. /\ LastPurchaseIt = b + p + 5 /\ FinalizeIt = b + p + 6
         /\ ClaimIt = b + p + 7 /\ Last - 1 = b + p + 8 /\ Last = b + p + 9
    BY <1>1 DEF LastPurchaseIt, FinalizeIt, ClaimIt, Last, b, p
  <1> QED
    BY <1>17, <1>18, <1>19, <1>20, <1>21, <1>22 DEF Back, b, p

\* The k-th function makes Calls(k) calls, whatever the state; outside the
\* claims they are about the current token.
LEMMA ItsShape ==
  ASSUME NEW M, mint \in M
  PROVE  /\ \A k \in 1 .. Last : Len(Its[k]) = Calls(k)
         /\ \A k \in 1 .. Last : k # ClaimIt =>
              \A i \in 1 .. Calls(k) : Its[k][i] \in OtherTx(M)
         /\ Its[ClaimIt] = ClaimForOne /\ ClaimIt \in 1 .. Last
  <1> DEFINE b == Len(Buyers)
             p == Len(Purchases)
             Typed(k) == Its[k] \in Seq(OtherTx(M)) /\ Len(Its[k]) = Calls(k)
  <1>1. b \in Nat /\ p \in Nat
    BY ListsTyped
  <1>2. /\ Last = b + p + 9 /\ ClaimIt = b + p + 7
        /\ LastPurchaseIt = b + p + 5 /\ FinalizeIt = b + p + 6
    BY <1>1 DEF Last, ClaimIt, LastPurchaseIt, FinalizeIt
  <1> HIDE DEF b, p
  <1>3. \A k \in 1 .. Last :
          Calls(k) = IF k = b + 3 THEN Len(Others)
                     ELSE IF k = b + 4 THEN Removals
                     ELSE IF k = b + p + 7 THEN 2 ELSE 1
    BY <1>2 DEF Calls, b
  <1>4. Typed(1) /\ Typed(2)
    <2>1. Calls(1) = 1 /\ Calls(2) = 1
      BY <1>1, <1>2, <1>3
    <2> QED
      BY <2>1, ItsAre, PiecesTyped
  <1>5. \A i \in 1 .. b : Typed(2 + i)
    <2> SUFFICES ASSUME NEW i \in 1 .. b
                 PROVE  Typed(2 + i)
      OBVIOUS
    <2>1. Its[2 + i] = AddBuyer(Buyers[i]) /\ Buyers[i] \in Users
      BY ItsAre, ListsTyped DEF b
    <2>2. Calls(2 + i) = 1
      BY <1>1, <1>2, <1>3
    <2> QED
      BY <2>1, <2>2, PiecesTyped
  <1>6. Typed(b + 3) /\ Typed(b + 4)
    <2>1. Its[b + 3] = AddOthers /\ Its[b + 4] = RemoveOthers
      BY ItsAre DEF b
    <2>2. Calls(b + 3) = Len(Others) /\ Calls(b + 4) = Removals
      BY <1>1, <1>2, <1>3
    <2> QED
      BY <2>1, <2>2, PiecesTyped
  <1>7. \A i \in 1 .. p : Typed(b + 4 + i)
    <2> SUFFICES ASSUME NEW i \in 1 .. p
                 PROVE  Typed(b + 4 + i)
      OBVIOUS
    <2>1. Its[b + 4 + i] = Buy(Purchases[i]) /\ Purchases[i] \in Purchase
      BY ItsAre, ListsTyped DEF b, p
    <2>2. Calls(b + 4 + i) = 1
      BY <1>1, <1>2, <1>3
    <2> QED
      BY <2>1, <2>2, PiecesTyped
  <1>8. /\ Typed(LastPurchaseIt) /\ Typed(FinalizeIt)
        /\ Typed(Last - 1) /\ Typed(Last)
    <2>1. /\ Calls(LastPurchaseIt) = 1 /\ Calls(FinalizeIt) = 1
          /\ Calls(Last - 1) = 1 /\ Calls(Last) = 1
      BY <1>1, <1>2, <1>3
    <2> QED
      BY <2>1, ItsAre, PiecesTyped
  <1>9. Its[ClaimIt] = ClaimForOne /\ ClaimIt \in 1 .. Last
        /\ Len(Its[ClaimIt]) = 2 /\ Calls(ClaimIt) = 2
    <2>1. Len(ClaimForOne) = 2
      BY DEF ClaimForOne
    <2> QED
      BY <1>1, <1>2, <1>3, <2>1, ItsAre
  <1>10. ASSUME NEW k \in 1 .. Last, k # ClaimIt
         PROVE  Typed(k)
    <2>1. \/ k \in {1, 2, b + 3, b + 4, LastPurchaseIt, FinalizeIt, Last - 1, Last}
          \/ k - 2 \in 1 .. b /\ k = 2 + (k - 2)
          \/ k - (b + 4) \in 1 .. p /\ k = b + 4 + (k - (b + 4))
      BY <1>1, <1>2, <1>10
    <2> HIDE DEF Typed
    <2> QED
      BY <2>1, <1>4, <1>5, <1>6, <1>7, <1>8
  <1>11. ASSUME NEW k \in 1 .. Last, k # ClaimIt, NEW i \in 1 .. Calls(k)
         PROVE  Its[k][i] \in OtherTx(M)
    BY <1>10, <1>11, ElementOfSeq
  <1> QED
    BY <1>9, <1>10, <1>11

\* Every call of finalize is that of its function, which makes no other; and so
\* it is with initialize and with withdrawToken.
LEMMA OpsAre ==
  ASSUME NEW k \in 1 .. Last
  PROVE  /\ FinalizeIt \in 1 .. Last /\ FinalizeIt # InitializeIt
         /\ FinalizeIt # ClaimIt /\ FinalizeIt # LastPurchaseIt
         /\ Its[FinalizeIt] = FinalizePresale /\ Calls(FinalizeIt) = 1
         /\ Its[InitializeIt] = InitializePresaleVault
         /\ Calls(InitializeIt) = 1
         /\ k # FinalizeIt =>
              \A i \in 1 .. Calls(k) : Its[k][i].op # "finalize"
         /\ k # InitializeIt =>
              \A i \in 1 .. Calls(k) : Its[k][i].op # "initialize"
         /\ k # Last - 1 =>
              \A i \in 1 .. Calls(k) : Its[k][i].op # "withdrawToken"
  <1> DEFINE b == Len(Buyers)
             p == Len(Purchases)
             Other(j) == \A i \in 1 .. Calls(j) :
                           Its[j][i].op \notin {"initialize", "finalize",
                                               "withdrawToken"}
  <1>1. b \in Nat /\ p \in Nat
    BY ListsTyped
  <1>2. /\ Last = b + p + 9 /\ ClaimIt = b + p + 7 /\ InitializeIt = 1
        /\ LastPurchaseIt = b + p + 5 /\ FinalizeIt = b + p + 6
    BY <1>1 DEF Last, ClaimIt, LastPurchaseIt, FinalizeIt, InitializeIt
  <1> HIDE DEF b, p
  <1>3. \A j \in 1 .. Last :
          Calls(j) = IF j = b + 3 THEN Len(Others)
                     ELSE IF j = b + 4 THEN Removals
                     ELSE IF j = b + p + 7 THEN 2 ELSE 1
    BY <1>2 DEF Calls, b
  <1>4. Other(2) /\ Other(LastPurchaseIt) /\ Other(Last) /\ Other(ClaimIt)
    <2>1. /\ Calls(2) = 1 /\ Calls(LastPurchaseIt) = 1
          /\ Calls(Last) = 1 /\ Calls(ClaimIt) = 2
      BY <1>1, <1>2, <1>3
    <2> QED
      BY <2>1, ItsAre
      DEF DepositToVault, BuyMoreThanIsLeft, Buy, WithdrawSol, ClaimForOne,
          Tell, About
  <1>5. \A i \in 1 .. b : Other(2 + i)
    <2> SUFFICES ASSUME NEW i \in 1 .. b
                 PROVE  Other(2 + i)
      OBVIOUS
    <2>1. Its[2 + i] = AddBuyer(Buyers[i])
      BY ItsAre DEF b
    <2>2. Calls(2 + i) = 1
      BY <1>1, <1>2, <1>3
    <2> QED
      BY <2>1, <2>2 DEF AddBuyer, About
  <1>6. Other(b + 3) /\ Other(b + 4)
    <2>1. Its[b + 3] = AddOthers /\ Its[b + 4] = RemoveOthers
      BY ItsAre DEF b
    <2>2. Calls(b + 3) = Len(Others) /\ Calls(b + 4) = Removals
      BY <1>1, <1>2, <1>3
    <2> QED
      BY <2>1, <2>2 DEF AddOthers, RemoveOthers, About
  <1>7. \A i \in 1 .. p : Other(b + 4 + i)
    <2> SUFFICES ASSUME NEW i \in 1 .. p
                 PROVE  Other(b + 4 + i)
      OBVIOUS
    <2>1. Its[b + 4 + i] = Buy(Purchases[i])
      BY ItsAre DEF b, p
    <2>2. Calls(b + 4 + i) = 1
      BY <1>1, <1>2, <1>3
    <2> QED
      BY <2>1, <2>2 DEF Buy
  <1>8. k \notin {InitializeIt, FinalizeIt, Last - 1} => Other(k)
    <2>1. k \notin {InitializeIt, FinalizeIt, Last - 1} =>
            \/ k \in {2, b + 3, b + 4, LastPurchaseIt, ClaimIt, Last}
            \/ k - 2 \in 1 .. b /\ k = 2 + (k - 2)
            \/ k - (b + 4) \in 1 .. p /\ k = b + 4 + (k - (b + 4))
      BY <1>1, <1>2
    <2> HIDE DEF Other
    <2> QED
      BY <2>1, <1>4, <1>5, <1>6, <1>7
  <1>9. /\ Its[InitializeIt] = InitializePresaleVault
        /\ Its[FinalizeIt] = FinalizePresale
        /\ Its[Last - 1] = WithdrawRemainingTokens /\ Last - 1 # FinalizeIt
        /\ Last - 1 # InitializeIt /\ Calls(Last - 1) = 1
        /\ Calls(InitializeIt) = 1 /\ Calls(FinalizeIt) = 1
    BY <1>1, <1>2, <1>3, ItsAre
  <1>10. /\ \A i \in 1 .. 1 : InitializePresaleVault[i].op = "initialize"
         /\ \A i \in 1 .. 1 : FinalizePresale[i].op = "finalize"
         /\ \A i \in 1 .. 1 : WithdrawRemainingTokens[i].op = "withdrawToken"
    BY DEF InitializePresaleVault, FinalizePresale, WithdrawRemainingTokens, Tell
  <1> QED
    BY <1>1, <1>2, <1>8, <1>9, <1>10

\* Every function makes at least one call.
LEMMA CallsTyped ==
  Last \in Nat /\ \A k \in 1 .. Last : Calls(k) \in Nat \ {0}
  BY ListsTyped DEF Last, Calls

\* The next call of a function is a transaction about the current token; that
\* of the claim function creates an account for a user or claims for it.
LEMMA NextCallTyped ==
  ASSUME ScriptInv, NEW k \in 1 .. Last, AtCall(k), mint # 0
  PROVE  /\ NextCall(k) \in Tx /\ NextCall(k).mint = mint
         /\ k # ClaimIt => NextCall(k).op \notin {"createAta", "claimToken"}
         /\ k = ClaimIt =>
              /\ claiming \in Users
              /\ step[k] \in 1 .. 2
              /\ step[k] = 1 => NextCall(k) = About("createAta", claiming)
              /\ step[k] = 2 => NextCall(k) = About("claimToken", claiming)
  <1>1. mint \in 1 .. MaxRuns
    BY CampaignAssumption DEF ScriptInv, ProgressOK, TokensOK, VisitingOK
  <1>2. step[k] \in 1 .. Calls(k)
    BY CallsTyped DEF ScriptInv, ProgressOK, TokensOK, VisitingOK
  <1>3. CASE k # ClaimIt
    <2>1. NextCall(k) \in OtherTx({mint})
      BY <1>2, <1>3, ItsShape DEF NextCall
    <2>2. \A tx \in OtherTx({mint}) :
            /\ tx \in Tx /\ tx.mint = mint
            /\ tx.op \notin {"createAta", "claimToken"}
      BY <1>1 DEF OtherTx, Tx
    <2> QED
      BY <1>3, <2>1, <2>2
  <1>4. CASE k = ClaimIt
    <2>1. Its[k] = ClaimForOne /\ Calls(k) = 2
      <3>1. Its[k] = ClaimForOne /\ Len(Its[k]) = Calls(k)
        BY <1>4, ItsShape
      <3>2. Len(ClaimForOne) = 2
        BY DEF ClaimForOne
      <3> QED
        BY <3>1, <3>2
    <2>2. claiming \in Users /\ step[k] \in {1, 2}
      BY <1>2, <1>4, <2>1
      DEF AtCall, ScriptInv, ProgressOK, TokensOK, VisitingOK
    <2>3. /\ step[k] = 1 => NextCall(k) = About("createAta", claiming)
          /\ step[k] = 2 => NextCall(k) = About("claimToken", claiming)
      BY <2>1 DEF NextCall, ClaimForOne
    <2>4. \A u \in Users :
            /\ About("createAta", u) \in Tx /\ About("createAta", u).mint = mint
            /\ About("claimToken", u) \in Tx
            /\ About("claimToken", u).mint = mint
      BY <1>1 DEF About, Tx
    <2> QED
      BY <1>4, <2>2, <2>3, <2>4
  <1> QED
    BY <1>3, <1>4

-----------------------------------------------------------------------------
(* The state of the script *)

\* A function that returns or throws leaves the progress in its shape.
LEMMA ReturnsKeepsProgress ==
  ASSUME ProgressOK, NEW k \in 1 .. Last, Passes(k) \/ Throws(k)
  PROVE  ProgressOK'
  <1>1. Returns(k) /\ failed' \subseteq 1 .. Last
    BY DEF Passes, Throws, ProgressOK
  <1>2. current' \in 1 .. Last + 1
    BY <1>1, CallsTyped DEF Returns, ProgressOK
  <1>3. running' \subseteq 1 .. Last
    BY <1>1 DEF Returns, ProgressOK
  <1>4. step' \in [1 .. Last -> Nat \ {0}]
    BY <1>1 DEF Returns, ProgressOK
  <1>5. \A j \in 1 .. Last : step'[j] <= Calls(j)
    BY <1>1, CallsTyped DEF Returns, ProgressOK
  <1> QED
    BY <1>1, <1>2, <1>3, <1>4, <1>5 DEF ProgressOK

\* So does an error, whether it is caught or not.
LEMMA BreaksOffReturns ==
  ASSUME NEW k, BreaksOff(k)
  PROVE  Passes(k) \/ Throws(k)
  BY DEF BreaksOff

\* A transaction that lands changes at most whose mint the presale has and who
\* has a token account.
LEMMA LandsOnScript ==
  ASSUME NEW tx \in Tx, Lands(tx), atas \subseteq Users
  PROVE  /\ presale_mint' \in {presale_mint, tx.mint}
         /\ atas' \subseteq Users
         /\ presale_mint' # presale_mint => tx.op = "initialize"
  <1>1. tx.op = "createAta" => tx.u \in Users
    BY DEF Tx
  <1> QED
    BY <1>1 DEF Lands, CreatesAta

\* Confirmed calls.
LEMMA ConfirmedKeepsScriptInv ==
  ASSUME ScriptInv, NEW k \in 1 .. Last, Confirmed(k)
  PROVE  ScriptInv'
  <1>1. /\ AtCall(k) /\ mint # 0 /\ Lands(NextCall(k))
        /\ UNCHANGED <<run, mint, in_flight, faults>>
    BY DEF Confirmed
  <1>2. NextCall(k) \in Tx /\ NextCall(k).mint = mint
    BY <1>1, NextCallTyped
  <1>3. TokensOK'
    <2>1. presale_mint' \in {presale_mint, mint} /\ atas' \subseteq Users
      BY <1>1, <1>2, LandsOnScript
      DEF ScriptInv, ProgressOK, TokensOK, VisitingOK
    <2> QED
      BY <1>1, <2>1
      DEF ScriptInv, TokensOK, NothingOfLaterRuns, ProgressOK, VisitingOK
  <1>4. CASE NextStep(k)
    <2>1. step' = [step EXCEPT ![k] = step[k] + 1] /\ step[k] < Calls(k)
      BY <1>4, ItsShape DEF NextStep
    <2>2. step' \in [1 .. Last -> Nat \ {0}]
      BY <2>1 DEF ScriptInv, ProgressOK, TokensOK, VisitingOK
    <2>3. \A j \in 1 .. Last : step'[j] <= Calls(j)
      BY <2>1, CallsTyped DEF ScriptInv, ProgressOK, TokensOK, VisitingOK
    <2> QED
      BY <1>3, <1>4, <2>2, <2>3
      DEF ScriptInv, NextStep, ProgressOK, VisitingOK, visiting, TokensOK
  <1>5. CASE NextAccount(k)
    <2>1. step' \in [1 .. Last -> Nat \ {0}]
      BY <1>5 DEF ScriptInv, NextAccount, ProgressOK, TokensOK, VisitingOK
    <2>2. \A j \in 1 .. Last : step'[j] <= Calls(j)
      BY <1>5, CallsTyped
      DEF ScriptInv, NextAccount, ProgressOK, TokensOK, VisitingOK
    <2> QED
      BY <1>3, <1>5, <2>1, <2>2
      DEF ScriptInv, NextAccount, ProgressOK, VisitingOK, TokensOK
  <1>6. CASE LastCallDone(k)
    BY <1>3, <1>6, ReturnsKeepsProgress
    DEF LastCallDone, ScriptInv, VisitingOK, visiting
  <1> QED
    BY <1>4, <1>5, <1>6 DEF Confirmed

\* Calls that are refused or not confirmed.
LEMMA BrokenOffKeepsScriptInv ==
  ASSUME ScriptInv, NEW k \in 1 .. Last, Refused(k) \/ Unconfirmed(k)
  PROVE  ScriptInv'
  <1>1. BreaksOff(k) /\ UNCHANGED <<chain, run, mint, visiting>>
    BY DEF Refused, Unconfirmed, BreaksOffUnconfirmed
  <1>2. ProgressOK'
    BY <1>1, BreaksOffReturns, ReturnsKeepsProgress DEF ScriptInv
  <1>3. VisitingOK'
    BY <1>1 DEF ScriptInv, VisitingOK, visiting, ProgressOK, TokensOK
  <1>4. CASE Refused(k)
    <2>1. TokensOK'
      BY <1>1, <1>4
      DEF Refused, ScriptInv, TokensOK, NothingOfLaterRuns, chain, ProgressOK,
          VisitingOK
    <2> QED
      BY <1>2, <1>3, <2>1 DEF ScriptInv
  <1>5. CASE Unconfirmed(k)
    <2>1. NextCall(k) \in Tx /\ NextCall(k).mint = mint
      BY <1>5, NextCallTyped DEF Unconfirmed, Acceptable
    <2>2. /\ in_flight' = in_flight \cup {NextCall(k)}
          /\ faults' \in 0 .. MaxFaults
      BY <1>5, CampaignAssumption
      DEF Unconfirmed, ScriptInv, ProgressOK, TokensOK, VisitingOK
    <2>3. TokensOK'
      BY <1>1, <2>1, <2>2
      DEF ScriptInv, TokensOK, NothingOfLaterRuns, chain, ProgressOK,
          VisitingOK
    <2> QED
      BY <1>2, <1>3, <2>3 DEF ScriptInv
  <1> QED
    BY <1>4, <1>5

\* Steps of the script that send nothing.
LEMMA SilentKeepsScriptInv ==
  ASSUME ScriptInv,
         \/ CreateToken \/ FetchAccounts \/ (\E u \in Users : VisitAccount(u))
         \/ AllVisited \/ ReadFails \/ GivesUp \/ StartAgain
  PROVE  ScriptInv'
  <1> USE DEF ScriptInv
  <1>1. InitializeIt \in 1 .. Last /\ ClaimIt \in 1 .. Last
    BY ListsTyped DEF Last, InitializeIt, ClaimIt
  <1>2. CASE CreateToken
    <2>1. ProgressOK'
      BY <1>1, <1>2, ReturnsKeepsProgress DEF CreateToken, progress, ProgressOK
    <2>2. TokensOK'
      BY <1>2, CampaignAssumption
      DEF CreateToken, TokensOK, NothingOfLaterRuns, chain
    <2>3. VisitingOK'
      BY <1>2 DEF CreateToken, VisitingOK, visiting
    <2> QED
      BY <2>1, <2>2, <2>3
  <1>3. CASE FetchAccounts
    BY <1>3
    DEF FetchAccounts, ProgressOK, TokensOK, VisitingOK, NothingOfLaterRuns,
        chain, progress
  <1>4. CASE \E u \in Users : VisitAccount(u)
    BY <1>4
    DEF VisitAccount, StillToVisit, ProgressOK, TokensOK, VisitingOK,
        NothingOfLaterRuns, chain, progress
  <1>5. CASE AllVisited
    <2>1. ProgressOK'
      BY <1>1, <1>5, ReturnsKeepsProgress DEF AllVisited
    <2> QED
      BY <1>5, <2>1
      DEF AllVisited, TokensOK, VisitingOK, NothingOfLaterRuns, chain, visiting
  <1>6. CASE ReadFails
    <2>1. ProgressOK'
      BY <1>1, <1>6, ReturnsKeepsProgress DEF ReadFails
    <2> QED
      BY <1>6, <2>1, CampaignAssumption
      DEF ReadFails, TokensOK, VisitingOK, NothingOfLaterRuns, chain, visiting
  <1>7. CASE GivesUp
    <2>1. current \in 1 .. Last
      BY <1>7 DEF GivesUp, ProgressOK
    <2>2. ProgressOK'
      BY <1>7, <2>1, CallsTyped DEF GivesUp, ProgressOK
    <2>3. TokensOK'
      BY <1>7, CampaignAssumption
      DEF GivesUp, TokensOK, NothingOfLaterRuns, chain
    <2> QED
      BY <1>7, <2>2, <2>3 DEF GivesUp, VisitingOK, visiting
  <1>8. CASE StartAgain
    <2>1. ProgressOK'
      BY <1>1, <1>8, CallsTyped DEF StartAgain, ProgressOK, FirstStep
    <2>2. TokensOK'
      <3>1. run' \in 1 .. MaxRuns /\ mint' = 0 /\ presale_mint' = presale_mint
        BY <1>8, CampaignAssumption DEF StartAgain, TokensOK
      <3>2. presale_mint' \in 0 .. run' /\ presale_mint' < run'
        BY <1>8 DEF StartAgain, TokensOK
      <3>3. \A tx \in in_flight : tx.mint < run'
        <4>1. \A tx \in in_flight : tx.mint \in Nat
          BY CampaignAssumption DEF TokensOK, Tx
        <4>2. mint \in 0 .. run
          BY DEF TokensOK
        <4> QED
          BY <1>8, <4>1, <4>2 DEF StartAgain, TokensOK, NothingOfLaterRuns
      <3> QED
        BY <1>8, <3>1, <3>2, <3>3
        DEF StartAgain, TokensOK, NothingOfLaterRuns
    <2> QED
      BY <1>8, <2>1, <2>2 DEF StartAgain, VisitingOK
  <1> QED
    BY <1>2, <1>3, <1>4, <1>5, <1>6, <1>7, <1>8

\* Steps beside the script.
LEMMA OutsideKeepsScriptInv ==
  ASSUME ScriptInv,
         \/ \E tx \in in_flight : LandsLate(tx) \/ Expires(tx)
         \/ \E u \in Outsiders : OutsideStep(u)
         \/ \E u \in AtaOpeners : OpensAta(u)
         \/ ClockStep
  PROVE  ScriptInv'
  <1> USE DEF ScriptInv
  <1>1. CASE \E tx \in in_flight : LandsLate(tx)
    <2>1. PICK tx \in in_flight : LandsLate(tx)
      BY <1>1
    <2>2. tx \in Tx /\ (tx.mint = mint \/ tx.mint < run) /\ tx.mint \in 1 .. MaxRuns
      BY DEF TokensOK, NothingOfLaterRuns, Tx
    <2>3. presale_mint' \in {presale_mint, tx.mint} /\ atas' \subseteq Users
      BY <2>1, <2>2, LandsOnScript DEF LandsLate, TokensOK
    <2>4. TokensOK'
      BY <2>1, <2>2, <2>3, CampaignAssumption
      DEF LandsLate, TokensOK, NothingOfLaterRuns, script
    <2> QED
      BY <2>1, <2>4
      DEF LandsLate, ProgressOK, VisitingOK, script, progress, visiting
  <1>2. CASE \E tx \in in_flight : Expires(tx)
    BY <1>2
    DEF Expires, ProgressOK, TokensOK, VisitingOK, NothingOfLaterRuns, chain,
        script, progress, visiting
  <1>3. CASE \E u \in Outsiders : OutsideStep(u)
    BY <1>3
    DEF OutsideStep, ProgressOK, TokensOK, VisitingOK, NothingOfLaterRuns,
        script, progress, visiting
  <1>4. CASE \E u \in AtaOpeners : OpensAta(u)
    BY <1>4, CampaignAssumption
    DEF OpensAta, CreatesAta, ProgressOK, TokensOK, VisitingOK,
        NothingOfLaterRuns, script, progress, visiting
  <1>5. CASE ClockStep
    BY <1>5
    DEF ClockStep, ProgressOK, TokensOK, VisitingOK, NothingOfLaterRuns,
        script, progress, visiting
  <1> QED
    BY <1>1, <1>2, <1>3, <1>4, <1>5

\* ScriptInv holds in every state of a campaign.
LEMMA ScriptInvariant == CampaignSpec => []ScriptInv
  <1>1. CampaignInit => ScriptInv
    <2>1. ASSUME CampaignInit PROVE ProgressOK
      BY <2>1, CallsTyped, ListsTyped
      DEF CampaignInit, FirstStep, ProgressOK, Last
    <2>2. ASSUME CampaignInit PROVE TokensOK /\ VisitingOK
      BY <2>2, CampaignAssumption
      DEF CampaignInit, TokensOK, VisitingOK, NothingOfLaterRuns
    <2> QED
      BY <2>1, <2>2 DEF ScriptInv
  <1>2. ScriptInv /\ [CampaignNext]_campaign_vars => ScriptInv'
    <2> SUFFICES ASSUME ScriptInv, [CampaignNext]_campaign_vars
                 PROVE  ScriptInv'
      OBVIOUS
    <2>1. CASE UNCHANGED campaign_vars
      BY <2>1
      DEF campaign_vars, chain, script, progress, visiting, ScriptInv,
          ProgressOK, TokensOK, VisitingOK, NothingOfLaterRuns
    <2>2. ASSUME NEW k \in 1 .. Last, Call(k)
          PROVE  ScriptInv'
      BY <2>2, ConfirmedKeepsScriptInv, BrokenOffKeepsScriptInv DEF Call
    <2>3. CASE ScriptStep
      BY <2>2, <2>3, SilentKeepsScriptInv DEF ScriptStep
    <2>4. CASE GivesUp \/ StartAgain
      BY <2>4, SilentKeepsScriptInv
    <2> QED
      BY <2>1, <2>3, <2>4, OutsideKeepsScriptInv DEF CampaignNext
  <1> QED
    BY <1>1, <1>2, PTL DEF CampaignSpec

-----------------------------------------------------------------------------
(* Every step is a step of the program *)

\* A transaction that lands is an instruction of the program, or only opens a
\* token account.
LEMMA LandsIsAStep ==
  ASSUME NEW tx \in Tx, Lands(tx)
  PROVE  [Next]_vars
  <1>1. Admin \in Admins /\ SaleArgs \in InitArgs /\ 0 \in ForceFlags
        /\ DepositAmount \in DepositAmounts
    BY CampaignAssumption
  <1>2. CASE tx.op = "initialize"
    BY <1>1, <1>2 DEF Lands, OnPresale, Next, AdminNext
  <1>3. CASE tx.op \in {"depositToken", "finalize", "withdrawToken", "withdraw"}
    BY <1>1, <1>3 DEF Lands, OnPresale, Next, AdminNext
  <1>4. CASE tx.op \in {"addWhitelist", "removeWhitelist", "claimToken"}
    <2>1. tx.u \in Users
      BY <1>4 DEF Tx
    <2> QED
      BY <1>1, <1>4, <2>1 DEF Lands, OnPresale, Next, AdminNext
  <1>5. CASE tx.op = "buyToken"
    <2>1. tx.u \in Users /\ tx.amount \in BuyAmounts
      BY <1>5 DEF Tx
    <2> QED
      BY <1>5, <2>1 DEF Lands, OnPresale, Next, BuyerNext
  <1>6. CASE tx.op = "createAta"
    BY <1>6 DEF Lands, OnPresale, CreatesAta
  <1> QED
    BY <1>2, <1>3, <1>4, <1>5, <1>6 DEF Tx

\* Every step of a campaign is a step of the program or leaves it alone.
LEMMA StepInProgram ==
  ASSUME ScriptInv, [CampaignNext]_campaign_vars
  PROVE  [Next]_vars
  <1>1. ASSUME NEW k \in 1 .. Last, Call(k)
        PROVE  [Next]_vars
    <2>1. CASE Confirmed(k)
      <3>1. NextCall(k) \in Tx /\ Lands(NextCall(k))
        BY <2>1, NextCallTyped DEF Confirmed
      <3> QED
        BY <3>1, LandsIsAStep
    <2>2. CASE Refused(k) \/ Unconfirmed(k)
      BY <2>2 DEF Refused, Unconfirmed, chain
    <2> QED
      BY <1>1, <2>1, <2>2 DEF Call
  <1>2. CASE ScriptStep
    BY <1>1, <1>2
    DEF ScriptStep, CreateToken, FetchAccounts, VisitAccount, AllVisited,
        ReadFails, chain
  <1>3. CASE \E tx \in in_flight : LandsLate(tx) \/ Expires(tx)
    <2>1. PICK tx \in in_flight : LandsLate(tx) \/ Expires(tx)
      BY <1>3
    <2>2. tx \in Tx
      BY DEF ScriptInv, TokensOK
    <2> QED
      BY <2>1, <2>2, LandsIsAStep DEF LandsLate, Expires, chain
  <1>4. CASE \E u \in Outsiders : OutsideStep(u)
    BY <1>4, CampaignAssumption DEF OutsideStep, Next, BuyerNext
  <1>5. CASE \E u \in AtaOpeners : OpensAta(u)
    BY <1>5 DEF OpensAta, CreatesAta
  <1>6. CASE ClockStep
    BY <1>6 DEF ClockStep, Next
  <1>7. CASE GivesUp \/ StartAgain \/ UNCHANGED campaign_vars
    BY <1>7 DEF GivesUp, StartAgain, campaign_vars, chain
  <1> QED
    BY <1>2, <1>3, <1>4, <1>5, <1>6, <1>7 DEF CampaignNext

\* Whatever is lost, late, killed or run again, a campaign is a behaviour of
\* the program, Lands being made of its instructions: what was proved of the
\* program can be cited of every campaign.
LEMMA CampaignInProgram == CampaignSpec => Spec
  <1>1. CampaignInit => Init
    BY DEF CampaignInit
  <1>2. ScriptInv /\ [CampaignNext]_campaign_vars => [Next]_vars
    BY StepInProgram
  <1> QED
    BY <1>1, <1>2, ScriptInvariant, PTL DEF CampaignSpec, Spec

\* Theorem: the state of the program, the script and its transactions keeps
\* its shape.
THEOREM CampaignTypeCorrect == CampaignSpec => []CampaignTypeOK
  <1>1. ScriptInv /\ TypeOK => CampaignTypeOK
    <2> SUFFICES ASSUME ScriptInv, TypeOK
                 PROVE  CampaignTypeOK
      OBVIOUS
    <2>1. \A k \in 1 .. Last : Len(Its[k]) = Calls(k)
      BY ItsShape
    <2> QED
      BY <2>1
      DEF ScriptInv, ProgressOK, TokensOK, VisitingOK, CampaignTypeOK
  <1>2. CampaignSpec => []TypeOK
    BY CampaignInProgram, TypeCorrect, PTL
  <1> QED
    BY <1>1, <1>2, ScriptInvariant, PTL
=============================================================================
