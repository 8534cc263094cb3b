-------------------------- MODULE PresaleFundsProofs --------------------------
(***************************************************************************)
(* Where the lamports raised are: proofs, for every set of buyers and      *)
(* admins and every argument, that the escrow, the team, the admin and     *)
(* total_sol_amount agree.                                                 *)
(***************************************************************************)
EXTENDS PresaleProofs

-----------------------------------------------------------------------------
(* Debits and credits *)

\* A debit takes exactly its amount, keeps the owner of an account that
\* survives it, and leaves a balance the runtime accepts.
LEMMA DebitedBalance ==
  ASSUME NEW acct \in Account, NEW amount \in Nat, CanDebit(acct, amount),
         acct.owner = "none" <=> acct.lamports = 0
  PROVE  LET after == Debited(acct, amount) IN
         /\ after.lamports = acct.lamports - amount
         /\ after.lamports > 0 => after.owner = acct.owner
         /\ RentStateOK(after.lamports, after.owner)
         /\ after.owner = "none" <=> after.lamports = 0
  BY DEF Account, CanDebit, Debited, NoAccount, RentStateOK, Owners

\* A credit adds exactly its amount, keeps the owner of an account that
\* existed, and leaves a balance the runtime accepts.
LEMMA CreditedBalance ==
  ASSUME NEW acct \in Account, NEW amount \in Nat, CanCredit(acct, amount),
         acct.owner = "none" <=> acct.lamports = 0,
         RentStateOK(acct.lamports, acct.owner)
  PROVE  LET after == Credited(acct, amount) IN
         /\ after.lamports = acct.lamports + amount
         /\ acct.owner # "none" => after.owner = acct.owner
         /\ RentStateOK(after.lamports, after.owner)
         /\ after.owner = "none" <=> after.lamports = 0
  BY DEF Account, CanCredit, Credited, OwnerOnCredit, Owners

\* Two accounts with the same balance and owner are the same.
LEMMA AccountEquality ==
  ASSUME NEW acct \in Account, NEW l \in Nat, NEW o \in Owners,
         acct.lamports = l, acct.owner = o
  PROVE  acct = [lamports |-> l, owner |-> o]
  BY DEF Account

-----------------------------------------------------------------------------
(* The invariant *)

\* The first state has no escrow and nobody was paid.
LEMMA InitFunds == Init => FundsInv
  <1> SUFFICES ASSUME Init PROVE FundsInv
    OBVIOUS
  <1>1. TypeOK
    BY InitTyped
  <1>2. ~Initialized
    BY DEF Init, Initialized
  <1>3. lamports[Team] = 0 /\ \A a \in Admins : lamports[a] = 0
    BY PresaleAssumption DEF Init, Wallets
  <1>4. NothingBeforeInitialize
    BY <1>3 DEF Init, NothingBeforeInitialize, NewUser
  <1>5. EscrowOwnership
    BY <1>2 DEF Init, EscrowOwnership, NoAccount, RentStateOK
  <1> QED
    BY <1>1, <1>2, <1>3, <1>4, <1>5
    DEF FundsInv, OnlyTheAdminIsPaid, RaisedIsAccountedFor,
        EscrowBacksRefunds

\* A step of an initialized presale that moves no lamports and neither
\* finalizes nor changes what was raised keeps the invariant.
LEMMA FundsUntouched ==
  ASSUME FundsInv, TypeOK', Initialized,
         UNCHANGED <<admin_account, escrow, lamports>>,
         presale'.is_finalized = presale.is_finalized,
         presale'.total_sol_amount = presale.total_sol_amount
  PROVE  FundsInv'
  BY DEF FundsInv, Initialized, NothingBeforeInitialize, OnlyTheAdminIsPaid,
         RaisedIsAccountedFor, EscrowBacksRefunds, EscrowOwnership

\* initialize funds the escrow with its rent reserve.
LEMMA InitializeFunds ==
  ASSUME FundsInv, NEW signer \in Admins, NEW a \in InitArgs,
         Initialize(signer, a)
  PROVE  FundsInv'
  <1>1. TypeOK'
    BY InitializeTyped DEF FundsInv
  <1>2. Initialized' /\ admin_account' = signer
    BY PresaleAssumption DEF Initialize, Initialized
  <1>3. ~Initialized /\ lamports' = lamports
    BY DEF Initialize, Initialized
  <1>4. lamports[Team] = 0 /\ \A w \in Admins : lamports[w] = 0
    BY <1>3, PresaleAssumption
    DEF FundsInv, NothingBeforeInitialize, OnlyTheAdminIsPaid, Initialized
  <1>5. escrow' = [lamports |-> RentExemptEscrow, owner |-> "program"]
    BY DEF Initialize
  <1>6. presale'.total_sol_amount = 0 /\ presale'.is_finalized = 0
    BY DEF Initialize, ZeroedPresale
  <1>7. RaisedIsAccountedFor' /\ EscrowBacksRefunds'
    BY <1>2, <1>3, <1>4, <1>5, <1>6, RuntimeAssumption
    DEF RaisedIsAccountedFor, EscrowBacksRefunds
  <1>8. EscrowOwnership'
    BY <1>5, RuntimeAssumption
    DEF EscrowOwnership, RentStateOK, RentMinimum
  <1> QED
    BY <1>1, <1>2, <1>3, <1>4, <1>7, <1>8
    DEF FundsInv, NothingBeforeInitialize, OnlyTheAdminIsPaid

\* A buyer, the team and an admin are three wallets.
LEMMA WalletsApart ==
  /\ \A u \in Users : u # Team /\ u \notin Admins
  /\ \A a \in Admins : a # Team /\ a \notin Users /\ a # NoAdmin
  BY PresaleAssumption

\* What the invariant says of one initialized state, for the steps that move
\* lamports: enough that the new balances add up.
LEMMA FundsMoved ==
  ASSUME FundsInv, TypeOK', Initialized, admin_account' = admin_account,
         \A a \in Admins \ {admin_account} : lamports'[a] = lamports[a],
         escrow'.lamports + lamports'[Team] + lamports'[admin_account]
           = RentExemptEscrow + presale'.total_sol_amount,
         presale'.is_finalized = 0 =>
           /\ escrow'.lamports = RentExemptEscrow + presale'.total_sol_amount
           /\ escrow'.owner = "program",
         RentStateOK(escrow'.lamports, escrow'.owner),
         escrow'.owner = "none" <=> escrow'.lamports = 0
  PROVE  FundsInv'
  <1>1. Initialized'
    BY DEF Initialized
  <1>2. NothingBeforeInitialize' /\ OnlyTheAdminIsPaid'
    BY <1>1 DEF NothingBeforeInitialize, OnlyTheAdminIsPaid, FundsInv
  <1>3. RaisedIsAccountedFor'
    BY DEF RaisedIsAccountedFor
  <1>4. EscrowBacksRefunds'
    <2>1. presale'.total_sol_amount \in Nat /\ RentExemptEscrow \in Nat
      BY RuntimeAssumption DEF TypeOK, PresaleAccount, U64
    <2>2. escrow' \in Account
      BY DEF TypeOK
    <2> QED
      BY <2>1, <2>2, AccountEquality DEF EscrowBacksRefunds, Owners
  <1>5. EscrowOwnership'
    BY DEF EscrowOwnership, TypeOK, PresaleAccount, Flag
  <1> QED
    BY <1>2, <1>3, <1>4, <1>5 DEF FundsInv

\* buy_token: what the buyer pays is what the escrow and the total gain.
LEMMA BuyFunds ==
  ASSUME FundsInv, NEW u \in Users, NEW amount \in BuyAmounts,
         BuyToken(u, amount)
  PROVE  FundsInv'
  <1>1. PICK bought \in U64, sol \in U64, joined \in {0, 1},
             sells_out \in BOOLEAN :
           /\ MayBuy(u, amount, sells_out, sol)
           /\ lamports' = [lamports EXCEPT ![u] = @ - sol]
           /\ escrow' = Credited(escrow, sol)
           /\ presale' = Sold(presale, joined, bought, sol, sells_out)
           /\ UNCHANGED <<now, admin_account, vault, tokens>>
    BY BuyFacts DEF FundsInv
  <1>2. TypeOK' /\ TypeOK
    BY BuyTyped DEF FundsInv
  <1>3. Initialized /\ admin_account \in Admins
    BY <1>1, <1>2
    DEF FundsInv, NothingBeforeInitialize, MayBuy, TypeOK, Initialized
  <1>4. sol \in Nat /\ escrow \in Account
    BY <1>2, RuntimeAssumption DEF U64, TypeOK
  <1>5. /\ escrow'.lamports = escrow.lamports + sol
        /\ escrow.owner # "none" => escrow'.owner = escrow.owner
        /\ RentStateOK(escrow'.lamports, escrow'.owner)
        /\ escrow'.owner = "none" <=> escrow'.lamports = 0
    BY <1>1, <1>4, CreditedBalance DEF FundsInv, EscrowOwnership, MayBuy
  <1>6. /\ presale'.total_sol_amount = presale.total_sol_amount + sol
        /\ presale'.is_finalized = presale.is_finalized
    BY <1>1, <1>2 DEF Sold, TypeOK, PresaleAccount
  <1>7. \A w \in Wallets \ {u} : lamports'[w] = lamports[w]
    BY <1>1, <1>2 DEF TypeOK
  <1>8. /\ lamports'[Team] = lamports[Team]
        /\ \A a \in Admins : lamports'[a] = lamports[a]
    BY <1>7, WalletsApart DEF Wallets
  <1>9. /\ escrow.lamports \in Nat /\ RentExemptEscrow \in Nat
        /\ presale.total_sol_amount \in Nat
        /\ lamports[Team] \in Nat /\ lamports[admin_account] \in Nat
    BY <1>2, <1>3, RuntimeAssumption
    DEF TypeOK, Account, PresaleAccount, U64, Wallets
  <1>10. escrow'.lamports + lamports'[Team] + lamports'[admin_account]
           = RentExemptEscrow + presale'.total_sol_amount
    BY <1>3, <1>4, <1>5, <1>6, <1>8, <1>9
    DEF FundsInv, RaisedIsAccountedFor
  <1>11. presale'.is_finalized = 0 =>
           /\ escrow'.lamports = RentExemptEscrow + presale'.total_sol_amount
           /\ escrow'.owner = "program"
    BY <1>3, <1>4, <1>5, <1>6, <1>9 DEF FundsInv, EscrowBacksRefunds
  <1> QED
    BY <1>1, <1>2, <1>3, <1>5, <1>8, <1>10, <1>11, FundsMoved

\* refund_token: what the buyer gets is what the escrow and the total lose,
\* and before finalize the rent reserve stays behind.
LEMMA RefundFunds ==
  ASSUME FundsInv, NEW u \in Users, RefundToken(u)
  PROVE  FundsInv'
  <1> DEFINE amount == user[u].user_sol_contributed
  <1>1. TypeOK' /\ TypeOK /\ UNCHANGED admin_account
    BY RefundTyped DEF FundsInv, RefundToken
  <1>2. Initialized /\ admin_account \in Admins
    BY <1>1
    DEF FundsInv, NothingBeforeInitialize, RefundToken, MayRefund, TypeOK,
        Initialized
  <1>3. CASE UNCHANGED <<presale, escrow, lamports>>
    BY <1>1, <1>2, <1>3, FundsUntouched
  <1>4. CASE /\ CanDebit(escrow, amount)
             /\ presale.total_sol_amount - amount \in U64
             /\ escrow' = Debited(escrow, amount)
             /\ lamports' = [lamports EXCEPT ![u] = @ + amount]
             /\ presale' = Refunded(presale, amount)
    <2>1. amount \in Nat
      BY <1>1, RuntimeAssumption DEF TypeOK, UserAccount, U64
    <2> HIDE DEF amount
    <2>2. escrow \in Account
      BY <1>1 DEF TypeOK
    <2>3. /\ escrow'.lamports = escrow.lamports - amount
          /\ escrow'.lamports > 0 => escrow'.owner = escrow.owner
          /\ RentStateOK(escrow'.lamports, escrow'.owner)
          /\ escrow'.owner = "none" <=> escrow'.lamports = 0
      BY <1>4, <2>1, <2>2, DebitedBalance DEF FundsInv, EscrowOwnership
    <2>4. /\ presale'.total_sol_amount = presale.total_sol_amount - amount
          /\ presale'.is_finalized = presale.is_finalized
      BY <1>1, <1>4 DEF Refunded, TypeOK, PresaleAccount
    <2>5. \A w \in Wallets \ {u} : lamports'[w] = lamports[w]
      BY <1>1, <1>4 DEF TypeOK
    <2>6. /\ lamports'[Team] = lamports[Team]
          /\ \A a \in Admins : lamports'[a] = lamports[a]
      BY <2>5, WalletsApart DEF Wallets
    <2>7. /\ escrow.lamports \in Nat /\ RentExemptEscrow \in Nat \ {0}
          /\ presale.total_sol_amount - amount \in Nat
          /\ presale.total_sol_amount \in Nat
          /\ lamports[Team] \in Nat /\ lamports[admin_account] \in Nat
      BY <1>1, <1>2, <1>4, RuntimeAssumption
      DEF TypeOK, Account, PresaleAccount, U64, Wallets
    <2>8. escrow'.lamports + lamports'[Team] + lamports'[admin_account]
            = RentExemptEscrow + presale'.total_sol_amount
      BY <1>2, <2>1, <2>3, <2>4, <2>6, <2>7
      DEF FundsInv, RaisedIsAccountedFor
    <2>9. presale'.is_finalized = 0 =>
            /\ escrow'.lamports = RentExemptEscrow + presale'.total_sol_amount
            /\ escrow'.owner = "program"
      BY <1>2, <2>1, <2>3, <2>4, <2>7 DEF FundsInv, EscrowBacksRefunds
    <2> QED
      BY <1>1, <1>2, <2>3, <2>6, <2>8, <2>9, FundsMoved
  <1> QED
    BY <1>3, <1>4 DEF RefundToken, MayRefund

\* finalize: the team's share leaves the escrow for the team; a cancellation
\* moves nothing.
LEMMA FinalizeFunds ==
  ASSUME FundsInv, NEW signer \in Admins, NEW f \in ForceFlags,
         Finalize(signer, f)
  PROVE  FundsInv'
  <1> DEFINE team_amount == Share(presale.total_sol_amount,
                                  presale.team_percent)
  <1>1. TypeOK' /\ TypeOK /\ UNCHANGED admin_account
    BY FinalizeTyped DEF FundsInv, Finalize
  <1>2. Initialized /\ admin_account \in Admins
    BY PresaleAssumption DEF Finalize, is_admin, Initialized
  <1>3. CASE /\ presale' = [presale EXCEPT
                              !.is_cancelled = CancelledByFinalize(f # 0)]
             /\ UNCHANGED <<escrow, lamports>>
    <2>1. /\ presale'.is_finalized = presale.is_finalized
          /\ presale'.total_sol_amount = presale.total_sol_amount
      BY <1>1, <1>3 DEF TypeOK, PresaleAccount
    <2> QED
      BY <1>1, <1>2, <1>3, <2>1, FundsUntouched
  <1>4. CASE /\ CanDebit(escrow, team_amount)
             /\ escrow' = Debited(escrow, team_amount)
             /\ lamports' = [lamports EXCEPT ![Team] = @ + team_amount]
             /\ presale' = [presale EXCEPT !.is_finalized = 1]
    <2>1. presale.total_sol_amount \in Nat /\ presale.team_percent \in Nat
      BY <1>1, RuntimeAssumption DEF TypeOK, PresaleAccount, U64, U32
    <2>2. team_amount \in Nat
      BY <2>1, ShareBounds
    <2> HIDE DEF team_amount
    <2>3. escrow \in Account
      BY <1>1 DEF TypeOK
    <2>4. /\ escrow'.lamports = escrow.lamports - team_amount
          /\ RentStateOK(escrow'.lamports, escrow'.owner)
          /\ escrow'.owner = "none" <=> escrow'.lamports = 0
      BY <1>4, <2>2, <2>3, DebitedBalance DEF FundsInv, EscrowOwnership
    <2>5. /\ presale'.total_sol_amount = presale.total_sol_amount
          /\ presale'.is_finalized = 1
      BY <1>1, <1>4 DEF TypeOK, PresaleAccount
    <2>6. /\ lamports'[Team] = lamports[Team] + team_amount
          /\ \A w \in Wallets \ {Team} : lamports'[w] = lamports[w]
      BY <1>1, <1>4 DEF TypeOK, Wallets
    <2>7. \A a \in Admins : lamports'[a] = lamports[a]
      BY <2>6, WalletsApart DEF Wallets
    <2>8. /\ escrow.lamports \in Nat /\ RentExemptEscrow \in Nat
          /\ lamports[Team] \in Nat /\ lamports[admin_account] \in Nat
      BY <1>1, <1>2, RuntimeAssumption DEF TypeOK, Account, Wallets
    <2>9. escrow'.lamports + lamports'[Team] + lamports'[admin_account]
            = RentExemptEscrow + presale'.total_sol_amount
      BY <1>2, <2>1, <2>2, <2>4, <2>5, <2>6, <2>7, <2>8
      DEF FundsInv, RaisedIsAccountedFor
    <2> QED
      BY <1>1, <1>2, <2>4, <2>5, <2>7, <2>9, FundsMoved
  <1> QED
    BY <1>3, <1>4 DEF Finalize

\* withdraw: the whole balance leaves the escrow for the admin.
LEMMA WithdrawFunds ==
  ASSUME FundsInv, NEW signer \in Admins, Withdraw(signer)
  PROVE  FundsInv'
  <1>1. TypeOK' /\ TypeOK /\ UNCHANGED admin_account
    BY PayoutsTyped DEF FundsInv, Withdraw
  <1>2. Initialized /\ admin_account = signer
    BY PresaleAssumption DEF Withdraw, is_admin, Initialized
  <1>3. presale' = presale /\ presale.is_finalized = 1
    BY <1>1 DEF Withdraw, is_finalized, TypeOK, PresaleAccount, Flag
  <1>4. escrow \in Account /\ escrow.lamports \in Nat
    BY <1>1 DEF TypeOK, Account
  <1>5. /\ escrow'.lamports = escrow.lamports - escrow.lamports
        /\ RentStateOK(escrow'.lamports, escrow'.owner)
        /\ escrow'.owner = "none" <=> escrow'.lamports = 0
    BY <1>4, DebitedBalance DEF Withdraw, FundsInv, EscrowOwnership
  <1>6. /\ lamports'[signer] = lamports[signer] + escrow.lamports
        /\ \A w \in Wallets \ {signer} : lamports'[w] = lamports[w]
    BY <1>1 DEF Withdraw, TypeOK, Wallets
  <1>7. /\ lamports'[Team] = lamports[Team]
        /\ \A a \in Admins \ {signer} : lamports'[a] = lamports[a]
    BY <1>6, WalletsApart DEF Wallets
  <1>8. /\ lamports[Team] \in Nat /\ lamports[signer] \in Nat
        /\ RentExemptEscrow \in Nat /\ presale.total_sol_amount \in Nat
    BY <1>1, RuntimeAssumption DEF TypeOK, Wallets, PresaleAccount, U64
  <1>9. escrow'.lamports + lamports'[Team] + lamports'[admin_account]
          = RentExemptEscrow + presale'.total_sol_amount
    BY <1>1, <1>2, <1>3, <1>4, <1>5, <1>6, <1>7, <1>8
    DEF FundsInv, RaisedIsAccountedFor
  <1> QED
    BY <1>1, <1>2, <1>3, <1>5, <1>7, <1>9, FundsMoved

\* Every other instruction leaves lamports, escrow and total alone.
LEMMA BookkeepingFunds ==
  ASSUME FundsInv, NEW signer \in Admins
  PROVE  /\ \A amount \in DepositAmounts :
              DepositToken(signer, amount) => FundsInv'
         /\ \A u \in Users : AddWhitelist(signer, u) => FundsInv'
         /\ \A u \in Users : RemoveWhitelist(signer, u) => FundsInv'
         /\ \A s, e \in NewTimes :
              UpdatePresaleDetails(signer, s, e) => FundsInv'
         /\ CancelPresale(signer) => FundsInv'
         /\ \A u \in Users : ClaimToken(signer, u) => FundsInv'
         /\ WithdrawToken(signer) => FundsInv'
  <1>1. TypeOK
    BY DEF FundsInv
  <1>2. is_admin(signer) => Initialized
    BY PresaleAssumption DEF is_admin, Initialized
  <1>3. ASSUME NEW amount \in DepositAmounts, DepositToken(signer, amount)
        PROVE  FundsInv'
    BY <1>1, <1>2, <1>3, BookkeepingTyped, FundsUntouched DEF DepositToken
  <1>4. ASSUME NEW u \in Users, AddWhitelist(signer, u)
        PROVE  FundsInv'
    <2>1. TypeOK' /\ Initialized
      BY <1>1, <1>2, <1>4, BookkeepingTyped DEF AddWhitelist
    <2> QED
      BY <1>1, <1>4, <2>1, FundsUntouched
      DEF AddWhitelist, TypeOK, PresaleAccount
  <1>5. ASSUME NEW u \in Users, RemoveWhitelist(signer, u)
        PROVE  FundsInv'
    <2>1. TypeOK' /\ Initialized
      BY <1>1, <1>2, <1>5, BookkeepingTyped DEF RemoveWhitelist
    <2> QED
      BY <1>1, <1>5, <2>1, FundsUntouched
      DEF RemoveWhitelist, TypeOK, PresaleAccount
  <1>6. ASSUME NEW s \in NewTimes, NEW e \in NewTimes,
               UpdatePresaleDetails(signer, s, e)
        PROVE  FundsInv'
    <2>1. TypeOK' /\ Initialized
      BY <1>1, <1>2, <1>6, BookkeepingTyped DEF UpdatePresaleDetails
    <2> QED
      BY <1>1, <1>6, <2>1, FundsUntouched
      DEF UpdatePresaleDetails, TypeOK, PresaleAccount
  <1>7. ASSUME CancelPresale(signer)
        PROVE  FundsInv'
    <2>1. TypeOK' /\ Initialized
      BY <1>1, <1>2, <1>7, BookkeepingTyped DEF CancelPresale
    <2> QED
      BY <1>1, <1>7, <2>1, FundsUntouched
      DEF CancelPresale, TypeOK, PresaleAccount
  <1>8. ASSUME NEW u \in Users, ClaimToken(signer, u)
        PROVE  FundsInv'
    <2>1. TypeOK' /\ Initialized
      BY <1>1, <1>8, PayoutsTyped, WalletsApart
      DEF ClaimToken, VaultAuthority, Initialized
    <2> QED
      BY <1>8, <2>1, FundsUntouched DEF ClaimToken
  <1>9. ASSUME WithdrawToken(signer)
        PROVE  FundsInv'
    <2>1. TypeOK' /\ Initialized
      BY <1>1, <1>2, <1>9, PayoutsTyped DEF WithdrawToken
    <2> QED
      BY <1>1, <1>9, <2>1, FundsUntouched
      DEF WithdrawToken, TypeOK, PresaleAccount
  <1> QED
    BY <1>3, <1>4, <1>5, <1>6, <1>7, <1>8, <1>9

\* Every step keeps the invariant.
LEMMA StepFunds == FundsInv /\ [Next]_vars => FundsInv'
  <1> SUFFICES ASSUME FundsInv, [Next]_vars PROVE FundsInv'
    OBVIOUS
  <1>1. TypeOK'
    BY StepTyped DEF FundsInv
  <1>2. CASE Tick
    BY <1>1, <1>2
    DEF Tick, FundsInv, Initialized, NothingBeforeInitialize,
        OnlyTheAdminIsPaid, RaisedIsAccountedFor, EscrowBacksRefunds,
        EscrowOwnership
  <1>3. ASSUME NEW signer \in Admins, AdminNext(signer)
        PROVE  FundsInv'
    BY <1>3, InitializeFunds, BookkeepingFunds, FinalizeFunds, WithdrawFunds
    DEF AdminNext
  <1>4. ASSUME NEW u \in Users, BuyerNext(u)
        PROVE  FundsInv'
    BY <1>4, BuyFunds, RefundFunds DEF BuyerNext
  <1>5. CASE UNCHANGED vars
    BY <1>1, <1>5
    DEF vars, FundsInv, Initialized, NothingBeforeInitialize,
        OnlyTheAdminIsPaid, RaisedIsAccountedFor, EscrowBacksRefunds,
        EscrowOwnership
  <1> QED
    BY <1>2, <1>3, <1>4, <1>5 DEF Next

\* The strengthened invariant holds in every reachable state.
LEMMA FundsInvariant == Spec => []FundsInv
  BY InitFunds, StepFunds, PTL DEF Spec

\* Every lamport the presale account says was raised and not refunded is in
\* the escrow, with the team or with the admin, on top of the rent reserve.
THEOREM RaisedAccounted == Spec => []RaisedIsAccountedFor
  <1>1. FundsInv => RaisedIsAccountedFor
    BY DEF FundsInv
  <1> QED
    BY <1>1, FundsInvariant, PTL

\* Until finalize has run, the escrow holds everything buyers paid and were
\* not refunded, above its own rent reserve.
THEOREM RefundsBacked == Spec => []EscrowBacksRefunds
  <1>1. FundsInv => EscrowBacksRefunds
    BY DEF FundsInv
  <1> QED
    BY <1>1, FundsInvariant, PTL

-----------------------------------------------------------------------------
(* A cancelled presale *)

\* Of a presale cancelled before it was finalized, an admin's instruction
\* moves no lamports and takes no tokens.
LEMMA AdminLeavesCancelled ==
  ASSUME FundsInv, NEW signer \in Admins, AdminNext(signer)
  PROVE  RefundsOnly
  <1> SUFFICES ASSUME presale.is_cancelled = 1, presale.is_finalized = 0
               PROVE  /\ presale'.is_cancelled = 1
                      /\ presale'.is_finalized = 0
                      /\ presale'.total_sol_amount = presale.total_sol_amount
                      /\ UNCHANGED <<lamports, escrow>>
                      /\ vault' >= vault
    <2>1. \A w \in Wallets : lamports[w] \in Nat
      BY DEF FundsInv, TypeOK
    <2>2. escrow.lamports \in Nat /\ presale.total_sol_amount \in Nat
      BY RuntimeAssumption
      DEF FundsInv, TypeOK, Account, PresaleAccount, U64
    <2> QED
      BY <2>1, <2>2 DEF RefundsOnly, Wallets
  <1>1. Initialized
    BY DEF FundsInv, NothingBeforeInitialize, ZeroedPresale
  <1>2. presale \in PresaleAccount /\ vault \in Nat
    BY DEF FundsInv, TypeOK
  <1>3. ASSUME NEW a \in InitArgs, Initialize(signer, a)
        PROVE  FALSE
    BY <1>1, <1>3 DEF Initialize, Initialized
  <1>4. ASSUME NEW amount \in DepositAmounts, DepositToken(signer, amount)
        PROVE  UNCHANGED <<presale, lamports, escrow>> /\ vault' >= vault
    BY <1>2, <1>4, PresaleAssumption, RuntimeAssumption
    DEF DepositToken, U64
  <1>5. ASSUME NEW u \in Users,
               AddWhitelist(signer, u) \/ RemoveWhitelist(signer, u)
        PROVE  /\ UNCHANGED <<lamports, escrow, vault>>
               /\ presale'.is_cancelled = presale.is_cancelled
               /\ presale'.is_finalized = presale.is_finalized
               /\ presale'.total_sol_amount = presale.total_sol_amount
    BY <1>2, <1>5 DEF AddWhitelist, RemoveWhitelist, PresaleAccount
  <1>6. ASSUME NEW s \in NewTimes, NEW e \in NewTimes,
               UpdatePresaleDetails(signer, s, e)
        PROVE  /\ UNCHANGED <<lamports, escrow, vault>>
               /\ presale'.is_cancelled = presale.is_cancelled
               /\ presale'.is_finalized = presale.is_finalized
               /\ presale'.total_sol_amount = presale.total_sol_amount
    BY <1>2, <1>6 DEF UpdatePresaleDetails, PresaleAccount
  <1>7. ASSUME CancelPresale(signer)
        PROVE  /\ UNCHANGED <<lamports, escrow, vault>>
               /\ presale'.is_cancelled = 1
               /\ presale'.is_finalized = presale.is_finalized
               /\ presale'.total_sol_amount = presale.total_sol_amount
    BY <1>2, <1>7 DEF CancelPresale, PresaleAccount
  <1>8. ASSUME NEW f \in ForceFlags, Finalize(signer, f)
        PROVE  /\ UNCHANGED <<lamports, escrow, vault>>
               /\ presale'.is_cancelled = 1
               /\ presale'.is_finalized = presale.is_finalized
               /\ presale'.total_sol_amount = presale.total_sol_amount
    <2>1. CancelledByFinalize(f # 0) = 1
      BY DEF CancelledByFinalize
    <2> QED
      BY <1>2, <1>8, <2>1 DEF Finalize, PresaleAccount
  <1>9. ASSUME \/ \E u \in Users : ClaimToken(signer, u)
               \/ WithdrawToken(signer)
               \/ Withdraw(signer)
        PROVE  FALSE
    BY <1>9 DEF ClaimToken, WithdrawToken, Withdraw, is_finalized
  <1> QED
    BY <1>2, <1>3, <1>4, <1>5, <1>6, <1>7, <1>8, <1>9 DEF AdminNext

\* Of such a presale, a buyer's instruction can only pay that buyer back.
LEMMA BuyerLeavesCancelled ==
  ASSUME FundsInv, NEW u \in Users, BuyerNext(u)
  PROVE  RefundsOnly
  <1> SUFFICES ASSUME presale.is_cancelled = 1, presale.is_finalized = 0
               PROVE  RefundsOnly
    BY DEF RefundsOnly
  <1> DEFINE amount == user[u].user_sol_contributed
  <1>1. RefundToken(u)
    BY DEF BuyerNext, BuyToken, MayBuy
  <1>2. TypeOK /\ UNCHANGED vault
    BY <1>1 DEF FundsInv, RefundToken
  <1>3. /\ amount \in Nat /\ escrow \in Account /\ escrow.lamports \in Nat
        /\ presale \in PresaleAccount /\ presale.total_sol_amount \in Nat
        /\ lamports \in [Wallets -> Nat] /\ vault \in Nat
    BY <1>2, RuntimeAssumption
    DEF TypeOK, UserAccount, U64, PresaleAccount, Account
  <1>4. \A w \in Wallets : lamports[w] \in Nat
    BY <1>3
  <1>5. CASE UNCHANGED <<presale, escrow, lamports>>
    BY <1>2, <1>3, <1>4, <1>5 DEF RefundsOnly, Wallets
  <1>6. CASE /\ CanDebit(escrow, amount)
             /\ escrow' = Debited(escrow, amount)
             /\ lamports' = [lamports EXCEPT ![u] = @ + amount]
             /\ presale' = Refunded(presale, amount)
    <2> HIDE DEF amount
    <2>1. escrow'.lamports = escrow.lamports - amount
      BY <1>3, <1>6, DebitedBalance DEF FundsInv, EscrowOwnership
    <2>2. /\ presale'.total_sol_amount = presale.total_sol_amount - amount
          /\ presale'.is_cancelled = 1 /\ presale'.is_finalized = 0
      BY <1>3, <1>6 DEF Refunded, PresaleAccount
    <2>3. /\ lamports'[u] = lamports[u] + amount
          /\ \A w \in Wallets \ {u} : lamports'[w] = lamports[w]
      BY <1>3, <1>6 DEF Wallets
    <2>4. /\ \A w \in Wallets \ Users : lamports'[w] = lamports[w]
          /\ \A w \in Users : lamports'[w] >= lamports[w]
      BY <1>3, <1>4, <2>3 DEF Wallets
    <2> QED
      BY <1>2, <1>3, <2>1, <2>2, <2>4 DEF RefundsOnly
  <1> QED
    BY <1>1, <1>5, <1>6 DEF RefundToken, MayRefund

\* A presale cancelled before it was finalized stays that way: its lamports
\* leave the escrow only into buyers' wallets, and no token leaves the vault.
THEOREM CancelledOnlyRefunds == Spec => CancelledFundsOnlyRefund
  <1>1. FundsInv /\ [Next]_vars => [RefundsOnly]_vars
    <2> SUFFICES ASSUME FundsInv, Next PROVE RefundsOnly
      OBVIOUS
    <2>1. CASE Tick
      <3>1. \A w \in Wallets : lamports[w] \in Nat
        BY DEF FundsInv, TypeOK
      <3> QED
        BY <2>1, <3>1 DEF Tick, RefundsOnly, FundsInv, TypeOK, Wallets
    <2> QED
      BY <2>1, AdminLeavesCancelled, BuyerLeavesCancelled DEF Next
  <1> QED
    BY <1>1, FundsInvariant, PTL DEF Spec, CancelledFundsOnlyRefund
=============================================================================
