----------------------------- MODULE BankLedger -----------------------------
(***************************************************************************)
(* What the send keeper promises (x/bank/keeper SendKeeper: "transfer of  *)
(* coins between accounts without the possibility of creating coins"):    *)
(* in every step only the accounts that signed it may lose coins, no coin *)
(* comes into existence, and whatever leaves the accounts in total leaves *)
(* the supply too (it is burnt).  The supply always equals the sum of the *)
(* balances.                                                              *)
(***************************************************************************)
EXTENDS Integers, FiniteSets, FiniteSetsExt

CONSTANTS Accounts, Denoms

VARIABLES
    balances,   \* account -> denom -> amount
    supply,     \* denom -> total supply
    signers     \* the accounts that authorised the last step

Total(b, d) == MapThenSumSet(LAMBDA a : b[a][d], Accounts)

Init ==
    /\ balances \in [Accounts -> [Denoms -> Nat]]
    /\ supply = [d \in Denoms |-> Total(balances, d)]
    /\ signers = {}

\* a step authorised by the accounts in S: nobody else loses coins, no
\* denomination gains coins, and the supply falls by what the accounts lose
Transfer(S) ==
    /\ signers' = S
    /\ balances' \in [Accounts -> [Denoms -> Nat]]
    /\ \A a \in Accounts \ S, d \in Denoms : balances'[a][d] >= balances[a][d]
    /\ \A d \in Denoms :
          /\ Total(balances', d) <= Total(balances, d)
          /\ supply'[d] = supply[d] - (Total(balances, d) - Total(balances', d))

Next == \E S \in SUBSET Accounts : Transfer(S)

Spec == Init /\ [][Next]_<<balances, supply, signers>>

=============================================================================
