------------------------------- MODULE Ledger -------------------------------
(***************************************************************************)
(* The journal entries the ledger service composes for the other services, *)
(* and the check every one of them passes before it is inserted:           *)
(* backend/internal/ledger/service.go.  Amounts are whole rupiah.  An      *)
(* account is named by what the chart of accounts calls it.                *)
(***************************************************************************)
EXTENDS Integers, Sequences, Functions

Cash      == "1010"   \* Cash on Hand
Bank      == "1020"   \* Bank Operating Account
Inventory == "1030"   \* Merchandise Inventory
Payable   == "2010"   \* Accounts Payable
Revenue   == "4010"   \* Sales Revenue
COGS      == "5010"   \* Cost of Goods Sold
Shrinkage == "5020"   \* Inventory Shrinkage & Loss

Accounts == {Cash, Bank, Inventory, Payable, Revenue, COGS, Shrinkage}

Line == [account: Accounts, debit: Int, credit: Int]

Debit(account, amount)  == [account |-> account, debit |-> amount, credit |-> 0]
Credit(account, amount) == [account |-> account, debit |-> 0, credit |-> amount]

TotalDebit(lines)  == SumFunction([i \in DOMAIN lines |-> lines[i].debit])
TotalCredit(lines) == SumFunction([i \in DOMAIN lines |-> lines[i].credit])

\* A line debits or credits, one of the two, a positive amount.
OneSided(line) ==
    \/ line.debit > 0 /\ line.credit = 0
    \/ line.debit = 0 /\ line.credit > 0

\* validateBalance: the four errors of the code are the four ways to fail.  An
\* entry whose lines are all one-sided has no zero total.
ValidateBalance(lines) ==
    /\ Len(lines) >= 2
    /\ \A i \in DOMAIN lines : OneSided(lines[i])
    /\ TotalDebit(lines) = TotalCredit(lines)

\* What the entry adds to an account, debits positive.
Effect(lines, account) ==
    SumFunction([i \in DOMAIN lines |-> IF lines[i].account = account
                                        THEN lines[i].debit - lines[i].credit ELSE 0])

AssetAccount(payment) == IF payment = "CASH" THEN Cash ELSE Bank

SaleLines(payment, total, cogs) ==
    << Debit(AssetAccount(payment), total), Credit(Revenue, total),
       Debit(COGS, cogs), Credit(Inventory, cogs) >>

VoidLines(payment, total, cogs) ==
    << Debit(Revenue, total), Credit(AssetAccount(payment), total),
       Debit(Inventory, cogs), Credit(COGS, cogs) >>

ReceiptLines(inboundValue) ==
    << Debit(Inventory, inboundValue), Credit(Payable, inboundValue) >>

\* delta units written off (negative) or found (positive) at unitCost each.
AdjustmentLines(delta, unitCost) ==
    IF delta < 0
    THEN << Debit(Shrinkage, -delta * unitCost), Credit(Inventory, -delta * unitCost) >>
    ELSE << Debit(Inventory, delta * unitCost), Credit(Shrinkage, delta * unitCost) >>
=============================================================================
