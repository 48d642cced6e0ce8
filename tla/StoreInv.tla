------------------------------ MODULE StoreInv ------------------------------
(***************************************************************************)
(* The inductive invariant of Store: what a session knows, and holds, at   *)
(* each of its statements.  Store_proofs proves it, TLC checks it.         *)
(***************************************************************************)
EXTENDS Store

Doing(r, op, steps) == pc[r] \in steps /\ cmd[r].op = op

(***************************************************************************)
(* What holds of each session.                                             *)
(***************************************************************************)
\* Every statement belongs to the command that runs it.
StepFitsCommand(r) ==
    /\ pc[r] \in Steps => cmd[r] \in Commands
    /\ pc[r] \in {"lookup", "locking", "pricing", "insert"} => cmd[r].op = "checkout"
    /\ pc[r] = "lockSale" => cmd[r].op = "void"
    /\ pc[r] \in {"readCost", "count", "audit"} => cmd[r].op = "adjust"
    /\ pc[r] \in {"lockProduct", "reorder", "commit"} => cmd[r].op \in {"update", "delete"}
    /\ pc[r] = "create" => cmd[r].op = "create"
    /\ pc[r] = "posting" => cmd[r].op \in {"checkout", "void"}
    /\ pc[r] = "movement" => cmd[r].op \in {"checkout", "void", "adjust"}
    /\ pc[r] \notin Steps => held[r] = {} /\ view[r] = Nothing /\ toLock[r] = {}

\* Only rows that exist are locked or read.
LockedRowsExist(r) ==
    \A p \in Products :
        \/ p \in toLock[r]
        \/ <<"product", p>> \in held[r]
        \/ <<"inventory", p>> \in held[r]
        \/ view[r][p] # NoRow
        => catalog[p] # NoRow

\* What a checkout read of the catalog, it read under the product's lock, and it
\* is what the catalog still says.
LockedViewIsCurrent(r) ==
    Doing(r, "checkout", Steps) =>
        \A p \in Products :
            /\ view[r][p] # NoRow => <<"product", p>> \in held[r]
            /\ <<"product", p>> \in held[r] => view[r][p] = catalog[p]

\* A checkout past its checks has every product on sale, amounts it can
\* represent, and the key.
CheckedOrder(r) ==
    /\ Doing(r, "checkout", {"insert", "posting", "movement"}) =>
          /\ \A p \in SoldProducts(cmd[r].items) : OnSale(r, p)
          /\ AmountsAccepted(cmd[r], PricedLines(cmd[r].items, view[r]))
    /\ Doing(r, "checkout", {"posting", "movement"}) =>
          /\ <<"key", cmd[r].key>> \in held[r]
          /\ ~Sold(cmd[r].key)

\* A void past its checks has locked the row of a completed sale.
VoidHoldsSale(r) ==
    Doing(r, "void", {"posting", "movement"}) =>
        /\ <<"sale", cmd[r].sale>> \in held[r]
        /\ Voidable(cmd[r].sale)

\* The lines a session posts are lines of its document.
LinesOfDocument(r) ==
    /\ Doing(r, "checkout", {"posting", "movement"}) => toPost[r] \subseteq DOMAIN cmd[r].items
    /\ Doing(r, "checkout", {"movement"}) => line[r] \in DOMAIN cmd[r].items
    /\ Doing(r, "void", {"posting", "movement"}) =>
          toPost[r] \subseteq DOMAIN sales[cmd[r].sale].lines
    /\ Doing(r, "void", {"movement"}) => line[r] \in DOMAIN sales[cmd[r].sale].lines

\* An adjustment has read the product it adjusts, and its balance allows it.
AdjustsKnownProduct(r) ==
    /\ Doing(r, "adjust", {"count", "movement", "audit"}) =>
          view[r][cmd[r].product] # NoRow
    /\ Doing(r, "adjust", {"movement", "audit"}) =>
          AdjustmentAccepted(cmd[r], seen[r][cmd[r].product])

\* An edit past its checks has locked the product.
EditHoldsProduct(r) ==
    pc[r] \in {"reorder", "commit"} => <<"product", cmd[r].product>> \in held[r]

\* Only a request that is over has a sale; the sale names products there are, and
\* its cost was representable.
SaleIsOver(r) ==
    sales[r] # NoRow =>
        /\ pc[r] = "done"
        /\ Representable(TotalCOGS(sales[r].lines))
        /\ \A i \in DOMAIN sales[r].lines : catalog[sales[r].lines[i].product] # NoRow

SessionInv(r) ==
    /\ StepFitsCommand(r)
    /\ LockedRowsExist(r)
    /\ LockedViewIsCurrent(r)
    /\ CheckedOrder(r)
    /\ VoidHoldsSale(r)
    /\ LinesOfDocument(r)
    /\ AdjustsKnownProduct(r)
    /\ EditHoldsProduct(r)
    /\ SaleIsOver(r)

(***************************************************************************)
(* What holds between sessions.                                            *)
(***************************************************************************)
\* No two sessions hold locks that exclude one another.
LocksExclusive ==
    \A r, q \in Requests : r # q => \A a \in held[r], b \in held[q] : a \notin Rivals(b)

\* Every session knows what its locks guarantee it, and the locks exclude one
\* another: from this the safety properties of Store follow.
IInv ==
    /\ TypeOK
    /\ LocksExclusive
    /\ LockedBalanceIsCurrent
    /\ KeySoldOnce
    /\ \A r \in Requests : SessionInv(r)

(***************************************************************************)
(* The books: what a session is about to publish, and what is published.   *)
(***************************************************************************)
\* A session has inserted the movements of the lines it has posted.
MovesOfLines(r) ==
    LET lines == PostedLines(r)
        p     == cmd[r].product
        delta == AdjustmentDelta(cmd[r], seen[r][p])
    IN  /\ Doing(r, "checkout", {"posting", "movement"}) =>
              moves[r] = {SaleMovement(r, lines, i) : i \in DOMAIN lines \ toPost[r]}
        /\ Doing(r, "void", {"posting", "movement"}) =>
              moves[r] = {VoidMovement(cmd[r].sale, lines, i) : i \in DOMAIN lines \ toPost[r]}
        /\ Doing(r, "adjust", {"audit"}) =>
              moves[r] = IF delta = 0 THEN {} ELSE {AdjustmentMovement(r, p, delta)}
        /\ Doing(r, "adjust", {"movement"}) => moves[r] = {}
        /\ pc[r] \notin {"posting", "movement", "audit"} => moves[r] = {}

\* It holds the balance of every movement, inserted or about to be, and the balance
\* it works with is the committed one with its own movements added.
BalanceOfMoves(r) ==
    /\ \A m \in moves[r] : <<"inventory", m.product>> \in held[r]
    /\ pc[r] = "movement" => <<"inventory", MovementOf(r).product>> \in held[r]
    /\ pc[r] = "audit" => <<"inventory", cmd[r].product>> \in held[r]
    /\ \A p \in Products :
          <<"inventory", p>> \in held[r] => work[r][p] = seen[r][p] + Net(moves[r], p)

\* The document of an adjustment is written by the request's commit.
AdjustedWhenDone ==
    /\ \A m \in movements :
          m.source = "MANUAL_ADJUSTMENT" => m.doc \in Requests /\ pc[m.doc] = "done"
    /\ \A a \in audits : pc[a.doc] = "done"

\* A product has movements only once it has a row, and finitely many.
MovementsOfProducts ==
    /\ \A m \in movements : catalog[m.product] # NoRow
    /\ \A p \in Products : IsFiniteSet({m \in movements : m.product = p})

\* The cost of a product is one it was given, and so is the cost an adjustment read.
CostsAreKnown ==
    /\ \A p \in Products : catalog[p] # NoRow => catalog[p].cost \in Promise!KnownCosts(p)
    /\ \A r \in Requests : Doing(r, "adjust", {"count", "movement", "audit"}) =>
          view[r][cmd[r].product].cost \in Promise!KnownCosts(cmd[r].product)

\* The books are right whenever a session may commit: what it publishes is what
\* its document says, on the balances of that moment.
BooksInv ==
    /\ \A r \in Requests : MovesOfLines(r) /\ BalanceOfMoves(r)
    /\ AdjustedWhenDone
    /\ MovementsOfProducts
    /\ CostsAreKnown
    /\ StockIsSumOfMovements
    /\ TrailMatchesDocuments
=============================================================================
