------------------------------- MODULE WebTill -------------------------------
(***************************************************************************)
(* The POS page in one browser tab: the cart and its draft in IndexedDB,   *)
(* the review and payment of a sale, and the page itself, which may be     *)
(* left or reloaded at any time.  Sales go through the HTTP client, which  *)
(* keeps the promise of CallPromise and no more.                           *)
(*                                                                         *)
(* A visit is what a customer brings to the till, from the first product   *)
(* in an empty cart to the cart being emptied; copies of a cart in the     *)
(* draft store and in a command carry its visit.                           *)
(***************************************************************************)
EXTENDS Integers, Sequences, FiniteSets, Functions

CONSTANTS
    Products,
    Price,        \* product -> Rupiah, as the catalog shows it
    MaxStock,     \* bound on the stock levels the catalog may show
    Amounts,      \* what may be typed as cash
    MaxQuantity,  \* MAX_LINE_ITEM_QTY
    MaxTotal,     \* MAX_TRANSACTION_AMOUNT
    MaxTender,    \* MAX_TENDER_AMOUNT
    MaxCommands,  \* bound on the sales submitted
    MaxVisits,    \* bound on the visits begun
    MaxMounts,    \* bound on the times the page is opened
    MaxQueue,     \* bound on the storage operations a user leaves pending
    StorageFails, \* storage may refuse, and a page that goes may drop what is pending
    NotANumber

ASSUME TillAssumption ==
    /\ IsFiniteSet(Products) /\ Price \in [Products -> Nat]
    /\ Amounts \subseteq Nat
    /\ {MaxStock, MaxQuantity, MaxTotal, MaxTender, MaxCommands, MaxVisits, MaxMounts, MaxQueue} \subseteq Nat
    /\ MaxMounts > 0
    /\ StorageFails \in BOOLEAN
    /\ NotANumber \notin Int

VARIABLES
    slug,     \* the tenant under whose name the page keeps its cart
    restored, \* the page has looked for a draft (isInitialMount is false)
    cart,
    drafts,   \* IndexedDB: slug -> cart draft
    queue,    \* operations on IndexedDB not done yet, in order
    step,     \* of the checkout controller
    cashTendered,
    command,  \* the key of the sale it shows, or NoCommand
    phase, effect, answer, \* the sales on their way, as CallPromise has them
    body,     \* sale -> the cart it was submitted with
    mount,    \* how often the page was opened
    mountOf,  \* sale -> the opening of the page it belongs to
    visits,   \* visits begun
    kept,     \* storage was given the cart as it is, and has not refused it
    dismissed \* visits whose receipt was dismissed

goods   == <<slug, restored, cart, drafts, queue, visits, kept>>
payment == <<step, cashTendered, command>>
sales   == <<phase, effect, answer, body, mountOf>>
vars    == <<goods, payment, sales, mount, dismissed>>

Commands == 1 .. MaxCommands

NoCommand == 0

Client == INSTANCE CallPromise WITH Calls <- Commands

\* Before it knows its user the page calls the tenant "default".
Slugs == {"default", "tenant"}

Quantity == 0 .. MaxStock

EmptyCart == [items |-> [p \in Products |-> 0], visit |-> 0]

Cart == [items : [Products -> Quantity], visit : 0 .. MaxVisits]

IsEmpty(c) == c.visit = 0

total(c) == SumFunction([p \in Products |-> c.items[p] * Price[p]])

Submitted == {c \in Commands : phase[c] # "idle"}

\* parseIDR: an amount that is too large is as unreadable as one that is none.
Parsed(amount) == IF amount <= MaxTender THEN amount ELSE NotANumber

Read(s)    == [op |-> "read", slug |-> s, cart |-> EmptyCart, mount |-> mount]
Save(s, c) == [op |-> IF IsEmpty(c) THEN "clear" ELSE "save", slug |-> s, cart |-> c, mount |-> 0]
Wipe       == [op |-> "wipe", slug |-> "default", cart |-> EmptyCart, mount |-> 0]

Operation == [op : {"read", "save", "clear", "wipe"}, slug : Slugs, cart : Cart, mount : 0 .. MaxMounts]

TypeOK ==
    /\ slug \in Slugs /\ restored \in BOOLEAN /\ kept \in BOOLEAN
    /\ cart \in Cart /\ drafts \in [Slugs -> Cart]
    /\ \A c \in {cart} \cup {drafts[s] : s \in Slugs} :
          c.visit = 0 <=> \A p \in Products : c.items[p] = 0
    /\ queue \in Seq(Operation)
    /\ step \in {"idle", "review", "submitting", "completed", "rejected", "unknown_error"}
    /\ cashTendered \in Nat \cup {NotANumber} /\ command \in Commands \cup {NoCommand}
    /\ Client!TypeOK
    /\ body \in [Commands -> Cart] /\ mountOf \in [Commands -> 0 .. MaxMounts]
    /\ mount \in 1 .. MaxMounts /\ visits \in 0 .. MaxVisits
    /\ dismissed \subseteq 1 .. MaxVisits

Init ==
    /\ slug = "default" /\ restored = FALSE /\ cart = EmptyCart
    /\ drafts = [s \in Slugs |-> EmptyCart]
    /\ mount = 1
    /\ queue = <<Read("default")>>
    /\ step = "idle" /\ cashTendered = 0 /\ command = NoCommand
    /\ Client!Init
    /\ body = [c \in Commands |-> EmptyCart]
    /\ mountOf = [c \in Commands |-> 0]
    /\ visits = 0 /\ kept = TRUE /\ dismissed = {}

(***************************************************************************)
(* The draft (useCart's effects and lib/offline/db.ts).  Operations on a   *)
(* store are done in the order in which they were asked for.               *)
(***************************************************************************)
PersistGoods(s, c) == IF restored /\ ~IsEmpty(c) THEN <<Save(s, c)>> ELSE <<>>

\* The effect on [items, tenantSlug]: nothing is written before the first look.
Persist(s, c) == IF restored THEN <<Save(s, c)>> ELSE <<>>

SetItems(c) ==
    /\ cart' = c
    /\ queue' = queue \o Persist(slug, c)
    /\ kept' = restored

\* authApi.me() answers; the effects look for the tenant's draft, then write the
\* cart as it is.
ProfileArrives ==
    /\ slug = "default"
    /\ slug' = "tenant"
    /\ queue' = queue \o <<Read("tenant")>> \o Persist("tenant", cart)
    /\ kept' = (kept \/ restored)
    /\ UNCHANGED <<restored, cart, drafts, visits, payment, sales, mount, dismissed>>

\* A draft is shown if the page that asked is still there, for the same tenant.
Awaited(op) == op.mount = mount /\ op.slug = slug

restoreDraft(op, draft) ==
    /\ op.op = "read"
    /\ restored' = (restored \/ op.mount = mount)
    /\ IF Awaited(op) /\ ~IsEmpty(draft)
       THEN /\ cart' = draft /\ kept' = TRUE
            /\ queue' = Append(Tail(queue), Save(slug, draft))
       ELSE /\ queue' = Tail(queue)
            /\ UNCHANGED <<cart, kept>>
    /\ UNCHANGED drafts

Write(op) ==
    /\ op.op # "read"
    /\ drafts' = [s \in Slugs |-> IF op.op = "wipe" \/ s = op.slug THEN op.cart ELSE drafts[s]]
    /\ queue' = Tail(queue)
    /\ UNCHANGED <<restored, cart, kept>>

\* Every call of the store ends in a catch that ignores the failure.
Refused(op) ==
    /\ StorageFails
    /\ restored' = (restored \/ (op.op = "read" /\ op.mount = mount))
    /\ queue' = Tail(queue)
    /\ kept' = FALSE
    /\ UNCHANGED <<cart, drafts>>

Storage ==
    /\ queue # <<>>
    /\ LET op == Head(queue)
       IN restoreDraft(op, drafts[op.slug]) \/ Write(op) \/ Refused(op)
    /\ UNCHANGED <<slug, visits, payment, sales, mount, dismissed>>

(***************************************************************************)
(* The cart, which is inert from the review of a sale to its end.          *)
(***************************************************************************)
Editable == step = "idle" /\ Len(queue) < MaxQueue

EditOfKeepsVisit(p, q) ==
    [items |-> [cart.items EXCEPT ![p] = q],
     visit |-> IF IsEmpty(cart) THEN visits + 1 ELSE cart.visit]

EditOf(p, q) ==
    LET items == [cart.items EXCEPT ![p] = q]
    IN  IF \A r \in Products : items[r] = 0 THEN EmptyCart
        ELSE [items |-> items, visit |-> IF IsEmpty(cart) THEN visits + 1 ELSE cart.visit]

Edit(p, q) ==
    /\ SetItems(EditOf(p, q))
    /\ visits' = IF IsEmpty(cart) THEN visits + 1 ELSE visits
    /\ UNCHANGED <<slug, restored, drafts, payment, sales, mount, dismissed>>

\* A product card or the scanner offers what the catalog says is in stock.
Sellable(stock) == stock > 0

\* stock is what the catalog shows now; the cart never asks for more.
addItem(p, stock) ==
    /\ Editable
    /\ Sellable(stock)
    /\ IsEmpty(cart) => visits < MaxVisits
    /\ Edit(p, IF cart.items[p] + 1 < stock THEN cart.items[p] + 1 ELSE stock)

\* stock is what the catalog showed when the product was added.
updateQuantity(p, stock) ==
    /\ Editable
    /\ cart.items[p] > 0 /\ cart.items[p] < stock
    /\ Edit(p, cart.items[p] + 1)

decrementItem(p) ==
    /\ Editable
    /\ cart.items[p] > 1
    /\ Edit(p, cart.items[p] - 1)

removeItem(p) ==
    /\ Editable
    /\ cart.items[p] > 0
    /\ Edit(p, 0)

clearCart ==
    /\ Editable
    /\ ~IsEmpty(cart)
    /\ SetItems(EmptyCart)
    /\ UNCHANGED <<slug, restored, drafts, visits, payment, sales, mount, dismissed>>

(***************************************************************************)
(* The checkout controller and the dialogs that show it.                   *)
(***************************************************************************)
\* The cart panel's button.
OffersCheckout == step = "idle" /\ ~IsEmpty(cart)

startReview ==
    /\ OffersCheckout
    /\ total(cart) <= MaxTotal
    /\ step' = "review" /\ cashTendered' = total(cart) /\ command' = NoCommand
    /\ UNCHANGED <<goods, sales, mount, dismissed>>

\* Cash is typed, or chosen from the amounts the dialog offers.
setCashTendered(amount) ==
    /\ step = "review"
    /\ cashTendered' = amount
    /\ UNCHANGED <<goods, step, command, sales, mount, dismissed>>

closeReviewUndecided ==
    /\ step \in {"review", "rejected", "unknown_error"}
    /\ step' = "idle"
    /\ UNCHANGED <<goods, cashTendered, command, sales, mount, dismissed>>

closeReview ==
    /\ step \in {"review", "rejected"}
    /\ step' = "idle"
    /\ UNCHANGED <<goods, cashTendered, command, sales, mount, dismissed>>

\* The tender dialog's button, which is disabled once the sale is submitted.
OffersPayment ==
    /\ step = "review"
    /\ cashTendered # NotANumber
    /\ cashTendered >= total(cart)

\* Anything else is pointed out to the cashier and changes nothing.
Acceptable ==
    /\ ~IsEmpty(cart) /\ \A p \in Products : cart.items[p] <= MaxQuantity
    /\ total(cart) <= MaxTotal /\ cashTendered <= MaxTender

submitCheckout ==
    /\ OffersPayment
    /\ Acceptable
    /\ \E c \in Commands :
          /\ \A d \in Commands : d < c <=> d \in Submitted
          /\ command' = c
          /\ Client!Submit(c)
          /\ body' = [body EXCEPT ![c] = cart]
          /\ mountOf' = [mountOf EXCEPT ![c] = mount]
    /\ step' = "submitting"
    /\ UNCHANGED <<goods, cashTendered, mount, dismissed>>

Serve(c) ==
    /\ Client!TakeEffect(c)
    /\ UNCHANGED <<goods, payment, body, mountOf, mount, dismissed>>

OutcomesHopeful(a) ==
    CASE a = "ok" -> {"completed", "unknown_error"}
      [] OTHER    -> {"rejected", "unknown_error"}

\* The steps that an answer may lead to: a success that is no receipt and a
\* rejection that is not known to precede the commit decide nothing.
Outcomes(a) ==
    CASE a = "ok"       -> {"completed", "unknown_error"}
      [] a = "rejected" -> {"rejected", "unknown_error"}
      [] OTHER          -> {"unknown_error"}

\* A session that cannot be renewed takes the offline data with it.
SessionEnds(a) ==
    IF a = "unauthorized" THEN queue' = Append(queue, Wipe) /\ kept' = FALSE
    ELSE UNCHANGED <<queue, kept>>

AnsweredUnlessLost(a) ==
    /\ step = "submitting"
    /\ Client!Answer(command, a)
    /\ IF a = "lost" THEN UNCHANGED step ELSE step' \in Outcomes(a)
    /\ SessionEnds(a)
    /\ UNCHANGED <<slug, restored, cart, drafts, visits, cashTendered, command, body, mount, mountOf, dismissed>>

Answered(a) ==
    /\ step = "submitting"
    /\ Client!Answer(command, a)
    /\ step' \in Outcomes(a)
    /\ SessionEnds(a)
    /\ UNCHANGED <<slug, restored, cart, drafts, visits, cashTendered, command, body, mount, mountOf, dismissed>>

\* The receipt's button.
OffersNewSale == step = "completed"

finishCompleted ==
    /\ OffersNewSale
    /\ SetItems(EmptyCart)
    /\ step' = "idle" /\ cashTendered' = 0 /\ command' = NoCommand
    /\ dismissed' = dismissed \cup {body[command].visit}
    /\ UNCHANGED <<slug, restored, drafts, visits, sales, mount>>

(***************************************************************************)
(* The page.  Whoever opens it again finds a new cart and a new controller.*)
(***************************************************************************)
Open(pending) ==
    /\ mount < MaxMounts
    /\ mount' = mount + 1
    /\ slug' = "default" /\ restored' = FALSE /\ cart' = EmptyCart /\ kept' = TRUE
    /\ queue' = Append(pending, [Read("default") EXCEPT !.mount = mount + 1])
    /\ step' = "idle" /\ cashTendered' = 0 /\ command' = NoCommand
    /\ UNCHANGED <<drafts, visits, sales, dismissed>>

\* Navigation within the application and back.
Leave == Open(queue)

\* A reload, a crash or a power cut.
Reload == StorageFails /\ Open(<<>>)

EditCart ==
    \E p \in Products :
        \/ \E s \in Quantity : addItem(p, s) \/ updateQuantity(p, s)
        \/ decrementItem(p)
        \/ removeItem(p)

AnyAnswer == \E a \in Client!Answers : Answered(a)

Next ==
    \/ ProfileArrives \/ Storage
    \/ EditCart \/ clearCart
    \/ startReview \/ closeReview \/ submitCheckout \/ finishCompleted
    \/ \E amount \in Amounts : setCashTendered(Parsed(amount))
    \/ setCashTendered(total(cart))
    \/ \E c \in Commands : Serve(c)
    \/ AnyAnswer
    \/ Leave \/ Reload

Spec == Init /\ [][Next]_vars

\* The client answers every call; the browser gets round to its storage.
FairSpec == Spec /\ WF_vars(AnyAnswer) /\ WF_vars(Storage)

(***************************************************************************)
(* Properties.                                                             *)
(***************************************************************************)
MayStillCount(c) == phase[c] = "open" \/ answer[c] = "lost"

\* What the cashier is shown is what happened: a receipt is of a sale that was
\* made, and a sale shown as rejected was not made and never will be.
StepTellsEffect ==
    /\ step = "completed" => effect[command] = 1
    /\ step = "rejected" => effect[command] = 0 /\ ~MayStillCount(command)

\* A page submits no second sale before it knows how the first one ended.  So
\* whoever opened it once cannot charge a customer twice by trying again.
UndecidedIsFinal ==
    \A c, d \in Submitted :
        c < d /\ mountOf[c] = mountOf[d] => answer[c] \in {"ok", "rejected"}

\* Once storage is at rest, a draft is the cart it was written for, so that
\* opening the page again loses nothing and brings nothing back.
DraftCatchesUp ==
    restored /\ kept /\ queue = <<>> => drafts[slug] = cart

\* A sale that was submitted is decided, or declared undecided, and the look for
\* a draft ends, whatever is refused or lost.
NothingHangs ==
    /\ step = "submitting" ~> step # "submitting"
    /\ ~restored ~> restored

\* lib/offline/db.ts: the draft is cleared "upon checkout completion", so a cart
\* whose receipt was dismissed is not on the till again.
PaidCartStaysGone == cart.visit \notin dismissed
=============================================================================
