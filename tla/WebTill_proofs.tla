--------------------------- MODULE WebTill_proofs ---------------------------
(***************************************************************************)
(* What one opening of the POS page cannot do, for every catalog, every    *)
(* bound and every behaviour of the client that CallPromise allows: submit *)
(* a second sale while the first one is undecided, show an outcome that is *)
(* not the sale's, or leave a draft behind that is not the cart.           *)
(***************************************************************************)
EXTENDS WebTillInv, NumberTheorems

-----------------------------------------------------------------------------

LEMMA InvInit == Init => PaymentInv
<1> SUFFICES ASSUME Init PROVE PaymentInv
  OBVIOUS
<1>1. CallTypeOK
  BY TillAssumption DEF Init, CallTypeOK, Client!Init, Client!Answers
<1>2. Submitted = {}
  BY DEF Init, Client!Init, Submitted
<1>3. AnswerTellsEffect /\ StepOfCommand
  BY DEF Init, Client!Init, AnswerTellsEffect, StepOfCommand
<1>4. OthersDecided /\ UndecidedIsFinal
  BY <1>2 DEF OthersDecided, UndecidedIsFinal
<1> QED  BY <1>1, <1>3, <1>4 DEF PaymentInv

\* The step alone changes, to one that claims no more than the old one.
LEMMA InvIdle ==
    ASSUME PaymentInv, UNCHANGED <<phase, effect, answer, mountOf, mount>>,
           \/ UNCHANGED <<step, command>>
           \/ step \in {"idle", "review", "completed", "rejected"} /\ step' \in {"idle", "review"}
    PROVE  PaymentInv'
<1>1. CallTypeOK' /\ AnswerTellsEffect'
  BY DEF PaymentInv, CallTypeOK, AnswerTellsEffect
<1>2. Submitted' = Submitted
  BY DEF Submitted
<1>3. UndecidedIsFinal'
  BY <1>2 DEF PaymentInv, UndecidedIsFinal
<1>4. OthersDecided'
  <2> SUFFICES ASSUME NEW c \in Submitted
               PROVE  /\ mountOf[c] <= mount
                      /\ mountOf[c] = mount /\ (step' \in {"idle", "review"} \/ c # command') => Decided(c)
    BY <1>2 DEF OthersDecided, Decided
  <2>1. mountOf[c] <= mount
    BY DEF PaymentInv, OthersDecided
  <2>2. CASE UNCHANGED <<step, command>>
    BY <2>2 DEF PaymentInv, OthersDecided
  <2>3. CASE step \in {"idle", "review", "completed", "rejected"}
    BY <2>3 DEF PaymentInv, OthersDecided, StepOfCommand, Decided
  <2> QED  BY <2>1, <2>2, <2>3
<1>5. StepOfCommand'
  BY DEF PaymentInv, StepOfCommand
<1> QED  BY <1>1, <1>3, <1>4, <1>5 DEF PaymentInv

LEMMA InvSubmit == PaymentInv /\ submitCheckout => PaymentInv'
<1> SUFFICES ASSUME PaymentInv, submitCheckout PROVE PaymentInv'
  OBVIOUS
<1>1. PICK c \in Commands :
         /\ \A d \in Commands : d < c <=> d \in Submitted
         /\ command' = c
         /\ Client!Submit(c)
         /\ mountOf' = [mountOf EXCEPT ![c] = mount]
  BY DEF submitCheckout
<1>2. /\ step = "review" /\ step' = "submitting"
      /\ UNCHANGED <<effect, answer, mount>>
      /\ phase[c] = "idle" /\ phase' = [phase EXCEPT ![c] = "open"]
  BY <1>1 DEF submitCheckout, OffersPayment, Client!Submit
<1>3. CallTypeOK'
  BY <1>1, <1>2 DEF PaymentInv, CallTypeOK
<1>4. AnswerTellsEffect'
  BY <1>1, <1>2 DEF PaymentInv, CallTypeOK, AnswerTellsEffect
<1>5. c \notin Submitted /\ Submitted' = Submitted \cup {c}
  BY <1>1, <1>2 DEF PaymentInv, CallTypeOK, Submitted
<1>6. \A d \in Submitted : mountOf'[d] = mountOf[d] /\ d # c
  BY <1>1, <1>5 DEF PaymentInv, CallTypeOK, Submitted
<1>7. mountOf'[c] = mount
  BY <1>1 DEF PaymentInv, CallTypeOK
<1>8. OthersDecided'
  BY <1>1, <1>2, <1>5, <1>6, <1>7 DEF PaymentInv, CallTypeOK, OthersDecided, Decided
<1>9. StepOfCommand'
  BY <1>1, <1>2 DEF StepOfCommand
<1>10. UndecidedIsFinal'
  <2> SUFFICES ASSUME NEW x \in Submitted', NEW y \in Submitted',
                      x < y, mountOf'[x] = mountOf'[y]
               PROVE  answer[x] \in {"ok", "rejected"}
    BY <1>2 DEF UndecidedIsFinal
  <2>1. CASE y = c
    BY <1>2, <1>5, <1>6, <1>7, <2>1 DEF PaymentInv, OthersDecided, Decided, Commands
  <2>2. CASE y # c
    <3>1. y \in Submitted /\ y < c
      BY <1>1, <1>5, <2>2 DEF Submitted
    <3>2. x # c
      BY <1>1, <3>1 DEF Commands, Submitted
    <3> QED  BY <1>5, <1>6, <3>1, <3>2 DEF PaymentInv, UndecidedIsFinal
  <2> QED  BY <2>1, <2>2
<1> QED  BY <1>3, <1>4, <1>8, <1>9, <1>10 DEF PaymentInv

LEMMA InvServe ==
    ASSUME NEW c \in Commands, PaymentInv, Serve(c)
    PROVE  PaymentInv'
<1>1. /\ phase[c] = "open" \/ answer[c] = "lost"
      /\ effect[c] = 0 /\ effect' = [effect EXCEPT ![c] = 1]
      /\ UNCHANGED <<step, command, phase, answer, mountOf, mount>>
  BY DEF Serve, Client!TakeEffect, payment
<1>2. CallTypeOK'
  BY <1>1 DEF PaymentInv, CallTypeOK
<1>3. AnswerTellsEffect'
  BY <1>1 DEF PaymentInv, CallTypeOK, AnswerTellsEffect
<1>4. Submitted' = Submitted
  BY <1>1 DEF Submitted
<1>5. OthersDecided' /\ StepOfCommand' /\ UndecidedIsFinal'
  BY <1>1, <1>4 DEF PaymentInv, OthersDecided, StepOfCommand, UndecidedIsFinal, Decided
<1> QED  BY <1>2, <1>3, <1>5 DEF PaymentInv

LEMMA InvAnswered ==
    ASSUME NEW a \in Client!Answers, PaymentInv, Answered(a)
    PROVE  PaymentInv'
<1>1. /\ step = "submitting" /\ command \in Commands
      /\ step' \in Outcomes(a)
      /\ phase[command] = "open" /\ phase' = [phase EXCEPT ![command] = "ended"]
      /\ answer' = [answer EXCEPT ![command] = a]
      /\ a = "ok" => effect[command] = 1
      /\ a \in {"unauthorized", "rejected"} => effect[command] = 0
      /\ UNCHANGED <<effect, command, mountOf, mount>>
  BY DEF Answered, Client!Answer, PaymentInv, StepOfCommand
<1>2. /\ step' \in {"completed", "rejected", "unknown_error"}
      /\ step' = "completed" => a = "ok"
      /\ step' = "rejected" => a = "rejected"
  BY <1>1 DEF Outcomes
<1>3. CallTypeOK'
  BY <1>1, <1>2 DEF PaymentInv, CallTypeOK
<1>4. AnswerTellsEffect'
  BY <1>1 DEF PaymentInv, CallTypeOK, AnswerTellsEffect
<1>5. Submitted' = Submitted /\ answer[command] = "none"
  BY <1>1 DEF PaymentInv, CallTypeOK, Submitted, AnswerTellsEffect
<1>6. \A d \in Commands : d # command => answer'[d] = answer[d]
  BY <1>1 DEF PaymentInv, CallTypeOK
<1>7. OthersDecided'
  BY <1>1, <1>2, <1>5, <1>6 DEF PaymentInv, OthersDecided, Decided, Submitted
<1>8. StepOfCommand'
  BY <1>1, <1>2 DEF PaymentInv, CallTypeOK, StepOfCommand
<1>9. UndecidedIsFinal'
  BY <1>1, <1>5, <1>6 DEF PaymentInv, UndecidedIsFinal, Submitted
<1> QED  BY <1>3, <1>4, <1>7, <1>8, <1>9 DEF PaymentInv

LEMMA InvOpen ==
    ASSUME NEW pending, PaymentInv, Open(pending)
    PROVE  PaymentInv'
<1>1. /\ mount' = mount + 1 /\ step' = "idle"
      /\ UNCHANGED <<phase, effect, answer, mountOf>>
  BY DEF Open, sales
<1>2. CallTypeOK' /\ AnswerTellsEffect'
  BY <1>1 DEF PaymentInv, CallTypeOK, AnswerTellsEffect
<1>3. Submitted' = Submitted
  BY <1>1 DEF Submitted
<1>4. \A c \in Submitted : mountOf[c] \in Nat /\ mountOf[c] <= mount /\ mount \in Nat
  BY DEF PaymentInv, CallTypeOK, OthersDecided, Submitted
<1>5. OthersDecided'
  BY <1>1, <1>3, <1>4 DEF OthersDecided
<1>6. StepOfCommand' /\ UndecidedIsFinal'
  BY <1>1, <1>3 DEF PaymentInv, StepOfCommand, UndecidedIsFinal
<1> QED  BY <1>2, <1>5, <1>6 DEF PaymentInv

LEMMA InvNext == PaymentInv /\ [Next]_vars => PaymentInv'
<1> SUFFICES ASSUME PaymentInv, [Next]_vars PROVE PaymentInv'
  OBVIOUS
<1> DEFINE Same == UNCHANGED <<step, command, phase, effect, answer, mountOf, mount>>
<1>1. CASE ProfileArrives \/ Storage
  <2>1. Same
    BY <1>1 DEF ProfileArrives, Storage, payment, sales
  <2> QED  BY <2>1, InvIdle
<1>2. CASE EditCart \/ clearCart
  <2>1. Same
    BY <1>2 DEF EditCart, addItem, updateQuantity, decrementItem, removeItem, Edit, clearCart, payment, sales
  <2> QED  BY <2>1, InvIdle
<1>3. CASE startReview
  BY <1>3, InvIdle DEF startReview, OffersCheckout, sales
<1>4. CASE closeReview
  BY <1>4, InvIdle DEF closeReview, sales
<1>5. CASE submitCheckout
  BY <1>5, InvSubmit
<1>6. CASE finishCompleted
  BY <1>6, InvIdle DEF finishCompleted, OffersNewSale, sales
<1>7. ASSUME NEW amount, setCashTendered(amount) PROVE PaymentInv'
  BY <1>7, InvIdle DEF setCashTendered, sales
<1>8. CASE \E c \in Commands : Serve(c)
  BY <1>8, InvServe
<1>9. CASE AnyAnswer
  BY <1>9, InvAnswered DEF AnyAnswer
<1>10. CASE Leave \/ Reload
  BY <1>10, InvOpen DEF Leave, Reload
<1>11. CASE UNCHANGED vars
  BY <1>11, InvIdle DEF vars, payment, sales
<1> QED
  BY <1>1, <1>2, <1>3, <1>4, <1>5, <1>6, <1>7, <1>8, <1>9, <1>10, <1>11 DEF Next

-----------------------------------------------------------------------------
(***************************************************************************)
(* The cart and its copies.                                                *)
(***************************************************************************)
LEMMA TotalIsNat ==
    ASSUME NEW c \in Cart
    PROVE  total(c) \in Nat
<1>. DEFINE f == [p \in Products |-> c.items[p] * Price[p]]
<1>1. ASSUME NEW p \in Products PROVE f[p] \in Nat
  <2>1. c.items[p] \in Nat /\ Price[p] \in Nat
    BY TillAssumption DEF Cart, Quantity
  <2>2. c.items[p] * Price[p] \in Nat
    <3>. DEFINE a == c.items[p]
                b == Price[p]
    <3>1. a \in Nat /\ b \in Nat
      BY <2>1
    <3>. HIDE DEF a, b
    <3>2. a * b \in Nat
      BY <3>1
    <3>. QED
      BY <3>2 DEF a, b
  <2>. QED
    BY <2>2
<1>2. DOMAIN f = Products
  OBVIOUS
<1>. HIDE DEF f
<1>3. SumFunctionOnSet(f, Products) \in Nat
  BY <1>1, SumNat, TillAssumption
<1>. QED
  BY <1>2, <1>3 DEF total, SumFunction, f, SumFunctionOnSet, FoldFunction

LEMMA EmptyIsCart == EmptyCart \in Cart /\ Tidy(EmptyCart) /\ IsEmpty(EmptyCart)
  BY TillAssumption DEF EmptyCart, Cart, Quantity, Tidy, IsEmpty

\* What is bought, or put back, leaves a cart.
LEMMA EditIsCart ==
    ASSUME cart \in Cart, Tidy(cart), visits \in 0 .. MaxVisits,
           NEW p \in Products, NEW q \in Quantity, IsEmpty(cart) => visits < MaxVisits /\ q > 0
    PROVE  EditOf(p, q) \in Cart /\ Tidy(EditOf(p, q))
<1>. DEFINE items == [cart.items EXCEPT ![p] = q]
            visit == IF IsEmpty(cart) THEN visits + 1 ELSE cart.visit
<1>1. items \in [Products -> Quantity]
  BY DEF Cart
<1>2. visit \in 1 .. MaxVisits
  BY TillAssumption DEF Cart, IsEmpty
<1>3. EditOf(p, q) = IF \A r \in Products : items[r] = 0 THEN EmptyCart
                     ELSE [items |-> items, visit |-> visit]
  BY DEF EditOf
<1>. HIDE DEF items, visit
<1>4. CASE \A r \in Products : items[r] = 0
  BY <1>3, <1>4, EmptyIsCart
<1>5. CASE ~ \A r \in Products : items[r] = 0
  <2>1. EditOf(p, q) = [items |-> items, visit |-> visit]
    BY <1>3, <1>5
  <2>2. [items |-> items, visit |-> visit] \in Cart
    BY <1>1, <1>2 DEF Cart
  <2>. QED
    BY <1>2, <1>5, <2>1, <2>2 DEF Tidy
<1>. QED
  BY <1>4, <1>5

\* The operations asked of storage.
LEMMA Operations ==
    ASSUME mount \in 1 .. MaxMounts, NEW s \in Slugs, NEW c \in Cart
    PROVE  /\ Read(s) \in Operation /\ Read(s).op = "read" /\ Read(s).slug = s
           /\ Read(s).mount = mount /\ Read(s).cart = EmptyCart
           /\ Save(s, c) \in Operation /\ Save(s, c).op # "read" /\ Save(s, c).op # "wipe"
           /\ Save(s, c).slug = s /\ Save(s, c).cart = c
           /\ Wipe \in Operation /\ Wipe.op = "wipe" /\ Wipe.cart = EmptyCart
<1>1. 0 \in 0 .. MaxMounts /\ mount \in 0 .. MaxMounts
  BY TillAssumption
<1>2. Save(s, c) = [op |-> IF IsEmpty(c) THEN "clear" ELSE "save", slug |-> s, cart |-> c, mount |-> 0]
  BY DEF Save
<1>3. Save(s, c) \in Operation /\ Save(s, c).op # "read" /\ Save(s, c).op # "wipe"
  <2>1. CASE IsEmpty(c)
    BY <1>1, <1>2, <2>1 DEF Operation
  <2>2. CASE ~IsEmpty(c)
    BY <1>1, <1>2, <2>2 DEF Operation
  <2>. QED
    BY <2>1, <2>2
<1>4. Read(s) \in Operation /\ Wipe \in Operation
  BY <1>1, EmptyIsCart DEF Read, Wipe, Operation, Slugs
<1>. QED
  BY <1>2, <1>3, <1>4 DEF Read, Wipe

\* What a step leaves in the queue: nothing but carts.
Carts(q) == q \in Seq(Operation) /\ \A i \in DOMAIN q : Tidy(q[i].cart)

LEMMA CartsGrow ==
    ASSUME NEW q, Carts(q), NEW op \in Operation, Tidy(op.cart)
    PROVE  /\ Carts(Append(q, op)) /\ Carts(q \o <<op>>)
           /\ q # <<>> => Carts(Tail(q)) /\ Carts(Append(Tail(q), op))
  BY DEF Carts

LEMMA PersistCarts ==
    ASSUME NEW q, Carts(q), mount \in 1 .. MaxMounts, NEW s \in Slugs, NEW c \in Cart, Tidy(c)
    PROVE  Carts(q \o Persist(s, c))
<1>1. CASE restored
  BY <1>1, Operations, CartsGrow DEF Persist
<1>2. CASE ~restored
  BY <1>2 DEF Persist, Carts
<1>. QED
  BY <1>1, <1>2

GoodsOK ==
    /\ slug \in Slugs /\ restored \in BOOLEAN /\ kept \in BOOLEAN
    /\ cart \in Cart /\ Tidy(cart)
    /\ drafts \in [Slugs -> Cart] /\ \A s \in Slugs : Tidy(drafts[s])
    /\ Carts(queue)
    /\ mount \in 1 .. MaxMounts /\ visits \in 0 .. MaxVisits

SalesOK ==
    /\ step \in {"idle", "review", "submitting", "completed", "rejected", "unknown_error"}
    /\ cashTendered \in Nat \cup {NotANumber} /\ command \in Commands \cup {NoCommand}
    /\ Client!TypeOK
    /\ body \in [Commands -> Cart] /\ mountOf \in [Commands -> 0 .. MaxMounts]
    /\ dismissed \subseteq 1 .. MaxVisits
    /\ \A c \in Submitted : body[c].visit # 0
    /\ step \in {"submitting", "completed"} => command \in Submitted

LEMMA TypesInParts == TypeOK /\ CopiesAreCarts <=> GoodsOK /\ SalesOK
  BY DEF TypeOK, CopiesAreCarts, GoodsOK, SalesOK, Carts, Tidy

LEMMA TypesInPartsNext == TypeOK' /\ CopiesAreCarts' <=> GoodsOK' /\ SalesOK'
  BY TypesInParts, PTL

LEMMA GoodsInit == Init => GoodsOK
<1>. SUFFICES ASSUME Init PROVE GoodsOK
  OBVIOUS
<1>1. /\ slug = "default" /\ restored = FALSE /\ cart = EmptyCart /\ kept = TRUE
      /\ drafts = [s \in Slugs |-> EmptyCart]
      /\ mount = 1 /\ visits = 0 /\ queue = <<Read("default")>>
  BY DEF Init
<1>2. "default" \in Slugs /\ EmptyCart \in Cart /\ Tidy(EmptyCart)
  BY EmptyIsCart DEF Slugs
<1>3. mount \in 1 .. MaxMounts
  BY <1>1, TillAssumption
<1>4. Read("default") \in Operation /\ Tidy(Read("default").cart)
  BY <1>2, <1>3, Operations
<1>5. Carts(queue)
  BY <1>1, <1>4 DEF Carts
<1>6. drafts \in [Slugs -> Cart] /\ \A s \in Slugs : Tidy(drafts[s])
  BY <1>1, <1>2
<1>7. visits \in 0 .. MaxVisits
  BY <1>1, TillAssumption
<1>. QED
  BY <1>1, <1>2, <1>3, <1>5, <1>6, <1>7 DEF GoodsOK

LEMMA SalesInit == Init => SalesOK
  BY EmptyIsCart, TillAssumption DEF Init, Client!Init, SalesOK, Client!TypeOK, Submitted

\* A new cart on the page, and on its way to storage.
LEMMA SetItemsGoods ==
    ASSUME GoodsOK, NEW c \in Cart, Tidy(c), SetItems(c),
           UNCHANGED <<slug, restored, drafts, mount>>, visits' \in 0 .. MaxVisits
    PROVE  GoodsOK'
<1>1. Carts(queue \o Persist(slug, c))
  BY PersistCarts DEF GoodsOK
<1>2. Carts(queue')
  BY <1>1 DEF SetItems
<1>. QED
  BY <1>2 DEF GoodsOK, SetItems, Tidy

LEMMA EditGoods ==
    ASSUME GoodsOK, EditCart
    PROVE  GoodsOK'
<1>1. PICK p \in Products, q \in Quantity :
         Edit(p, q) /\ (IsEmpty(cart) => visits < MaxVisits /\ q > 0)
  <2>1. PICK p \in Products : \/ \E s \in Quantity : addItem(p, s) \/ updateQuantity(p, s)
                              \/ decrementItem(p)
                              \/ removeItem(p)
    BY DEF EditCart
  <2>2. /\ cart.items[p] \in Quantity
        /\ IsEmpty(cart) => cart.items[p] = 0
    BY DEF GoodsOK, Cart, Tidy, IsEmpty
  <2>3. ASSUME NEW s \in Quantity, addItem(p, s)
        PROVE  \E q \in Quantity : Edit(p, q) /\ (IsEmpty(cart) => visits < MaxVisits /\ q > 0)
    <3>1. (IF cart.items[p] + 1 < s THEN cart.items[p] + 1 ELSE s) \in Quantity \ {0}
      BY <2>2, <2>3, TillAssumption DEF addItem, Sellable, Quantity
    <3>. QED
      BY <2>3, <3>1, TillAssumption DEF addItem, Quantity
  <2>4. ASSUME NEW s \in Quantity, updateQuantity(p, s)
        PROVE  \E q \in Quantity : Edit(p, q) /\ (IsEmpty(cart) => visits < MaxVisits /\ q > 0)
    <3>1. cart.items[p] + 1 \in Quantity /\ ~IsEmpty(cart)
      BY <2>2, <2>4, TillAssumption DEF updateQuantity, Quantity
    <3>. QED
      BY <2>4, <3>1 DEF updateQuantity
  <2>5. CASE decrementItem(p)
    <3>1. cart.items[p] - 1 \in Quantity /\ ~IsEmpty(cart)
      BY <2>2, <2>5, TillAssumption DEF decrementItem, Quantity
    <3>. QED
      BY <2>5, <3>1 DEF decrementItem
  <2>6. CASE removeItem(p)
    <3>1. 0 \in Quantity /\ ~IsEmpty(cart)
      BY <2>2, <2>6, TillAssumption DEF removeItem, Quantity
    <3>. QED
      BY <2>6, <3>1 DEF removeItem
  <2>. QED
    BY <2>1, <2>3, <2>4, <2>5, <2>6
<1>2. EditOf(p, q) \in Cart /\ Tidy(EditOf(p, q))
  BY <1>1, EditIsCart DEF GoodsOK
<1>3. visits' \in 0 .. MaxVisits
  BY <1>1, TillAssumption DEF Edit, GoodsOK
<1>4. SetItems(EditOf(p, q)) /\ UNCHANGED <<slug, restored, drafts, mount>>
  BY <1>1 DEF Edit
<1>. QED
  BY <1>2, <1>3, <1>4, SetItemsGoods

LEMMA StorageGoods ==
    ASSUME GoodsOK, Storage
    PROVE  GoodsOK'
<1>. DEFINE op == Head(queue)
<1>1. /\ queue # <<>> /\ op \in Operation /\ Tidy(op.cart) /\ op.slug \in Slugs /\ op.cart \in Cart
      /\ Carts(Tail(queue))
  <2>1. queue # <<>> /\ Carts(queue)
    BY DEF Storage, GoodsOK
  <2>2. op \in Operation /\ Tidy(op.cart)
    BY <2>1 DEF Carts
  <2>. HIDE DEF op
  <2>3. op.slug \in Slugs /\ op.cart \in Cart
    BY <2>2 DEF Operation
  <2>. QED
    BY <2>1, <2>2, <2>3, CartsGrow
<1>2. /\ restoreDraft(op, drafts[op.slug]) \/ Write(op) \/ Refused(op)
      /\ UNCHANGED <<slug, visits, mount>>
  BY DEF Storage
<1>. HIDE DEF op
<1>3. CASE restoreDraft(op, drafts[op.slug])
  <2>1. drafts[op.slug] \in Cart /\ Tidy(drafts[op.slug])
    BY <1>1 DEF GoodsOK
  <2>2. Carts(Append(Tail(queue), Save(slug, drafts[op.slug])))
    <3>1. Save(slug, drafts[op.slug]) \in Operation /\ Tidy(Save(slug, drafts[op.slug]).cart)
      BY <2>1, Operations DEF GoodsOK
    <3>. QED
      BY <1>1, <3>1, CartsGrow
  <2>3. Carts(queue') /\ kept' \in BOOLEAN /\ cart' \in Cart /\ Tidy(cart')
    BY <1>1, <1>3, <2>1, <2>2 DEF restoreDraft, GoodsOK
  <2>4. restored' \in BOOLEAN /\ UNCHANGED drafts
    BY <1>3 DEF restoreDraft, GoodsOK
  <2>. QED
    BY <1>2, <2>3, <2>4 DEF GoodsOK, Tidy
<1>4. CASE Write(op)
  <2>1. drafts' \in [Slugs -> Cart] /\ \A s \in Slugs : Tidy(drafts'[s])
    BY <1>1, <1>4 DEF Write, GoodsOK
  <2>2. UNCHANGED <<restored, cart, kept>> /\ queue' = Tail(queue)
    BY <1>4 DEF Write
  <2>. QED
    BY <1>1, <1>2, <2>1, <2>2 DEF GoodsOK, Tidy
<1>5. CASE Refused(op)
  BY <1>1, <1>2, <1>5 DEF Refused, GoodsOK, Tidy
<1>. QED
  BY <1>2, <1>3, <1>4, <1>5

\* What a page that is opened asks for at once.
LEMMA FirstRead ==
    ASSUME mount + 1 \in 1 .. MaxMounts
    PROVE  LET op == [Read("default") EXCEPT !.mount = mount + 1]
           IN  /\ op \in Operation /\ op.op = "read" /\ op.slug = "default"
               /\ op.mount = mount + 1 /\ op.cart = EmptyCart
<1>1. [Read("default") EXCEPT !.mount = mount + 1] =
        [op |-> "read", slug |-> "default", cart |-> EmptyCart, mount |-> mount + 1]
  BY DEF Read
<1>2. EmptyCart \in Cart /\ "default" \in Slugs /\ mount + 1 \in 0 .. MaxMounts
  BY EmptyIsCart DEF Slugs
<1>3. [op |-> "read", slug |-> "default", cart |-> EmptyCart, mount |-> mount + 1] \in Operation
  BY <1>2 DEF Operation
<1>. QED
  BY <1>1, <1>3

LEMMA OpenGoods ==
    ASSUME GoodsOK, NEW pending, Carts(pending), Open(pending)
    PROVE  GoodsOK'
<1>. DEFINE op == [Read("default") EXCEPT !.mount = mount + 1]
<1>1. mount' = mount + 1 /\ mount' \in 1 .. MaxMounts
  BY TillAssumption DEF Open, GoodsOK
<1>2. op \in Operation /\ op.cart = EmptyCart
  BY <1>1, FirstRead
<1>3. queue' = Append(pending, op)
  BY DEF Open
<1>. HIDE DEF op
<1>4. Carts(queue')
  BY <1>2, <1>3, EmptyIsCart, CartsGrow
<1>5. /\ slug' = "default" /\ restored' = FALSE /\ cart' = EmptyCart /\ kept' = TRUE
      /\ UNCHANGED <<drafts, visits>>
  BY DEF Open
<1>. QED
  BY <1>1, <1>4, <1>5, EmptyIsCart DEF GoodsOK, Slugs, Tidy

LEMMA GoodsStep ==
    ASSUME GoodsOK, SalesOK, [Next]_vars
    PROVE  GoodsOK'
<1>. USE DEF goods
<1>1. CASE ProfileArrives
  <2>. DEFINE q == queue \o <<Read("tenant")>>
  <2>1. "tenant" \in Slugs /\ Carts(queue) /\ cart \in Cart /\ Tidy(cart) /\ mount \in 1 .. MaxMounts
    BY DEF Slugs, GoodsOK
  <2>2. Carts(q)
    <3>1. Read("tenant") \in Operation /\ Tidy(Read("tenant").cart)
      BY <2>1, EmptyIsCart, Operations
    <3>. QED
      BY <2>1, <3>1, CartsGrow
  <2>. HIDE DEF q
  <2>3. Carts(q \o Persist("tenant", cart))
    BY <2>1, <2>2, PersistCarts
  <2>4. Carts(queue')
    BY <1>1, <2>3 DEF ProfileArrives, q
  <2>. QED
    BY <1>1, <2>1, <2>4 DEF ProfileArrives, GoodsOK, Tidy
<1>2. CASE Storage
  BY <1>2, StorageGoods
<1>3. CASE EditCart
  BY <1>3, EditGoods
<1>4. CASE clearCart
  BY <1>4, EmptyIsCart, SetItemsGoods DEF clearCart, GoodsOK
<1>5. CASE finishCompleted
  BY <1>5, EmptyIsCart, SetItemsGoods DEF finishCompleted, GoodsOK
<1>6. CASE AnyAnswer
  <2>1. PICK a \in Client!Answers : Answered(a)
    BY <1>6 DEF AnyAnswer
  <2>2. Wipe \in Operation /\ Tidy(Wipe.cart)
    BY EmptyIsCart, Operations DEF GoodsOK, Slugs
  <2>3. Carts(Append(queue, Wipe))
    BY <2>2, CartsGrow DEF GoodsOK
  <2>4. Carts(queue') /\ kept' \in BOOLEAN
    BY <2>1, <2>3 DEF Answered, SessionEnds, GoodsOK
  <2>. QED
    BY <2>1, <2>4 DEF Answered, GoodsOK, Tidy
<1>7. CASE Leave
  BY <1>7, OpenGoods DEF Leave, GoodsOK
<1>8. CASE Reload
  <2>1. Carts(<<>>)
    BY DEF Carts
  <2>. QED
    BY <1>8, <2>1, OpenGoods DEF Reload
<1>9. CASE UNCHANGED <<goods, mount>>
  BY <1>9 DEF GoodsOK, Tidy
<1>10. CASE \/ startReview \/ closeReview \/ submitCheckout
            \/ \E amount \in Amounts : setCashTendered(Parsed(amount))
            \/ setCashTendered(total(cart))
            \/ \E c \in Commands : Serve(c)
            \/ UNCHANGED vars
  BY <1>9, <1>10 DEF startReview, closeReview, submitCheckout, setCashTendered, Serve, vars
<1>. QED
  BY <1>1, <1>2, <1>3, <1>4, <1>5, <1>6, <1>7, <1>8, <1>10 DEF Next

LEMMA SalesStep ==
    ASSUME GoodsOK, SalesOK, [Next]_vars
    PROVE  SalesOK'
<1>. USE DEF sales, payment
<1>1. CASE submitCheckout
  <2>1. PICK c \in Commands :
           /\ command' = c
           /\ Client!Submit(c)
           /\ body' = [body EXCEPT ![c] = cart]
           /\ mountOf' = [mountOf EXCEPT ![c] = mount]
    BY <1>1 DEF submitCheckout
  <2>2. /\ step' = "submitting" /\ cart.visit # 0
        /\ UNCHANGED <<cashTendered, dismissed>>
    BY <1>1 DEF submitCheckout, Acceptable, IsEmpty
  <2>3. Client!TypeOK' /\ phase' = [phase EXCEPT ![c] = "open"]
    BY <2>1 DEF SalesOK, Client!TypeOK, Client!Submit
  <2>4. Submitted' = Submitted \cup {c}
    BY <2>3 DEF Submitted, SalesOK, Client!TypeOK
  <2>5. body' \in [Commands -> Cart] /\ \A d \in Submitted' : body'[d].visit # 0
    BY <2>1, <2>2, <2>4 DEF GoodsOK, SalesOK, Submitted
  <2>6. mountOf' \in [Commands -> 0 .. MaxMounts]
    BY <2>1 DEF GoodsOK, SalesOK
  <2>. QED
    BY <2>1, <2>2, <2>3, <2>4, <2>5, <2>6 DEF SalesOK
<1>2. ASSUME NEW c \in Commands, Serve(c)
      PROVE  SalesOK'
  <2>1. Client!TypeOK' /\ UNCHANGED <<phase, payment, body, mountOf, dismissed>>
    BY <1>2 DEF Serve, SalesOK, Client!TypeOK, Client!TakeEffect
  <2>. QED
    BY <2>1 DEF SalesOK, Submitted
<1>3. ASSUME NEW a \in Client!Answers, Answered(a)
      PROVE  SalesOK'
  <2>1. /\ command \in Submitted
        /\ phase' = [phase EXCEPT ![command] = "ended"]
        /\ answer' = [answer EXCEPT ![command] = a]
        /\ UNCHANGED <<effect, cashTendered, command, body, mountOf, dismissed>>
        /\ step' \in {"completed", "rejected", "unknown_error"}
    BY <1>3 DEF Answered, Client!Answer, SalesOK, Outcomes
  <2>2. Client!TypeOK' /\ Submitted' = Submitted
    BY <2>1 DEF SalesOK, Client!TypeOK, Submitted
  <2>. QED
    BY <2>1, <2>2 DEF SalesOK
<1>4. CASE finishCompleted
  <2>1. command \in Submitted
    BY <1>4 DEF finishCompleted, OffersNewSale, SalesOK
  <2>2. body[command].visit \in 1 .. MaxVisits
    BY <2>1, TillAssumption DEF SalesOK, Cart, Submitted
  <2>3. Submitted' = Submitted
    BY <1>4 DEF finishCompleted, Submitted
  <2>. QED
    BY <1>4, <2>2, <2>3 DEF finishCompleted, SalesOK, NoCommand, Client!TypeOK
<1>5. ASSUME UNCHANGED <<sales, dismissed>>, step' \notin {"submitting", "completed"} \/ UNCHANGED <<step, command>>,
             step' \in {"idle", "review", "submitting", "completed", "rejected", "unknown_error"},
             cashTendered' \in Nat \cup {NotANumber}, command' \in Commands \cup {NoCommand}
      PROVE  SalesOK'
  <2>1. Submitted' = Submitted
    BY <1>5 DEF Submitted
  <2>. QED
    BY <1>5, <2>1 DEF SalesOK, Client!TypeOK
<1>6. total(cart) \in Nat /\ 0 \in Nat
  BY TotalIsNat DEF GoodsOK
<1>7. \A amount \in Amounts : Parsed(amount) \in Nat \cup {NotANumber}
  BY TillAssumption DEF Parsed
<1>8. CASE startReview \/ closeReview
  BY <1>5, <1>6, <1>8 DEF startReview, closeReview, SalesOK, NoCommand
<1>9. CASE \/ \E amount \in Amounts : setCashTendered(Parsed(amount))
           \/ setCashTendered(total(cart))
  BY <1>5, <1>6, <1>7, <1>9 DEF setCashTendered, SalesOK
<1>10. CASE Leave \/ Reload
  BY <1>5, <1>6, <1>10 DEF Leave, Reload, Open, NoCommand
<1>11. CASE ProfileArrives \/ Storage \/ EditCart \/ clearCart \/ UNCHANGED vars
  <2>1. UNCHANGED <<payment, sales, dismissed>>
    BY <1>11 DEF ProfileArrives, Storage, EditCart, addItem, updateQuantity, decrementItem,
       removeItem, Edit, clearCart, vars
  <2>. QED
    BY <1>5, <2>1 DEF SalesOK
<1>. QED
  BY <1>1, <1>2, <1>3, <1>4, <1>8, <1>9, <1>10, <1>11 DEF Next, AnyAnswer

-----------------------------------------------------------------------------
(***************************************************************************)
(* The draft.                                                              *)
(***************************************************************************)
\* LookComes and CartComes, of any queue, tenant, draft and cart.
WritesTo(op, s) == op.op = "wipe" \/ (op.op # "read" /\ op.slug = s)

LookIn(q, s, m) ==
    \E i \in DOMAIN q :
        /\ q[i].op = "read" /\ q[i].mount = m /\ q[i].slug = s
        /\ \A j \in DOMAIN q : j > i => ~WritesTo(q[j], s)

CartIn(q, s, draft, c) ==
    \/ draft = c /\ \A i \in DOMAIN q : ~WritesTo(q[i], s)
    \/ \E i \in DOMAIN q :
          /\ WritesTo(q[i], s) /\ q[i].cart = c
          /\ \A j \in DOMAIN q : j > i => ~WritesTo(q[j], s)

LEMMA ComesIn ==
    /\ LookComes <=> LookIn(queue, slug, mount)
    /\ CartComes <=> CartIn(queue, slug, drafts[slug], cart)
  BY DEF LookComes, LookIn, CartComes, CartIn, Writes, WritesTo, Awaited

LEMMA ComesInNext ==
    /\ LookComes' <=> LookIn(queue', slug', mount')
    /\ CartComes' <=> CartIn(queue', slug', drafts'[slug'], cart')
  BY DEF LookComes, LookIn, CartComes, CartIn, Writes, WritesTo, Awaited

\* What is asked for last is what decides.
LEMMA AskedLast ==
    ASSUME NEW q \in Seq(Operation), NEW op \in Operation, NEW s, NEW m, NEW draft, NEW c
    PROVE  /\ op.op = "read" /\ op.mount = m /\ op.slug = s => LookIn(Append(q, op), s, m)
           /\ WritesTo(op, s) /\ op.cart = c => CartIn(Append(q, op), s, draft, c)
           /\ Append(q, op) = q \o <<op>>
<1>1. /\ Append(q, op)[Len(q) + 1] = op
      /\ DOMAIN Append(q, op) = 1 .. Len(q) + 1 /\ Len(q) \in Nat
      /\ Append(q, op) = q \o <<op>>
  OBVIOUS
<1>2. Len(q) + 1 \in DOMAIN Append(q, op) /\ \A j \in DOMAIN Append(q, op) : ~(j > Len(q) + 1)
  BY <1>1
<1>. QED
  BY <1>1, <1>2 DEF LookIn, CartIn

LEMMA TailFacts ==
    ASSUME NEW q \in Seq(Operation), q # <<>>
    PROVE  /\ Tail(q) \in Seq(Operation)
           /\ \A i \in DOMAIN Tail(q) : i + 1 \in DOMAIN q /\ Tail(q)[i] = q[i + 1]
           /\ \A i \in DOMAIN q : i # 1 => i - 1 \in DOMAIN Tail(q) /\ Tail(q)[i - 1] = q[i]
           /\ 1 \in DOMAIN q /\ Head(q) = q[1] /\ Head(q) \in Operation
           /\ DOMAIN q \subseteq Nat \ {0} /\ DOMAIN Tail(q) \subseteq Nat \ {0}
  OBVIOUS

\* A look that comes still comes when the first operation is done, or was the first.
LEMMA LookInTail ==
    ASSUME NEW q \in Seq(Operation), q # <<>>, NEW s, NEW m, LookIn(q, s, m)
    PROVE  \/ LookIn(Tail(q), s, m)
           \/ /\ Head(q).op = "read" /\ Head(q).mount = m /\ Head(q).slug = s
              /\ \A i \in DOMAIN Tail(q) : ~WritesTo(Tail(q)[i], s)
<1>1. PICK i \in DOMAIN q :
         /\ q[i].op = "read" /\ q[i].mount = m /\ q[i].slug = s
         /\ \A j \in DOMAIN q : j > i => ~WritesTo(q[j], s)
  BY DEF LookIn
<1>2. CASE i = 1
  <2>1. \A j \in DOMAIN Tail(q) : j + 1 \in DOMAIN q /\ j + 1 > 1 /\ Tail(q)[j] = q[j + 1]
    BY TailFacts
  <2>. QED
    BY <1>1, <1>2, <2>1, TailFacts
<1>3. CASE i # 1
  <2>1. i - 1 \in DOMAIN Tail(q) /\ Tail(q)[i - 1] = q[i]
    BY <1>3, TailFacts
  <2>2. \A j \in DOMAIN Tail(q) : j > i - 1 => j + 1 \in DOMAIN q /\ j + 1 > i /\ Tail(q)[j] = q[j + 1]
    BY TailFacts
  <2>. QED
    BY <1>1, <2>1, <2>2 DEF LookIn
<1>. QED
  BY <1>2, <1>3

LEMMA CartInTail ==
    ASSUME NEW q \in Seq(Operation), q # <<>>, NEW s, NEW draft, NEW c, CartIn(q, s, draft, c)
    PROVE  /\ WritesTo(Head(q), s) => CartIn(Tail(q), s, Head(q).cart, c)
           /\ ~WritesTo(Head(q), s) => CartIn(Tail(q), s, draft, c)
<1>1. CASE draft = c /\ \A i \in DOMAIN q : ~WritesTo(q[i], s)
  BY <1>1, TailFacts DEF CartIn
<1>2. ASSUME NEW i \in DOMAIN q, WritesTo(q[i], s), q[i].cart = c,
             \A j \in DOMAIN q : j > i => ~WritesTo(q[j], s)
      PROVE  /\ WritesTo(Head(q), s) => CartIn(Tail(q), s, Head(q).cart, c)
             /\ ~WritesTo(Head(q), s) => CartIn(Tail(q), s, draft, c)
  <2>1. CASE i = 1
    <3>1. \A j \in DOMAIN Tail(q) : j + 1 \in DOMAIN q /\ j + 1 > 1 /\ Tail(q)[j] = q[j + 1]
      BY TailFacts
    <3>2. \A j \in DOMAIN Tail(q) : ~WritesTo(Tail(q)[j], s)
      BY <1>2, <2>1, <3>1
    <3>3. Head(q) = q[1]
      BY TailFacts
    <3>. QED
      BY <1>2, <2>1, <3>2, <3>3 DEF CartIn
  <2>2. CASE i # 1
    <3>1. i - 1 \in DOMAIN Tail(q) /\ Tail(q)[i - 1] = q[i]
      BY <2>2, TailFacts
    <3>2. \A j \in DOMAIN Tail(q) : j > i - 1 => j + 1 \in DOMAIN q /\ j + 1 > i /\ Tail(q)[j] = q[j + 1]
      BY TailFacts
    <3>3. \A j \in DOMAIN Tail(q) : j > i - 1 => ~WritesTo(Tail(q)[j], s)
      BY <1>2, <3>2
    <3>. QED
      BY <1>2, <3>1, <3>3 DEF CartIn
  <2>. QED
    BY <2>1, <2>2
<1>. QED
  BY <1>1, <1>2 DEF CartIn

LEMMA EmptyIsOne ==
    ASSUME NEW c \in Cart, Tidy(c), IsEmpty(c)
    PROVE  c = EmptyCart
<1>1. c.items \in [Products -> Quantity] /\ \A p \in Products : c.items[p] = 0
  BY DEF Cart, Tidy, IsEmpty
<1>2. c.items = [p \in Products |-> 0]
  BY <1>1
<1>3. c = [items |-> c.items, visit |-> c.visit]
  BY DEF Cart
<1>. QED
  BY <1>2, <1>3 DEF EmptyCart, IsEmpty

\* A write of the cart is asked for last.
LEMMA SavedLast ==
    ASSUME GoodsOK, NEW q \in Seq(Operation), NEW s \in Slugs, NEW c \in Cart, NEW draft
    PROVE  /\ CartIn(Append(q, Save(s, c)), s, draft, c)
           /\ Append(q, Save(s, c)) = q \o <<Save(s, c)>>
<1>1. /\ Save(s, c) \in Operation /\ Save(s, c).op # "read"
      /\ Save(s, c).slug = s /\ Save(s, c).cart = c
  BY Operations DEF GoodsOK
<1>2. WritesTo(Save(s, c), s)
  BY <1>1 DEF WritesTo
<1>. QED
  BY <1>1, <1>2, AskedLast

LEMMA SetItemsDraft ==
    ASSUME GoodsOK, NEW c \in Cart, SetItems(c), UNCHANGED <<slug, restored>>
    PROVE  DraftFollows'
<1>1. cart' = c /\ queue' = queue \o Persist(slug, c) /\ kept' = restored
  BY DEF SetItems
<1>2. CASE restored
  <2>1. queue' = queue \o <<Save(slug, c)>>
    BY <1>1, <1>2 DEF Persist
  <2>2. queue \in Seq(Operation) /\ slug \in Slugs
    BY DEF GoodsOK, Carts
  <2>3. CartIn(queue', slug', drafts'[slug'], cart')
    BY <1>1, <2>1, <2>2, SavedLast
  <2>. QED
    BY <1>2, <2>3, ComesInNext DEF DraftFollows
<1>3. CASE ~restored
  BY <1>1, <1>3 DEF DraftFollows, GoodsOK
<1>. QED
  BY <1>2, <1>3

LEMMA ProfileDraft ==
    ASSUME GoodsOK, DraftFollows, ProfileArrives
    PROVE  DraftFollows'
<1>1. /\ slug' = "tenant" /\ "tenant" \in Slugs
      /\ queue' = queue \o <<Read("tenant")>> \o Persist("tenant", cart)
      /\ kept' = (kept \/ restored)
      /\ UNCHANGED <<restored, cart, mount>>
  BY DEF ProfileArrives, Slugs
<1>. DEFINE q == queue \o <<Read("tenant")>>
<1>2. /\ queue \in Seq(Operation) /\ Read("tenant") \in Operation
      /\ Read("tenant").op = "read" /\ Read("tenant").mount = mount /\ Read("tenant").slug = "tenant"
  BY <1>1, EmptyIsCart, Operations DEF GoodsOK, Carts
<1>3. q \in Seq(Operation)
  BY <1>2
<1>4. q = Append(queue, Read("tenant"))
  BY <1>2, AskedLast
<1>5. LookIn(q, "tenant", mount)
  BY <1>2, <1>4, AskedLast
<1>. HIDE DEF q
<1>6. CASE restored
  <2>1. queue' = q \o <<Save("tenant", cart)>>
    BY <1>1, <1>6 DEF Persist, q
  <2>2. CartIn(queue', slug', drafts'[slug'], cart')
    BY <1>1, <1>3, <2>1, SavedLast DEF GoodsOK
  <2>. QED
    BY <1>1, <1>6, <2>2, ComesInNext DEF DraftFollows
<1>7. CASE ~restored
  <2>1. queue' = q
    BY <1>1, <1>3, <1>7 DEF Persist, q
  <2>2. LookComes'
    BY <1>1, <1>5, <2>1, ComesInNext
  <2>3. kept' => kept /\ cart' = EmptyCart
    BY <1>1, <1>7 DEF DraftFollows, GoodsOK
  <2>. QED
    BY <2>2, <2>3 DEF DraftFollows
<1>. QED
  BY <1>6, <1>7 DEF GoodsOK

LEMMA StorageDraft ==
    ASSUME GoodsOK, DraftFollows, Storage
    PROVE  DraftFollows'
<1>. DEFINE op == Head(queue)
<1>1. queue \in Seq(Operation) /\ queue # <<>> /\ slug \in Slugs /\ UNCHANGED <<slug, mount>>
  BY DEF GoodsOK, Carts, Storage
<1>2. /\ op \in Operation /\ op.slug \in Slugs /\ Tail(queue) \in Seq(Operation)
  BY <1>1, TailFacts DEF Operation
<1>3. restoreDraft(op, drafts[op.slug]) \/ Write(op) \/ Refused(op)
  BY DEF Storage
<1>4. kept => \/ cart = EmptyCart /\ LookIn(queue, slug, mount)
              \/ restored /\ CartIn(queue, slug, drafts[slug], cart)
  BY ComesIn DEF DraftFollows
<1>. SUFFICES ASSUME kept'
              PROVE  \/ cart' = EmptyCart /\ LookIn(queue', slug, mount)
                     \/ restored' /\ CartIn(queue', slug, drafts'[slug], cart')
  BY <1>1, ComesInNext DEF DraftFollows
<1>5. \/ LookIn(queue, slug, mount) =>
            \/ LookIn(Tail(queue), slug, mount)
            \/ /\ op.op = "read" /\ op.mount = mount /\ op.slug = slug
               /\ \A i \in DOMAIN Tail(queue) : ~WritesTo(Tail(queue)[i], slug)
  BY <1>1, LookInTail
<1>6. CartIn(queue, slug, drafts[slug], cart) =>
         /\ WritesTo(op, slug) => CartIn(Tail(queue), slug, op.cart, cart)
         /\ ~WritesTo(op, slug) => CartIn(Tail(queue), slug, drafts[slug], cart)
  BY <1>1, CartInTail
<1>. HIDE DEF op
<1>7. CASE restoreDraft(op, drafts[op.slug]) /\ Awaited(op) /\ ~IsEmpty(drafts[op.slug])
  <2>1. /\ cart' = drafts[op.slug] /\ restored'
        /\ queue' = Append(Tail(queue), Save(slug, drafts[op.slug]))
    BY <1>7 DEF restoreDraft, Awaited
  <2>2. drafts[op.slug] \in Cart
    BY <1>2 DEF GoodsOK
  <2>. QED
    BY <1>1, <1>2, <2>1, <2>2, SavedLast
<1>8. CASE restoreDraft(op, drafts[op.slug]) /\ ~(Awaited(op) /\ ~IsEmpty(drafts[op.slug]))
  <2>1. /\ queue' = Tail(queue) /\ UNCHANGED <<cart, kept, drafts>> /\ op.op = "read"
        /\ restored' = (restored \/ op.mount = mount)
    BY <1>8 DEF restoreDraft
  <2>2. ~WritesTo(op, slug)
    BY <2>1 DEF WritesTo
  <2>3. CASE restored /\ CartIn(queue, slug, drafts[slug], cart)
    BY <1>6, <2>1, <2>2, <2>3
  <2>4. CASE cart = EmptyCart /\ LookIn(queue, slug, mount)
    <3>1. CASE LookIn(Tail(queue), slug, mount)
      BY <2>1, <2>4, <3>1
    <3>2. CASE /\ op.mount = mount /\ op.slug = slug
               /\ \A i \in DOMAIN Tail(queue) : ~WritesTo(Tail(queue)[i], slug)
      <4>1. IsEmpty(drafts[slug])
        BY <1>8, <3>2 DEF Awaited
      <4>2. drafts[slug] = EmptyCart
        BY <1>1, <4>1, EmptyIsOne DEF GoodsOK
      <4>. QED
        BY <2>1, <2>4, <3>2, <4>2 DEF CartIn
    <3>. QED
      BY <1>5, <2>4, <3>1, <3>2
  <2>. QED
    BY <1>4, <2>1, <2>3, <2>4
<1>9. CASE Write(op)
  <2>1. /\ queue' = Tail(queue) /\ UNCHANGED <<cart, kept, restored>> /\ op.op # "read"
        /\ drafts'[slug] = IF op.op = "wipe" \/ slug = op.slug THEN op.cart ELSE drafts[slug]
    BY <1>1, <1>9 DEF Write
  <2>2. drafts'[slug] = IF WritesTo(op, slug) THEN op.cart ELSE drafts[slug]
    BY <2>1 DEF WritesTo
  <2>. QED
    BY <1>4, <1>5, <1>6, <2>1, <2>2
<1>10. CASE Refused(op)
  BY <1>10 DEF Refused
<1>. QED
  BY <1>3, <1>7, <1>8, <1>9, <1>10

LEMMA OpenDraft ==
    ASSUME GoodsOK, NEW pending \in Seq(Operation), Open(pending)
    PROVE  DraftFollows'
<1>. DEFINE op == [Read("default") EXCEPT !.mount = mount + 1]
<1>0. mount + 1 \in 1 .. MaxMounts
  BY TillAssumption DEF Open, GoodsOK
<1>1. op.op = "read" /\ op.mount = mount + 1 /\ op.slug = "default" /\ op \in Operation
  BY <1>0, FirstRead
<1>2. queue' = Append(pending, op)
  BY DEF Open
<1>. HIDE DEF op
<1>3. LookIn(queue', "default", mount + 1)
  BY <1>1, <1>2, AskedLast
<1>4. slug' = "default" /\ mount' = mount + 1 /\ cart' = EmptyCart
  BY DEF Open
<1>. QED
  BY <1>3, <1>4, ComesInNext DEF DraftFollows

LEMMA DraftStep ==
    ASSUME GoodsOK, DraftFollows, [Next]_vars
    PROVE  DraftFollows'
<1>. USE DEF goods
<1>1. CASE ProfileArrives
  BY <1>1, ProfileDraft
<1>2. CASE Storage
  BY <1>2, StorageDraft
<1>3. CASE EditCart
  <2>1. cart' \in Cart
    BY <1>3, EditGoods DEF GoodsOK
  <2>2. SetItems(cart') /\ UNCHANGED <<slug, restored>>
    BY <1>3 DEF EditCart, addItem, updateQuantity, decrementItem, removeItem, Edit, SetItems
  <2>. QED
    BY <2>1, <2>2, SetItemsDraft
<1>4. CASE clearCart
  BY <1>4, EmptyIsCart, SetItemsDraft DEF clearCart
<1>5. CASE finishCompleted
  BY <1>5, EmptyIsCart, SetItemsDraft DEF finishCompleted
<1>6. CASE UNCHANGED <<slug, restored, cart, drafts, mount>> /\ (~kept' \/ UNCHANGED <<queue, kept>>)
  <2>1. CASE ~kept'
    BY <2>1 DEF DraftFollows
  <2>2. CASE UNCHANGED <<queue, kept>>
    BY <1>6, <2>2, ComesIn, ComesInNext DEF DraftFollows
  <2>. QED
    BY <1>6, <2>1, <2>2
<1>7. CASE AnyAnswer
  BY <1>6, <1>7 DEF AnyAnswer, Answered, SessionEnds
<1>8. CASE Leave
  BY <1>8, OpenDraft DEF Leave, GoodsOK, Carts
<1>9. CASE Reload
  <2>1. <<>> \in Seq(Operation)
    OBVIOUS
  <2>. QED
    BY <1>9, <2>1, OpenDraft DEF Reload
<1>10. CASE \/ startReview \/ closeReview \/ submitCheckout
            \/ \E amount \in Amounts : setCashTendered(Parsed(amount))
            \/ setCashTendered(total(cart))
            \/ \E c \in Commands : Serve(c)
            \/ UNCHANGED vars
  BY <1>6, <1>10 DEF startReview, closeReview, submitCheckout, setCashTendered, Serve, vars
<1>. QED
  BY <1>1, <1>2, <1>3, <1>4, <1>5, <1>7, <1>8, <1>9, <1>10 DEF Next

-----------------------------------------------------------------------------
(***************************************************************************)
(* The invariant, and what follows from it.                                *)
(***************************************************************************)
LEMMA IInvStep == IInv /\ [Next]_vars => IInv'
<1>. SUFFICES ASSUME IInv, [Next]_vars PROVE IInv'
  OBVIOUS
<1>1. GoodsOK /\ SalesOK /\ PaymentInv /\ DraftFollows
  BY TypesInParts DEF IInv
<1>2. GoodsOK' /\ SalesOK'
  BY <1>1, GoodsStep, SalesStep
<1>3. PaymentInv'
  BY <1>1, InvNext
<1>4. DraftFollows'
  BY <1>1, DraftStep
<1>. QED
  BY <1>2, <1>3, <1>4, TypesInPartsNext DEF IInv

LEMMA InitIInv == Init => IInv
<1>. SUFFICES ASSUME Init PROVE IInv
  OBVIOUS
<1>1. TypeOK /\ CopiesAreCarts
  BY GoodsInit, SalesInit, TypesInParts
<1>2. /\ queue = <<Read("default")>> /\ cart = EmptyCart /\ slug = "default" /\ mount = 1
  BY DEF Init
<1>3. Read("default").op = "read" /\ Read("default").mount = mount /\ Read("default").slug = slug
  BY <1>2 DEF Read
<1>4. LookComes
  BY <1>2, <1>3 DEF LookComes, Awaited
<1>. QED
  BY <1>1, <1>2, <1>4, InvInit DEF IInv, DraftFollows

\* What the page knows of its sales, the cart, its drafts and the operations that
\* wait for storage hang together as WebTillInv says, whatever is lost, refused,
\* left or reloaded.
THEOREM Inductive == Spec => []IInv
  BY InitIInv, IInvStep, PTL DEF Spec

\* The variables keep their types: no edit takes the cart out of its bounds, and
\* no copy of it, in the draft store or in a sale, is other than a cart.
THEOREM TypeCorrect == Spec => []TypeOK
<1>1. IInv => TypeOK
  BY DEF IInv
<1>. QED
  BY <1>1, Inductive, PTL

\* useCart and lib/offline/db.ts: once storage is at rest and has refused nothing,
\* the draft of the tenant is the cart, whatever order looks, edits, answers and
\* the user's profile came in.
THEOREM DraftIsCart == Spec => []DraftCatchesUp
<1>1. IInv => DraftCatchesUp
  BY DEF IInv, DraftFollows, LookComes, CartComes, DraftCatchesUp
<1>. QED
  BY <1>1, Inductive, PTL

\* submitCheckout: one opening of the page submits no second sale before it knows
\* how the first one ended, whatever is lost and however often the user tries.
THEOREM NoSecondCharge == Spec => []UndecidedIsFinal
<1>1. IInv => UndecidedIsFinal
  BY DEF IInv, PaymentInv
<1> QED  BY <1>1, Inductive, PTL

\* Outcomes: a receipt is shown only of a sale that was made, a rejection only of
\* one that was not and never will be.
THEOREM ShownIsTrue == Spec => []StepTellsEffect
<1>1. IInv => StepTellsEffect
  <2> SUFFICES ASSUME PaymentInv PROVE StepTellsEffect
    BY DEF IInv
  <2>1. CASE step = "completed"
    BY <2>1 DEF PaymentInv, StepOfCommand, AnswerTellsEffect, StepTellsEffect
  <2>2. CASE step = "rejected"
    BY <2>2 DEF PaymentInv, StepOfCommand, AnswerTellsEffect, StepTellsEffect, MayStillCount
  <2>3. CASE step \notin {"completed", "rejected"}
    BY <2>3 DEF StepTellsEffect
  <2> QED  BY <2>1, <2>2, <2>3
<1> QED  BY <1>1, Inductive, PTL
=============================================================================
