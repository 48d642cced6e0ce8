----------------------------- MODULE WebTillInv -----------------------------
(***************************************************************************)
(* The inductive invariant of WebTill: what the page knows of its sales,   *)
(* and how the cart, its drafts and the operations waiting for storage     *)
(* hang together.  WebTill_proofs proves it, TLC checks it.                *)
(***************************************************************************)
EXTENDS WebTill

(***************************************************************************)
(* The sales.                                                              *)
(***************************************************************************)
CallTypeOK ==
    /\ phase \in [Commands -> {"idle", "open", "ended"}]
    /\ answer \in [Commands -> Client!Answers \cup {"none"}]
    /\ effect \in [Commands -> 0 .. 1]
    /\ mountOf \in [Commands -> Nat]
    /\ mount \in Nat
    /\ step \in {"idle", "review", "submitting", "completed", "rejected", "unknown_error"}

\* What an answer says of its sale, once and for all.
AnswerTellsEffect ==
    \A c \in Commands :
        /\ phase[c] # "ended" => answer[c] = "none"
        /\ answer[c] = "ok" => effect[c] = 1
        /\ answer[c] = "rejected" => effect[c] = 0 /\ phase[c] = "ended"

Decided(c) == answer[c] \in {"ok", "rejected"}

\* The sales of this opening of the page, but for the one it shows.
OthersDecided ==
    \A c \in Submitted :
        /\ mountOf[c] <= mount
        /\ mountOf[c] = mount /\ (step \in {"idle", "review"} \/ c # command) => Decided(c)

\* What the step says of the sale the page shows.
StepOfCommand ==
    /\ step \in {"submitting", "completed", "rejected"} => command \in Commands
    /\ step = "completed" => answer[command] = "ok"
    /\ step = "rejected" => answer[command] = "rejected"

PaymentInv ==
    /\ CallTypeOK
    /\ AnswerTellsEffect
    /\ OthersDecided
    /\ StepOfCommand
    /\ UndecidedIsFinal

(***************************************************************************)
(* The cart.                                                               *)
(***************************************************************************)
Tidy(c) == c.visit = 0 <=> \A p \in Products : c.items[p] = 0

\* A cart on its way to storage, or in a sale, is as good as one on the page.
CopiesAreCarts ==
    /\ \A i \in DOMAIN queue : Tidy(queue[i].cart)
    /\ \A c \in Submitted : body[c].visit # 0
    /\ step \in {"submitting", "completed"} => command \in Submitted

\* The operation decides what the draft of this tenant will be.
Writes(op) == op.op = "wipe" \/ (op.op # "read" /\ op.slug = slug)

\* The look for a draft that this page is waiting for, with nothing behind it that
\* would write one.
LookComes ==
    \E i \in DOMAIN queue :
        /\ queue[i].op = "read" /\ Awaited(queue[i])
        /\ \A j \in DOMAIN queue : j > i => ~Writes(queue[j])

\* The last write that is waiting, or the last one done, is of the cart as it is.
CartComes ==
    \/ /\ drafts[slug] = cart
       /\ \A i \in DOMAIN queue : ~Writes(queue[i])
    \/ \E i \in DOMAIN queue :
          /\ Writes(queue[i]) /\ queue[i].cart = cart
          /\ \A j \in DOMAIN queue : j > i => ~Writes(queue[j])

\* As long as storage keeps what it is given, it will have the cart, or the page
\* the draft.
DraftFollows == kept => (cart = EmptyCart /\ LookComes) \/ (restored /\ CartComes)

IInv ==
    /\ TypeOK
    /\ PaymentInv
    /\ CopiesAreCarts
    /\ DraftFollows
=============================================================================
