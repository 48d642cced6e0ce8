-------------------------- MODULE BackOffice_proofs --------------------------
(***************************************************************************)
(* The safety of BackOffice, for any rows, levels and number of commands,  *)
(* openings and fetches.                                                   *)
(*                                                                         *)
(* An opening has a number, and all that is submitted from it is about one *)
(* row.  A form that locks itself has one command at a time under way, and *)
(* a success closes it before it is usable again; the two forms that do    *)
(* not lock themselves ask for what can be done to a row only once.        *)
(***************************************************************************)
EXTENDS BackOfficeInv, FiniteSetTheorems, TLAPS

-----------------------------------------------------------------------------
(***************************************************************************)
(* The forms.                                                              *)
(***************************************************************************)
LEMMA FormNames ==
    Forms = {"product", "adjust", "delete", "supplier", "renew", "history", "order", "detail", "void"}
  BY DEF Forms, Form

LEMMA FormTable ==
    ASSUME NEW f \in Forms
    PROVE  /\ f = "product"  => Form[f] = ProductModal
           /\ f = "adjust"   => Form[f] = StockAdjustModal
           /\ f = "delete"   => Form[f] = ProductDeleteDialog
           /\ f = "supplier" => Form[f] = SupplierModal
           /\ f = "renew"    => Form[f] = RegisterCertModal
           /\ f = "history"  => Form[f] = CertHistoryModal
           /\ f = "order"    => Form[f] = PurchaseOrderForm
           /\ f = "detail"   => Form[f] = PurchaseOrderDetail
           /\ f = "void"     => Form[f] = VoidModal
  BY FormNames DEF Form

\* Only two forms do not lock themselves.
LEMMA FormFacts ==
    ASSUME NEW f \in Forms
    PROVE  /\ Form[f].page \in {"inventory", "certificates", "purchases", "sales"}
           /\ Form[f].locks # "form" => f \in {"history", "detail"}
           /\ f \in Dialogs <=> f \notin {"order", "detail"}
  BY FormNames, FormTable DEF Dialogs, ProductModal, StockAdjustModal, ProductDeleteDialog,
     SupplierModal, RegisterCertModal, CertHistoryModal, PurchaseOrderForm,
     PurchaseOrderDetail, VoidModal

LEMMA FormDoes ==
    ASSUME NEW f \in Forms
    PROVE  /\ Form[f].does \subseteq {"add", "edit", "adjust", "count", "end", "register", "revoke", "issue"}
           /\ f = "detail"  => Form[f].page = "purchases" /\ Form[f].does = {"end"}
           /\ f = "history" => Form[f].page = "certificates" /\ Form[f].does = {"revoke"}
           /\ Form[f].page = "purchases" => Form[f].does \subseteq {"issue", "end"}
           /\ Form[f].page = "certificates" => Form[f].does \subseteq {"add", "register", "revoke"}
  BY FormNames, FormTable DEF ProductModal, StockAdjustModal, ProductDeleteDialog,
     SupplierModal, RegisterCertModal, CertHistoryModal, PurchaseOrderForm,
     PurchaseOrderDetail, VoidModal

\* One dialog at a time, said without counting.
OneDialog == \A f, g \in Dialogs : open[f] # Closed /\ open[g] # Closed => f = g

LEMMA DialogsCounted ==
    Cardinality({f \in Dialogs : open[f] # Closed}) <= 1 <=> OneDialog
<1>. DEFINE S == {f \in Dialogs : open[f] # Closed}
<1>1. IsFiniteSet(Forms)
  <2>. DEFINE A == {"product", "adjust", "delete", "supplier", "renew", "history", "order", "detail"}
  <2>1. IsFiniteSet({}) 
    BY FS_EmptySet
  <2>2. IsFiniteSet({"product"}) /\ IsFiniteSet({"adjust"}) /\ IsFiniteSet({"delete"})
        /\ IsFiniteSet({"supplier"}) /\ IsFiniteSet({"renew"}) /\ IsFiniteSet({"history"})
        /\ IsFiniteSet({"order"}) /\ IsFiniteSet({"detail"}) /\ IsFiniteSet({"void"})
    BY FS_Singleton
  <2>3. IsFiniteSet({"product"} \cup {"adjust"} \cup {"delete"})
    BY <2>2, FS_Union
  <2>4. IsFiniteSet({"supplier"} \cup {"renew"} \cup {"history"})
    BY <2>2, FS_Union
  <2>5. IsFiniteSet({"order"} \cup {"detail"} \cup {"void"})
    BY <2>2, FS_Union
  <2>6. Forms = ({"product"} \cup {"adjust"} \cup {"delete"})
                   \cup ({"supplier"} \cup {"renew"} \cup {"history"})
                   \cup ({"order"} \cup {"detail"} \cup {"void"})
    BY FormNames
  <2>. QED
    BY <2>3, <2>4, <2>5, <2>6, FS_Union
<1>2. IsFiniteSet(S)
  BY <1>1, FS_Subset DEF Dialogs
<1>3. ASSUME Cardinality(S) <= 1, NEW f \in S, NEW g \in S PROVE f = g
  <2>1. Cardinality(S \ {f}) = Cardinality(S) - 1 /\ IsFiniteSet(S \ {f})
    BY <1>2, FS_RemoveElement
  <2>2. Cardinality(S) \in Nat /\ Cardinality(S \ {f}) \in Nat
    BY <1>2, <2>1, FS_CardinalityType
  <2>3. S \ {f} = {}
    BY <1>3, <2>1, <2>2, FS_EmptySet
  <2>. QED
    BY <2>3
<1>4. ASSUME \A f, g \in S : f = g PROVE Cardinality(S) <= 1
  <2>1. CASE S = {}
    BY <2>1, FS_EmptySet
  <2>2. CASE S # {}
    <3>1. PICK f \in S : TRUE
      BY <2>2
    <3>2. S = {f}
      BY <1>4, <3>1
    <3>. QED
      BY <3>2, FS_Singleton
  <2>. QED
    BY <2>1, <2>2
<1>. QED
  BY <1>3, <1>4 DEF OneDialog

-----------------------------------------------------------------------------
(***************************************************************************)
(* Types.                                                                  *)
(***************************************************************************)
LEMMA CallFacts ==
    ASSUME IInv, NEW c \in Calls
    PROVE  /\ c \in Nat /\ c # 0
           /\ phase[c] \in {"idle", "open", "ended"}
           /\ answer[c] \in {"ok", "unauthorized", "rejected", "lost", "none"}
           /\ Asked(c) <=> phase[c] # "idle"
           /\ Asked(c) => asked[c] \in Command /\ FormOf(c) \in Forms /\ asked[c].row \in Rows
           /\ answer[c] # "none" => Asked(c)
  BY OfficeAssumption DEF IInv, TypeOK, Calls, Client!TypeOK, Client!Answers, Asked, FormOf,
     Command, AnswersTellEffect

LEMMA OwnerFacts ==
    ASSUME IInv, NEW f \in fetches
    PROVE  /\ f \in Fetch /\ f.owner \in Calls \cup {0}
           /\ f.owner # 0 => Asked(f.owner) /\ answer[f.owner] = "ok" /\ f.owner \in Calls
<1>1. f \in Fetch /\ f.owner \in Calls \cup {0}
  BY DEF IInv, TypeOK, Fetch
<1>2. f.owner # 0 => answer[f.owner] = "ok"
  BY DEF IInv, OwnersSucceeded
<1>. QED
  BY <1>1, <1>2, CallFacts

LEMMA OpenFacts ==
    ASSUME TypeOK, NEW f \in Forms, open[f] # Closed
    PROVE  /\ open[f] \in Opening /\ open[f].row \in Rows /\ open[f].seen \in Row
           /\ open[f].n \in 1 .. MaxOpenings
  BY DEF TypeOK, Opening

LEMMA OpeningIsOpen ==
    ASSUME NEW o \in Opening
    PROVE  o # Closed /\ o.n # 0
<1>1. o.n \in 1 .. MaxOpenings
  BY DEF Opening
<1>2. o.n # 0
  BY <1>1
<1>. QED
  BY <1>2 DEF Closed

LEMMA CommandIsCommand ==
    ASSUME NEW k \in Command
    PROVE  k # NoCommand
  <1>1. k.form \in Forms
    BY DEF Command
  <1>. QED
    BY <1>1, FormNames DEF NoCommand

LEMMA InitType == Init => TypeOK
<1>. SUFFICES ASSUME Init PROVE TypeOK
  OBVIOUS
<1>1. page \in Pages /\ permitted \in BOOLEAN /\ elsewhere \in 0 .. MaxElsewhere
  BY OfficeAssumption DEF Init
<1>2. rows \in [Rows -> Row]
  BY OfficeAssumption DEF Init, Row, Level
<1>3. /\ list = NoList /\ loading \in BOOLEAN /\ banner \in BOOLEAN /\ overlapped \in BOOLEAN
      /\ fetches = {[n |-> 0, got |-> NotYet, owner |-> 0]}
  BY DEF Init
<1>8. fetches \subseteq Fetch
  <2>1. [n |-> 0, got |-> NotYet, owner |-> 0] \in Fetch
    BY DEF Fetch
  <2>. QED
    BY <1>3, <2>1
<1>4. /\ open \in [Forms -> Opening \cup {Closed}]
      /\ busy \in [Forms -> Rows \cup {NoRow}]
      /\ openings \in 0 .. MaxOpenings
  BY OfficeAssumption DEF Init
<1>5. Cardinality({f \in Dialogs : open[f] # Closed}) <= 1
  BY DialogsCounted DEF Init, OneDialog, Dialogs
<1>6. /\ Client!TypeOK
      /\ \A c \in Calls : asked[c] = NoCommand <=> phase[c] = "idle"
      /\ asked \in [Calls -> Command \cup {NoCommand}]
      /\ changed \in [Calls -> Level \cup {Unchanged}]
  BY DEF Init, Client!Init, Client!TypeOK
<1>7. /\ gate \in {"loading", "ready", "outage"}
      /\ capabilities \in {"unknown", "granted", "denied"}
      /\ entitled \in BOOLEAN /\ everEntitled \in BOOLEAN
  BY DEF Init
<1>. QED
  BY <1>1, <1>2, <1>3, <1>4, <1>5, <1>6, <1>7, <1>8 DEF TypeOK

LEMMA FetchingType ==
    ASSUME TypeOK, NEW owner \in Calls \cup {0}, Fetching(owner)
    PROVE  /\ fetches' \subseteq Fetch
           /\ loading' \in BOOLEAN /\ banner' \in BOOLEAN /\ overlapped' \in BOOLEAN
           /\ UNCHANGED list
           /\ \E n \in Nat : fetches' = fetches \cup {[n |-> n, got |-> NotYet, owner |-> owner]}
<1>1. PICK n \in 0 .. MaxFetches - 1 :
         fetches' = fetches \cup {[n |-> n, got |-> NotYet, owner |-> owner]}
  BY DEF Fetching
<1>2. n \in Nat
  OBVIOUS
<1>3. [n |-> n, got |-> NotYet, owner |-> owner] \in Fetch
  BY <1>2 DEF Fetch
<1>. QED
  BY <1>1, <1>2, <1>3 DEF Fetching, TypeOK

LEMMA FinishedType ==
    ASSUME TypeOK, NEW c \in Calls, FormOf(c) \in Forms, NEW ok \in BOOLEAN, Finished(c, ok)
    PROVE  /\ open' \in [Forms -> Opening \cup {Closed}]
           /\ busy' \in [Forms -> Rows \cup {NoRow}]
           /\ openings' \in 0 .. MaxOpenings
           /\ \A f \in Forms : open'[f] = Closed \/ open'[f] = open[f]
<1>1. UNCHANGED openings /\ busy' = [busy EXCEPT ![FormOf(c)] = NoRow]
  BY DEF Finished, FormOf
<1>2. open' = [open EXCEPT ![FormOf(c)] = Closed] \/ open' = open
  BY DEF Finished, FormOf
<1>. QED
  BY <1>1, <1>2 DEF TypeOK

LEMMA DialogsCountedNext ==
    (Cardinality({f \in Dialogs : open[f] # Closed}) <= 1)' <=> OneDialog'
  BY DialogsCounted, PTL

\* Closing forms keeps the dialogs apart.
LEMMA OneDialogKept ==
    ASSUME TypeOK, \A f \in Forms : open'[f] = Closed \/ open'[f] = open[f]
    PROVE  (Cardinality({f \in Dialogs : open[f] # Closed}) <= 1)'
<1>1. OneDialog
  BY DialogsCounted DEF TypeOK
<1>2. OneDialog'
  BY <1>1 DEF OneDialog, Dialogs
<1>. QED
  BY <1>2, DialogsCountedNext

-----------------------------------------------------------------------------
(***************************************************************************)
(* What the actions on commands do.                                        *)
(***************************************************************************)
\* A submission: the newest command, of an open form that is not locked.
Submitted(c, f, k) ==
    /\ c \in Calls /\ f \in Forms /\ k \in Command
    /\ open[f] # Closed /\ ~Locked(f, open[f].row)
    /\ k.form = f /\ k.does \in Form[f].does
    /\ k.row = open[f].row /\ k.opening = open[f].n
    /\ k.shown = open[f].seen.level /\ k.expected = k.shown
    /\ asked[c] = NoCommand /\ phase[c] = "idle"
    /\ \A b \in Calls : b < c <=> asked[b] # NoCommand
    /\ asked' = [asked EXCEPT ![c] = k]
    /\ phase' = [phase EXCEPT ![c] = "open"]
    /\ busy' = [busy EXCEPT ![f] = open[f].row]
    /\ UNCHANGED <<page, permitted, backend, listing, open, openings, effect, answer, gating, plan>>

LEMMA SubmitEffect ==
    ASSUME IInv, NEW f \in Forms, NEW v \in Level, NEW d \in Form[f].does, Submit(f, d, v)
    PROVE  \E c \in Calls, k \in Command : Submitted(c, f, k)
<1>1. PICK c \in Calls :
         /\ \A b \in Calls : b < c <=> phase[b] # "idle"
         /\ Client!Submit(c)
         /\ asked' = [asked EXCEPT ![c] =
                [form |-> f, does |-> d, row |-> open[f].row, opening |-> open[f].n,
                 shown |-> open[f].seen.level, expected |-> Expected(f), value |-> v]]
  BY DEF Submit
<1>. DEFINE k == [form |-> f, does |-> d, row |-> open[f].row, opening |-> open[f].n,
                 shown |-> open[f].seen.level, expected |-> Expected(f), value |-> v]
<1>2. open[f] # Closed /\ ~Locked(f, open[f].row) /\ busy' = [busy EXCEPT ![f] = open[f].row]
  BY DEF Submit
<1>3. UNCHANGED <<page, permitted, backend, listing, open, openings, gating, plan>>
  BY DEF Submit
<1>4. /\ open[f].row \in Rows /\ open[f].n \in 1 .. MaxOpenings
      /\ open[f].seen.level \in Level
  BY <1>2, OpenFacts DEF IInv, Row
<1>5. k \in Command
  BY <1>4 DEF Command, Expected
<1>6. /\ asked[c] = NoCommand /\ phase[c] = "idle"
      /\ \A b \in Calls : b < c <=> asked[b] # NoCommand
  BY <1>1 DEF Client!Submit, IInv, TypeOK
<1>7. phase' = [phase EXCEPT ![c] = "open"] /\ UNCHANGED <<effect, answer>>
  BY <1>1 DEF Client!Submit
<1>8. asked' = [asked EXCEPT ![c] = k] /\ k.expected = k.shown
  BY <1>1 DEF Expected
<1>9. /\ k.form = f /\ k.does = d /\ k.row = open[f].row /\ k.opening = open[f].n
      /\ k.shown = open[f].seen.level
  OBVIOUS
<1>. HIDE DEF k
<1>10. Submitted(c, f, k)
  BY <1>2, <1>3, <1>5, <1>6, <1>7, <1>8, <1>9 DEF Submitted
<1>. QED
  BY <1>5, <1>10

\* The backend carries out a command on a row that allows it.
Served(c, r) ==
    /\ c \in Calls /\ r \in Rows /\ Asked(c) /\ asked[c] \in Command
    /\ phase[c] = "open" \/ answer[c] = "lost"
    /\ effect[c] = 0 /\ changed[c] = Unchanged
    /\ r = asked[c].row \/ asked[c].does = "issue"
    /\ Accepted(asked[c], rows[r])
    /\ rows' = [rows EXCEPT ![r] = After(asked[c], rows[r])]
    /\ After(asked[c], rows[r]) \in Row
    /\ changed' = [changed EXCEPT ![c] =
                     IF After(asked[c], rows[r]) = rows[r] THEN Unchanged ELSE rows[r].level]
    /\ effect' = [effect EXCEPT ![c] = 1]
    /\ UNCHANGED <<page, permitted, elsewhere, listing, forms, phase, answer, asked, gating, plan>>

LEMMA AfterType ==
    ASSUME NEW k \in Command, NEW row \in Row, Accepted(k, row)
    PROVE  After(k, row) \in Row
<1>. USE OfficeAssumption DEF Row, Level
<1>1. k.value \in Level /\ 0 \in Level /\ row.level \in Level
  BY DEF Command
<1>2. CASE k.does = "edit"
  BY <1>2 DEF After
<1>3. CASE k.does \in {"adjust", "register"}
  <2>1. row.level + 1 \in Level
    BY <1>1, <1>3 DEF Accepted
  <2>2. CASE k.does = "adjust"
    BY <2>1, <2>2 DEF After
  <2>3. CASE k.does = "register"
    BY <2>1, <2>3 DEF After
  <2>. QED
    BY <1>3, <2>2, <2>3
<1>4. CASE k.does = "count"
  BY <1>1, <1>4 DEF After
<1>5. CASE k.does = "revoke"
  BY <1>5 DEF After
<1>6. CASE k.does = "end"
  BY <1>6 DEF After
<1>7. CASE k.does \notin {"edit", "adjust", "register", "count", "revoke", "end"}
  <2>1. After(k, row) = [status |-> "live", level |-> 0]
    BY <1>7 DEF After
  <2>. QED
    BY <1>1, <2>1
<1>. QED
  BY <1>2, <1>3, <1>4, <1>5, <1>6, <1>7

LEMMA ServeEffect ==
    ASSUME IInv, NEW c \in Calls, Serve(c)
    PROVE  \E r \in Rows : Served(c, r)
<1>1. /\ phase[c] = "open" \/ answer[c] = "lost"
      /\ effect[c] = 0 /\ effect' = [effect EXCEPT ![c] = 1]
      /\ UNCHANGED <<phase, answer>>
  BY DEF Serve, Client!TakeEffect
<1>2. Asked(c) /\ asked[c] \in Command
  BY <1>1, CallFacts
<1>3. PICK r \in Rows :
         /\ r = asked[c].row \/ asked[c].does = "issue"
         /\ Accepted(asked[c], rows[r])
         /\ rows' = [rows EXCEPT ![r] = After(asked[c], @)]
         /\ changed' = [changed EXCEPT ![c] = IF rows'[r] = rows[r] THEN Unchanged ELSE rows[r].level]
  BY DEF Serve
<1>4. rows \in [Rows -> Row]
  BY DEF IInv, TypeOK
<1>5. After(asked[c], rows[r]) \in Row
  BY <1>2, <1>3, <1>4, AfterType
<1>6. rows' = [rows EXCEPT ![r] = After(asked[c], rows[r])] /\ rows'[r] = After(asked[c], rows[r])
  BY <1>3, <1>4
<1>7. changed[c] = Unchanged
  BY <1>1 DEF IInv, AnswersTellEffect, Changed
<1>8. UNCHANGED <<page, permitted, elsewhere, listing, forms, asked, gating, plan>>
  BY DEF Serve
<1>9. changed' = [changed EXCEPT ![c] =
                     IF After(asked[c], rows[r]) = rows[r] THEN Unchanged ELSE rows[r].level]
  BY <1>3, <1>6
<1>10. Served(c, r)
  BY <1>1, <1>2, <1>3, <1>5, <1>6, <1>7, <1>8, <1>9 DEF Served
<1>. QED
  BY <1>10

\* An answer: a success has the list fetched, anything else lets the form go.
AnsweredBy(c, a) ==
    /\ c \in Calls /\ Asked(c) /\ asked[c] \in Command /\ FormOf(c) \in Forms
    /\ phase[c] = "open" /\ answer[c] = "none"
    /\ \A f \in fetches : f.owner # c
    /\ a = "ok" => effect[c] = 1
    /\ a = "rejected" => effect[c] = 0
    /\ phase' = [phase EXCEPT ![c] = "ended"]
    /\ answer' = [answer EXCEPT ![c] = a]
    /\ \/ /\ a = "ok" /\ Form[FormOf(c)].waits
          /\ Fetching(c) /\ UNCHANGED forms
       \/ /\ a = "ok" /\ ~Form[FormOf(c)].waits
          /\ Fetching(0) /\ Finished(c, TRUE)
       \/ /\ a # "ok" /\ Finished(c, FALSE)
          /\ UNCHANGED <<list, loading, fetches, overlapped>>
          /\ banner' = (banner \/ ReportsOnPage(FormOf(c)))
    /\ UNCHANGED <<page, permitted, backend, effect, asked, gating, plan>>

LEMMA AnswerEffect ==
    ASSUME IInv, NEW c \in Calls, NEW a \in {"ok", "rejected", "lost"}, Answered(c, a)
    PROVE  AnsweredBy(c, a)
<1>1. /\ phase[c] = "open"
      /\ a = "ok" => effect[c] = 1
      /\ a = "rejected" => effect[c] = 0
      /\ phase' = [phase EXCEPT ![c] = "ended"]
      /\ answer' = [answer EXCEPT ![c] = a]
      /\ UNCHANGED effect
  BY DEF Answered, Client!Answer
<1>2. Asked(c) /\ asked[c] \in Command /\ FormOf(c) \in Forms
  BY <1>1, CallFacts
<1>3. answer[c] = "none"
  BY <1>1 DEF IInv, AnswersTellEffect
<1>4. \A f \in fetches : f.owner # c
  BY <1>3, CallFacts, OwnerFacts
<1>5. UNCHANGED <<page, permitted, backend, asked, gating, plan>>
  BY DEF Answered
<1>6. CASE a = "ok" /\ Form[FormOf(c)].waits
  BY <1>1, <1>2, <1>3, <1>4, <1>5, <1>6 DEF Answered, AnsweredBy, FormOf
<1>7. CASE a = "ok" /\ ~Form[FormOf(c)].waits
  BY <1>1, <1>2, <1>3, <1>4, <1>5, <1>7 DEF Answered, AnsweredBy, FormOf
<1>8. CASE a # "ok"
  BY <1>1, <1>2, <1>3, <1>4, <1>5, <1>8 DEF Answered, AnsweredBy, FormOf
<1>. QED
  BY <1>6, <1>7, <1>8

\* A fetch is over, and with it the command that waited for it.
Fetched(f) ==
    /\ f \in fetches /\ f \in Fetch
    /\ \/ list' = f.got /\ f.got # NotYet
       \/ list' = list /\ banner' = TRUE
    /\ banner' \in BOOLEAN /\ (banner => banner')
    /\ loading' = FALSE
    /\ fetches' = fetches \ {f}
    /\ \/ f.owner = 0 /\ UNCHANGED forms
       \/ /\ f.owner \in Calls /\ Asked(f.owner) /\ FormOf(f.owner) \in Forms
          /\ answer[f.owner] = "ok" /\ Finished(f.owner, TRUE)
    /\ UNCHANGED <<page, permitted, backend, overlapped, commands, gating, plan>>

LEMMA FetchEndEffect ==
    ASSUME IInv, NEW f \in fetches, NEW arrived \in BOOLEAN, NEW complete \in BOOLEAN,
           FetchEnds(f, arrived, complete)
    PROVE  Fetched(f)
<1>1. f \in Fetch /\ f.owner \in Calls \cup {0}
  BY OwnerFacts
<1>2. /\ banner' \in BOOLEAN /\ (banner => banner')
      /\ loading' = FALSE
      /\ fetches' = fetches \ {f}
      /\ UNCHANGED <<page, permitted, backend, overlapped, commands, gating, plan>>
  BY DEF FetchEnds, IInv, TypeOK
<1>3. \/ list' = f.got /\ f.got # NotYet
      \/ list' = list /\ banner' = TRUE
  BY DEF FetchEnds, IInv, TypeOK
<1>4. \/ f.owner = 0 /\ UNCHANGED forms
      \/ /\ f.owner \in Calls /\ Asked(f.owner) /\ FormOf(f.owner) \in Forms
         /\ answer[f.owner] = "ok" /\ Finished(f.owner, TRUE)
  <2>1. CASE f.owner = 0
    BY <2>1 DEF FetchEnds
  <2>2. CASE f.owner # 0
    <3>1. Finished(f.owner, TRUE)
      BY <2>2 DEF FetchEnds
    <3>2. Asked(f.owner) /\ answer[f.owner] = "ok" /\ f.owner \in Calls
      BY <2>2, OwnerFacts
    <3>. QED
      BY <3>1, <3>2, CallFacts
  <2>. QED
    BY <2>1, <2>2
<1>. QED
  BY <1>1, <1>2, <1>3, <1>4 DEF Fetched

\* A fetch reads the rows, and the commands that have changed any.
Reads(f) ==
    /\ f \in fetches /\ f.got = NotYet
    /\ LET got == [rows |-> rows, told |-> {c \in Calls : Changed(c)}]
       IN  fetches' = (fetches \ {f}) \cup {[f EXCEPT !.got = got]}
    /\ UNCHANGED <<page, permitted, backend, list, loading, banner, overlapped, forms, commands,
                   gating, plan>>

\* The steps, by what they do.
Opens(f, o) ==
    /\ f \in Forms /\ o \in Opening
    /\ Form[f].page = page /\ (f \in Dialogs => Desk)
    /\ o.n = openings + 1
    /\ openings' = openings + 1 /\ openings' \in 0 .. MaxOpenings
    /\ open' = [open EXCEPT ![f] = o]
    /\ UNCHANGED <<page, permitted, backend, listing, busy, commands, gating, plan>>

LEMMA OpenEffect ==
    ASSUME IInv, NEW r \in Rows
    PROVE  /\ \A f \in Forms : OpenForm(f, r) => \E o \in Opening : Opens(f, o)
           /\ OpenDetail(r) => \E o \in Opening : Opens("detail", o)
<1>1. /\ rows \in [Rows -> Row] /\ openings \in 0 .. MaxOpenings
      /\ list = NoList \/ list \in [rows : [Rows -> Row], told : SUBSET Calls]
  BY DEF IInv, TypeOK
<1>2. openings < MaxOpenings => openings + 1 \in 1 .. MaxOpenings
  BY <1>1, OfficeAssumption
<1>3. ASSUME NEW f \in Forms, OpenForm(f, r)
      PROVE  \E o \in Opening : Opens(f, o)
  <2>. DEFINE o == [row |-> r, seen |-> list.rows[r], n |-> openings + 1]
  <2>1. list.rows[r] \in Row /\ openings < MaxOpenings
    BY <1>1, <1>3 DEF OpenForm
  <2>2. o \in Opening /\ o.n = openings + 1
    BY <1>2, <2>1 DEF Opening
  <2>3. /\ Form[f].page = page /\ (f \in Dialogs => Desk)
        /\ openings' = openings + 1 /\ open' = [open EXCEPT ![f] = o]
        /\ UNCHANGED <<page, permitted, backend, listing, busy, commands, gating, plan>>
    BY <1>3 DEF OpenForm
  <2>. HIDE DEF o
  <2>4. Opens(f, o)
    BY <1>2, <2>1, <2>2, <2>3 DEF Opens
  <2>. QED
    BY <2>2, <2>4
<1>4. ASSUME OpenDetail(r)
      PROVE  \E o \in Opening : Opens("detail", o)
  <2>. DEFINE o == [row |-> r, seen |-> rows[r], n |-> openings + 1]
  <2>1. rows[r] \in Row /\ openings < MaxOpenings
    BY <1>1, <1>4 DEF OpenDetail
  <2>2. o \in Opening /\ o.n = openings + 1
    BY <1>2, <2>1 DEF Opening
  <2>3. "detail" \in Forms /\ "detail" \notin Dialogs /\ Form["detail"].page = "purchases"
    BY FormNames, FormFacts, FormDoes
  <2>4. /\ page = "purchases"
        /\ openings' = openings + 1 /\ open' = [open EXCEPT !["detail"] = o]
        /\ UNCHANGED <<page, permitted, backend, listing, busy, commands, gating, plan>>
    BY <1>4 DEF OpenDetail
  <2>. HIDE DEF o
  <2>5. Opens("detail", o)
    BY <1>2, <2>1, <2>2, <2>3, <2>4 DEF Opens
  <2>. QED
    BY <2>2, <2>5
<1>. QED
  BY <1>3, <1>4

\* Others change a row, never whether it is there.
Outside ==
    /\ \E r \in Rows, row \in Row :
          /\ rows[r].status # "absent" /\ row.status # "absent"
          /\ page = "purchases" /\ rows[r].status = "gone" => row.status = "gone"
          /\ page = "certificates" => rows[r].level < row.level
          /\ rows' = [rows EXCEPT ![r] = row]
    /\ elsewhere' \in 0 .. MaxElsewhere
    /\ UNCHANGED <<page, permitted, changed, listing, forms, commands, gating, plan>>

LEMMA ElsewhereEffect ==
    ASSUME IInv, Elsewhere
    PROVE  Outside
<1>0. PICK r \in Rows :
         /\ rows[r].status # "absent"
         /\ \E row \in Possible(rows[r]) \ {rows[r]} : rows' = [rows EXCEPT ![r] = row]
  BY DEF Elsewhere
<1>1. PICK row \in Possible(rows[r]) \ {rows[r]} : rows' = [rows EXCEPT ![r] = row]
  BY <1>0
<1>2. rows[r] \in Row /\ rows[r].level \in Nat /\ elsewhere \in 0 .. MaxElsewhere
  BY OfficeAssumption DEF IInv, TypeOK, Row, Level
<1>3. /\ row \in Row /\ row.status # "absent"
      /\ page = "purchases" /\ rows[r].status = "gone" => row.status = "gone"
      /\ page = "certificates" => rows[r].level < row.level
  <2>1. CASE page = "inventory"
    <3>1. PICK l \in Level : row = [rows[r] EXCEPT !.level = l]
      BY <2>1 DEF Possible
    <3>. QED
      BY <1>0, <1>2, <2>1, <3>1 DEF Row
  <2>2. CASE page = "certificates"
    <3>1. row \in [status : {"live"}, level : rows[r].level + 1 .. MaxLevel]
      BY <2>2 DEF Possible
    <3>2. row.level \in Level /\ rows[r].level < row.level
      BY <1>2, <3>1, OfficeAssumption DEF Level
    <3>. QED
      BY <2>2, <3>1, <3>2 DEF Row
  <2>3. CASE page \notin {"inventory", "certificates"}
    <3>1. row = [rows[r] EXCEPT !.status = "gone"]
      BY <2>3 DEF Possible
    <3>. QED
      BY <1>2, <2>3, <3>1 DEF Row
  <2>. QED
    BY <2>1, <2>2, <2>3
<1>4. elsewhere' \in 0 .. MaxElsewhere
  BY <1>2, OfficeAssumption DEF Elsewhere
<1>5. UNCHANGED <<page, permitted, changed, listing, forms, commands, gating, plan>>
  BY DEF Elsewhere
<1>. QED
  BY <1>0, <1>1, <1>3, <1>4, <1>5 DEF Outside

Refreshed ==
    Fetching(0) /\ UNCHANGED <<page, permitted, backend, forms, commands, gating, plan>>

\* The gate moves, or the plan of the tenant.
Gates ==
    /\ gate' \in {"loading", "ready", "outage"}
    /\ capabilities' \in {"unknown", "granted", "denied"}
    /\ entitled' \in BOOLEAN /\ everEntitled' \in BOOLEAN
    /\ elsewhere' \in 0 .. MaxElsewhere
    /\ everEntitled => everEntitled'
    /\ entitled' => everEntitled'
    /\ capabilities' = "granted" => capabilities = "granted" \/ entitled
    /\ UNCHANGED <<page, permitted, rows, changed, listing, forms, commands>>

LEMMA GatesEffect ==
    ASSUME IInv, CapabilitiesArrive \/ RetryGate \/ PlanChanges
    PROVE  Gates
<1>1. /\ gate \in {"loading", "ready", "outage"}
      /\ capabilities \in {"unknown", "granted", "denied"}
      /\ entitled \in BOOLEAN /\ everEntitled \in BOOLEAN
      /\ elsewhere \in 0 .. MaxElsewhere
      /\ entitled => everEntitled
  BY DEF IInv, TypeOK, GateFollowsPlan
<1>2. CASE CapabilitiesArrive
  BY <1>1, <1>2 DEF CapabilitiesArrive, Gates, backend, plan
<1>3. CASE RetryGate
  BY <1>1, <1>3 DEF RetryGate, Gates, backend, plan
<1>4. CASE PlanChanges
  BY <1>1, <1>4, OfficeAssumption DEF PlanChanges, Gates, gating
<1>. QED
  BY <1>2, <1>3, <1>4

\* What a step does, in one of these words.
Effect ==
    \/ \E f \in Forms, o \in Opening : Opens(f, o)
    \/ \E f \in Forms : CloseForm(f)
    \/ \E c \in Calls, f \in Forms, k \in Command : Submitted(c, f, k)
    \/ \E c \in Calls, r \in Rows : Served(c, r)
    \/ \E c \in Calls, a \in {"ok", "rejected", "lost"} : AnsweredBy(c, a)
    \/ \E f \in fetches : Fetched(f)
    \/ \E f \in fetches : Reads(f)
    \/ Refreshed
    \/ Outside
    \/ Gates
    \/ UNCHANGED vars

LEMMA Effects ==
    ASSUME IInv, [Next]_vars
    PROVE  Effect
<1>1. CASE Refresh
  BY <1>1 DEF Refresh, Refreshed, Effect
<1>2. CASE \E n \in 0 .. MaxFetches - 1 : FetchStep(n)
  <2>1. PICK f \in fetches : \/ FetchReads(f)
                             \/ \E arrived, complete \in BOOLEAN : FetchEnds(f, arrived, complete)
    BY <1>2 DEF FetchStep
  <2>2. CASE FetchReads(f)
    <3>1. Reads(f)
      BY <2>2 DEF FetchReads, Reads, Changed
    <3>. QED
      BY <3>1 DEF Effect
  <2>3. CASE \E arrived, complete \in BOOLEAN : FetchEnds(f, arrived, complete)
    <3>1. Fetched(f)
      BY <2>3, FetchEndEffect
    <3>. QED
      BY <3>1 DEF Effect
  <2>. QED
    BY <2>1, <2>2, <2>3
<1>3. CASE \E f \in Forms, r \in Rows : OpenForm(f, r)
  BY <1>3, OpenEffect DEF Effect
<1>4. CASE \E r \in Rows : OpenDetail(r)
  <2>1. "detail" \in Forms
    BY FormNames
  <2>. QED
    BY <1>4, <2>1, OpenEffect DEF Effect
<1>5. CASE \E f \in Forms : CloseForm(f)
  BY <1>5 DEF Effect
<1>6. CASE \E f \in Forms, v \in Level : \E d \in Form[f].does : Submit(f, d, v)
  BY <1>6, SubmitEffect DEF Effect
<1>7. CASE \E c \in Calls : Serve(c)
  BY <1>7, ServeEffect DEF Effect
<1>8. CASE AnyAnswer
  BY <1>8, AnswerEffect DEF AnyAnswer, Effect
<1>9. CASE CapabilitiesArrive \/ RetryGate \/ PlanChanges
  BY <1>9, GatesEffect DEF Effect
<1>10. CASE Elsewhere
  BY <1>10, ElsewhereEffect DEF Effect
<1>11. CASE UNCHANGED vars
  BY <1>11 DEF Effect
<1>. QED
  BY <1>1, <1>2, <1>3, <1>4, <1>5, <1>6, <1>7, <1>8, <1>9, <1>10, <1>11 DEF Next

-----------------------------------------------------------------------------
(***************************************************************************)
(* Each step keeps each part of the invariant.                             *)
(***************************************************************************)
LEMMA TypeStep ==
    ASSUME IInv, Effect
    PROVE  TypeOK'
<1>. USE DEF backend, listing, forms, commands, gating, plan
<1>0. TypeOK
  BY DEF IInv
<1>1. ASSUME NEW f \in Forms, NEW o \in Opening, Opens(f, o)
      PROVE  TypeOK'
  <2>1. OneDialog'
    <3>1. f \in Dialogs => \A g \in Dialogs : g # f => open'[g] = Closed
      BY <1>0, <1>1 DEF Opens, Desk, TypeOK, Dialogs
    <3>2. f \notin Dialogs => \A g \in Dialogs : open'[g] = open[g]
      BY <1>0, <1>1 DEF Opens, TypeOK, Dialogs
    <3>3. OneDialog
      BY <1>0, DialogsCounted DEF TypeOK
    <3>. QED
      BY <3>1, <3>2, <3>3 DEF OneDialog, Dialogs
  <2>2. (Cardinality({g \in Dialogs : open[g] # Closed}) <= 1)' <=> OneDialog'
    BY DialogsCountedNext
  <2>3. open' \in [Forms -> Opening \cup {Closed}]
    BY <1>0, <1>1 DEF Opens, TypeOK
  <2>. QED
    BY <1>0, <1>1, <2>1, <2>2, <2>3 DEF Opens, TypeOK, Client!TypeOK
<1>2. ASSUME NEW f \in Forms, CloseForm(f)
      PROVE  TypeOK'
  <2>1. /\ open' \in [Forms -> Opening \cup {Closed}]
        /\ \A g \in Forms : open'[g] = Closed \/ open'[g] = open[g]
    BY <1>0, <1>2 DEF CloseForm, TypeOK
  <2>2. (Cardinality({g \in Dialogs : open[g] # Closed}) <= 1)'
    BY <1>0, <2>1, OneDialogKept
  <2>. QED
    BY <1>0, <1>2, <2>1, <2>2 DEF CloseForm, TypeOK, Client!TypeOK
<1>3. ASSUME NEW c \in Calls, NEW f \in Forms, NEW k \in Command, Submitted(c, f, k)
      PROVE  TypeOK'
  <2>1. k # NoCommand /\ open[f].row \in Rows
    BY <1>0, <1>3, CommandIsCommand, OpenFacts DEF Submitted
  <2>2. /\ busy' \in [Forms -> Rows \cup {NoRow}]
        /\ asked' \in [Calls -> Command \cup {NoCommand}]
        /\ phase' \in [Calls -> {"idle", "open", "ended"}]
    BY <1>0, <1>3, <2>1 DEF Submitted, TypeOK, Client!TypeOK
  <2>3. \A b \in Calls : asked'[b] = NoCommand <=> phase'[b] = "idle"
    BY <1>0, <1>3, <2>1 DEF Submitted, TypeOK, Client!TypeOK
  <2>. QED
    BY <1>0, <1>3, <2>2, <2>3 DEF Submitted, TypeOK, Client!TypeOK
<1>4. ASSUME NEW c \in Calls, NEW r \in Rows, Served(c, r)
      PROVE  TypeOK'
  <2>1. rows' \in [Rows -> Row]
    BY <1>0, <1>4 DEF Served, TypeOK
  <2>2. rows[r].level \in Level
    BY <1>0 DEF TypeOK, Row
  <2>3. changed' \in [Calls -> Level \cup {Unchanged}]
    BY <1>0, <1>4, <2>2 DEF Served, TypeOK
  <2>4. effect' \in [Calls -> 0 .. 1]
    BY <1>0, <1>4 DEF Served, TypeOK, Client!TypeOK
  <2>. QED
    BY <1>0, <1>4, <2>1, <2>3, <2>4 DEF Served, TypeOK, Client!TypeOK
<1>5. ASSUME NEW c \in Calls, NEW a \in {"ok", "rejected", "lost"}, AnsweredBy(c, a)
      PROVE  TypeOK'
  <2>1. /\ phase' \in [Calls -> {"idle", "open", "ended"}]
        /\ answer' \in [Calls -> Client!Answers \cup {"none"}]
        /\ \A b \in Calls : asked'[b] = NoCommand <=> phase'[b] = "idle"
    BY <1>0, <1>5 DEF AnsweredBy, TypeOK, Client!TypeOK, Client!Answers, Asked
  <2>2. /\ fetches' \subseteq Fetch
        /\ loading' \in BOOLEAN /\ banner' \in BOOLEAN /\ overlapped' \in BOOLEAN
        /\ UNCHANGED list
    <3>1. CASE a = "ok"
      <4>1. Fetching(c) \/ Fetching(0)
        BY <1>5, <3>1 DEF AnsweredBy
      <4>. QED
        BY <1>0, <4>1, FetchingType
    <3>2. CASE a # "ok"
      BY <1>0, <1>5, <3>2 DEF AnsweredBy, TypeOK, ReportsOnPage
    <3>. QED
      BY <3>1, <3>2
  <2>3. /\ open' \in [Forms -> Opening \cup {Closed}]
        /\ busy' \in [Forms -> Rows \cup {NoRow}]
        /\ openings' \in 0 .. MaxOpenings
        /\ \A f \in Forms : open'[f] = Closed \/ open'[f] = open[f]
    <3>1. CASE UNCHANGED forms
      BY <1>0, <3>1 DEF TypeOK
    <3>2. CASE Finished(c, TRUE) \/ Finished(c, FALSE)
      BY <1>0, <1>5, <3>2, FinishedType DEF AnsweredBy
    <3>. QED
      BY <1>5, <3>1, <3>2 DEF AnsweredBy
  <2>4. (Cardinality({g \in Dialogs : open[g] # Closed}) <= 1)'
    BY <1>0, <2>3, OneDialogKept
  <2>5. UNCHANGED <<page, permitted, rows, elsewhere, changed, effect, asked, gate, capabilities,
                    entitled, everEntitled>>
    BY <1>5 DEF AnsweredBy
  <2>. QED
    BY <1>0, <2>1, <2>2, <2>3, <2>4, <2>5 DEF TypeOK, Client!TypeOK
<1>6. ASSUME NEW f \in fetches, Fetched(f)
      PROVE  TypeOK'
  <2>1. f.got \in {NotYet} \cup [rows : [Rows -> Row], told : SUBSET Calls]
    BY <1>6 DEF Fetched, Fetch
  <2>2. list' = NoList \/ list' \in [rows : [Rows -> Row], told : SUBSET Calls]
    <3>1. CASE list' = f.got /\ f.got # NotYet
      BY <2>1, <3>1
    <3>2. CASE list' = list
      BY <1>0, <3>2 DEF TypeOK
    <3>. QED
      BY <1>6, <3>1, <3>2 DEF Fetched
  <2>3. fetches' \subseteq Fetch /\ loading' \in BOOLEAN /\ banner' \in BOOLEAN
    BY <1>0, <1>6 DEF Fetched, TypeOK
  <2>4. /\ open' \in [Forms -> Opening \cup {Closed}]
        /\ busy' \in [Forms -> Rows \cup {NoRow}]
        /\ openings' \in 0 .. MaxOpenings
        /\ \A g \in Forms : open'[g] = Closed \/ open'[g] = open[g]
    <3>1. CASE UNCHANGED forms
      BY <1>0, <3>1 DEF TypeOK
    <3>2. CASE f.owner \in Calls /\ FormOf(f.owner) \in Forms /\ Finished(f.owner, TRUE)
      BY <1>0, <3>2, FinishedType
    <3>. QED
      BY <1>6, <3>1, <3>2 DEF Fetched
  <2>5. (Cardinality({g \in Dialogs : open[g] # Closed}) <= 1)'
    BY <1>0, <2>4, OneDialogKept
  <2>6. UNCHANGED <<page, permitted, rows, elsewhere, changed, overlapped, phase, effect, answer,
                    asked, gate, capabilities, entitled, everEntitled>>
    BY <1>6 DEF Fetched
  <2>. QED
    BY <1>0, <2>2, <2>3, <2>4, <2>5, <2>6 DEF TypeOK, Client!TypeOK
<1>7. ASSUME NEW f \in fetches, Reads(f)
      PROVE  TypeOK'
  <2>. DEFINE got == [rows |-> rows, told |-> {c \in Calls : Changed(c)}]
  <2>1. got \in [rows : [Rows -> Row], told : SUBSET Calls]
    BY <1>0 DEF TypeOK
  <2>2. [f EXCEPT !.got = got] \in Fetch
    <3>. HIDE DEF got
    <3>. QED
      BY <2>1, OwnerFacts DEF Fetch
  <2>3. fetches' \subseteq Fetch
    BY <1>0, <1>7, <2>2 DEF Reads, TypeOK
  <2>. QED
    BY <1>0, <1>7, <2>3 DEF Reads, TypeOK, Client!TypeOK
<1>8. CASE Refreshed
  BY <1>0, <1>8, FetchingType DEF Refreshed, TypeOK, Client!TypeOK
<1>9. CASE Outside
  <2>1. rows' \in [Rows -> Row]
    BY <1>0, <1>9 DEF Outside, TypeOK
  <2>. QED
    BY <1>0, <1>9, <2>1 DEF Outside, TypeOK, Client!TypeOK
<1>10. CASE Gates
  BY <1>0, <1>10 DEF Gates, TypeOK, Client!TypeOK
<1>11. CASE UNCHANGED vars
  BY <1>0, <1>11 DEF vars, TypeOK, Client!TypeOK
<1>. QED
  BY <1>1, <1>2, <1>3, <1>4, <1>5, <1>6, <1>7, <1>8, <1>9, <1>10, <1>11 DEF Effect

LEMMA Numbers ==
    ASSUME IInv
    PROVE  /\ openings \in Nat
           /\ \A f \in Forms : open[f] = Closed \/ (open[f] # Closed /\ open[f].n \in Nat \ {0})
           /\ \A c \in Calls : Asked(c) => asked[c].opening \in Nat \ {0}
<1>1. openings \in Nat
  BY OfficeAssumption DEF IInv, TypeOK
<1>2. ASSUME NEW f \in Forms, open[f] # Closed PROVE open[f].n \in Nat \ {0}
  BY <1>2, OpenFacts DEF IInv
<1>3. ASSUME NEW c \in Calls, Asked(c) PROVE asked[c].opening \in Nat \ {0}
  BY <1>3, CallFacts DEF Command
<1>. QED
  BY <1>1, <1>2, <1>3

\* The forms as long as none is opened and nothing submitted.
LEMMA FormsRest ==
    ASSUME IInv, UNCHANGED <<page, asked, openings>>,
           \A f \in Forms : open'[f] = Closed \/ open'[f] = open[f]
    PROVE  FormsOfPage' /\ OpeningsNumbered' /\ ExpectsWhatWasShown'
<1>0. FormsOfPage /\ OpeningsNumbered /\ ExpectsWhatWasShown
  BY DEF IInv
<1>1. FormsOfPage' /\ ExpectsWhatWasShown'
  BY <1>0 DEF FormsOfPage, ExpectsWhatWasShown, Asked, FormOf
<1>2. \A f, g \in Forms : open'[f] # Closed /\ open'[f].n = open'[g].n => f = g
  <2>1. ASSUME NEW f \in Forms, NEW g \in Forms, open'[f] # Closed, open'[f].n = open'[g].n
        PROVE  f = g
    <3>1. open'[f] = open[f] /\ open[f].n # 0
      BY <2>1, Numbers
    <3>2. open'[g] # Closed
      BY <2>1, <3>1 DEF Closed
    <3>. QED
      BY <1>0, <2>1, <3>1, <3>2 DEF OpeningsNumbered
  <2>. QED
    BY <2>1
<1>3. OpeningsNumbered'
  BY <1>0, <1>2 DEF OpeningsNumbered, Twins, Asked, FormOf
<1>. QED
  BY <1>1, <1>3

LEMMA OpenNumbered ==
    ASSUME IInv, NEW f \in Forms, NEW o \in Opening, Opens(f, o)
    PROVE  FormsOfPage' /\ OpeningsNumbered' /\ ExpectsWhatWasShown'
<1>0. FormsOfPage /\ OpeningsNumbered /\ ExpectsWhatWasShown
  BY DEF IInv
<1>1. /\ UNCHANGED <<page, asked>> /\ openings' = openings + 1
      /\ open'[f] = o /\ o.n = openings + 1 /\ Form[f].page = page
      /\ \A g \in Forms : g # f => open'[g] = open[g]
  BY DEF Opens, commands, IInv, TypeOK
<1>2. FormsOfPage' /\ ExpectsWhatWasShown'
  BY <1>0, <1>1 DEF FormsOfPage, ExpectsWhatWasShown, Asked, FormOf
<1>3. /\ \A g \in Forms : open[g] # Closed => open[g].n \in Nat /\ open[g].n < openings + 1
      /\ \A g \in Forms : open[g] = Closed => open[g].n = 0
      /\ \A c \in Calls : Asked(c) => asked[c].opening \in Nat /\ asked[c].opening < openings + 1
      /\ openings \in Nat
  <2>1. openings \in Nat
    BY Numbers
  <2>2. ASSUME NEW g \in Forms, open[g] # Closed
        PROVE  open[g].n \in Nat /\ open[g].n < openings + 1
    <3>1. open[g].n \in Nat /\ open[g].n <= openings
      BY <1>0, <2>2, Numbers DEF OpeningsNumbered
    <3>. QED
      BY <2>1, <3>1
  <2>3. ASSUME NEW c \in Calls, Asked(c)
        PROVE  asked[c].opening \in Nat /\ asked[c].opening < openings + 1
    <3>1. asked[c].opening \in Nat /\ asked[c].opening <= openings
      BY <1>0, <2>3, Numbers DEF OpeningsNumbered
    <3>. QED
      BY <2>1, <3>1
  <2>. QED
    BY <2>1, <2>2, <2>3 DEF Closed
<1>4. \A g \in Forms : g # f => open'[g].n # openings + 1
  BY <1>1, <1>3
<1>5. /\ \A g \in Forms : open'[g] # Closed => open'[g].n <= openings'
      /\ \A c \in Calls : Asked(c)' => asked'[c].opening <= openings'
  BY <1>1, <1>3 DEF Asked
<1>6. \A g, h \in Forms : open'[g] # Closed /\ open'[g].n = open'[h].n => g = h
  <2>1. ASSUME NEW g \in Forms, NEW h \in Forms, open'[g] # Closed, open'[g].n = open'[h].n, g # h
        PROVE  FALSE
    <3>1. g # f /\ h # f
      BY <1>1, <1>3, <1>4, <2>1
    <3>. QED
      BY <1>0, <1>1, <2>1, <3>1 DEF OpeningsNumbered
  <2>. QED
    BY <2>1
<1>7. \A g \in Forms, c \in Calls :
          open'[g] # Closed /\ Asked(c)' /\ open'[g].n = asked'[c].opening =>
             /\ FormOf(c)' = g
             /\ asked'[c].row = open'[g].row
             /\ asked'[c].shown = open'[g].seen.level
  BY <1>0, <1>1, <1>3 DEF OpeningsNumbered, Asked, FormOf
<1>8. OpeningsNumbered'
  BY <1>0, <1>1, <1>5, <1>6, <1>7 DEF OpeningsNumbered, Twins, Asked, FormOf
<1>. QED
  BY <1>2, <1>8

LEMMA SubmitNumbered ==
    ASSUME IInv, NEW c \in Calls, NEW f \in Forms, NEW k \in Command, Submitted(c, f, k)
    PROVE  FormsOfPage' /\ OpeningsNumbered' /\ ExpectsWhatWasShown'
<1>0. FormsOfPage /\ OpeningsNumbered /\ ExpectsWhatWasShown
  BY DEF IInv
<1>1. /\ UNCHANGED <<page, open, openings>> /\ asked'[c] = k /\ open[f] # Closed
      /\ k.form = f /\ k.does \in Form[f].does /\ k.row = open[f].row /\ k.opening = open[f].n
      /\ k.shown = open[f].seen.level /\ k.expected = k.shown
      /\ \A b \in Calls : b # c => asked'[b] = asked[b]
  BY DEF Submitted, IInv, TypeOK
<1>2. FormsOfPage' /\ ExpectsWhatWasShown'
  BY <1>0, <1>1 DEF FormsOfPage, ExpectsWhatWasShown, Asked, FormOf
<1>3. \A g \in Forms : open[g] # Closed /\ open[g].n = k.opening => g = f
  BY <1>0, <1>1 DEF OpeningsNumbered
<1>4. \A b \in Calls : Asked(b) /\ asked[b].opening = k.opening =>
         FormOf(b) = f /\ asked[b].row = k.row /\ asked[b].shown = k.shown
  BY <1>0, <1>1 DEF OpeningsNumbered
<1>5. \A b \in Calls : Asked(b)' => asked'[b].opening <= openings'
  BY <1>0, <1>1 DEF OpeningsNumbered, Asked
<1>6. \A g \in Forms, b \in Calls :
          open[g] # Closed /\ Asked(b)' /\ open[g].n = asked'[b].opening =>
             /\ FormOf(b)' = g
             /\ asked'[b].row = open[g].row
             /\ asked'[b].shown = open[g].seen.level
  BY <1>0, <1>1, <1>3 DEF OpeningsNumbered, Asked, FormOf
<1>7. \A b, d \in Calls : Twins(b, d)' =>
          /\ FormOf(b)' = FormOf(d)' /\ asked'[b].row = asked'[d].row
          /\ asked'[b].shown = asked'[d].shown
  BY <1>0, <1>1, <1>4 DEF OpeningsNumbered, Twins, Asked, FormOf
<1>8. OpeningsNumbered'
  BY <1>0, <1>1, <1>5, <1>6, <1>7 DEF OpeningsNumbered
<1>. QED
  BY <1>2, <1>8

\* Whatever else a step does to the forms, it closes some.
LEMMA FormsStep ==
    ASSUME IInv, Effect
    PROVE  FormsOfPage' /\ OpeningsNumbered' /\ ExpectsWhatWasShown'
<1>. USE DEF forms, commands
<1>1. CASE \E f \in Forms, o \in Opening : Opens(f, o)
  BY <1>1, OpenNumbered
<1>2. CASE \E c \in Calls, f \in Forms, k \in Command : Submitted(c, f, k)
  BY <1>2, SubmitNumbered
<1>3. ASSUME NEW f \in Forms, CloseForm(f)
      PROVE  FormsOfPage' /\ OpeningsNumbered' /\ ExpectsWhatWasShown'
  BY <1>3, FormsRest DEF CloseForm, IInv, TypeOK
<1>4. ASSUME NEW c \in Calls, NEW a \in {"ok", "rejected", "lost"}, AnsweredBy(c, a)
      PROVE  FormsOfPage' /\ OpeningsNumbered' /\ ExpectsWhatWasShown'
  <2>1. UNCHANGED <<page, asked>> /\ (UNCHANGED forms \/ Finished(c, TRUE) \/ Finished(c, FALSE))
    BY <1>4 DEF AnsweredBy
  <2>2. UNCHANGED openings /\ \A g \in Forms : open'[g] = Closed \/ open'[g] = open[g]
    BY <2>1 DEF Finished, IInv, TypeOK
  <2>. QED
    BY <2>1, <2>2, FormsRest
<1>5. ASSUME NEW f \in fetches, Fetched(f)
      PROVE  FormsOfPage' /\ OpeningsNumbered' /\ ExpectsWhatWasShown'
  <2>1. UNCHANGED <<page, asked>> /\ (UNCHANGED forms \/ Finished(f.owner, TRUE))
    BY <1>5 DEF Fetched
  <2>2. UNCHANGED openings /\ \A g \in Forms : open'[g] = Closed \/ open'[g] = open[g]
    BY <2>1 DEF Finished, IInv, TypeOK
  <2>. QED
    BY <2>1, <2>2, FormsRest
<1>6. CASE \/ \E c \in Calls, r \in Rows : Served(c, r)
           \/ \E f \in fetches : Reads(f)
           \/ Refreshed \/ Outside \/ Gates \/ UNCHANGED vars
  <2>1. UNCHANGED <<page, asked, forms>>
    BY <1>6 DEF Served, Reads, Refreshed, Outside, Gates, vars
  <2>. QED
    BY <2>1, FormsRest
<1>. QED
  BY <1>1, <1>2, <1>3, <1>4, <1>5, <1>6 DEF Effect

\* What commands change, and what their answers tell.
LEMMA AnswersStep ==
    ASSUME IInv, Effect
    PROVE  AnswersTellEffect' /\ CountReplacesWhatWasSeen'
<1>. USE DEF forms, commands, backend
<1>0. AnswersTellEffect /\ CountReplacesWhatWasSeen
  BY DEF IInv
<1>1. ASSUME NEW c \in Calls, NEW f \in Forms, NEW k \in Command, Submitted(c, f, k)
      PROVE  AnswersTellEffect' /\ CountReplacesWhatWasSeen'
  <2>1. /\ asked'[c] # NoCommand /\ asked[c] = NoCommand
        /\ \A b \in Calls : b # c => asked'[b] = asked[b] /\ phase'[b] = phase[b]
        /\ phase'[c] = "open" /\ phase[c] = "idle"
        /\ UNCHANGED <<changed, effect, answer>>
    BY <1>1, CommandIsCommand DEF Submitted, IInv, TypeOK, Client!TypeOK
  <2>2. changed[c] = Unchanged /\ answer[c] = "none"
    BY <1>0, <2>1 DEF AnswersTellEffect, Changed, Asked
  <2>3. AnswersTellEffect'
    BY <1>0, <2>1, <2>2 DEF AnswersTellEffect, Changed, Asked
  <2>4. CountReplacesWhatWasSeen'
    BY <1>0, <2>1, <2>2 DEF CountReplacesWhatWasSeen
  <2>. QED
    BY <2>3, <2>4
<1>2. ASSUME NEW c \in Calls, NEW r \in Rows, Served(c, r)
      PROVE  AnswersTellEffect' /\ CountReplacesWhatWasSeen'
  <2>1. /\ \A b \in Calls : b # c => changed'[b] = changed[b] /\ effect'[b] = effect[b]
        /\ effect'[c] = 1 /\ Asked(c)
        /\ phase[c] = "open" \/ answer[c] = "lost"
        /\ changed'[c] \in {Unchanged, rows[r].level}
        /\ UNCHANGED <<phase, answer, asked>>
    BY <1>2 DEF Served, IInv, TypeOK, Client!TypeOK
  <2>2. answer[c] \notin {"rejected", "unauthorized"}
    BY <1>0, <2>1 DEF AnswersTellEffect
  <2>3. AnswersTellEffect'
    BY <1>0, <2>1, <2>2 DEF AnswersTellEffect, Changed, Asked
  <2>4. asked[c].does = "count" => rows[r].level = asked[c].shown
    BY <1>2 DEF Served, Accepted, IInv, ExpectsWhatWasShown
  <2>5. CountReplacesWhatWasSeen'
    BY <1>0, <2>1, <2>4 DEF CountReplacesWhatWasSeen
  <2>. QED
    BY <2>3, <2>5
<1>3. ASSUME NEW c \in Calls, NEW a \in {"ok", "rejected", "lost"}, AnsweredBy(c, a)
      PROVE  AnswersTellEffect' /\ CountReplacesWhatWasSeen'
  <2>1. /\ \A b \in Calls : b # c => answer'[b] = answer[b] /\ phase'[b] = phase[b]
        /\ phase'[c] = "ended" /\ answer'[c] = a
        /\ a = "rejected" => effect[c] = 0
        /\ UNCHANGED <<changed, asked, effect>>
    BY <1>3 DEF AnsweredBy, IInv, TypeOK, Client!TypeOK
  <2>2. AnswersTellEffect'
    BY <1>0, <2>1 DEF AnswersTellEffect, Changed, Asked
  <2>. QED
    BY <1>0, <2>1, <2>2 DEF CountReplacesWhatWasSeen
<1>4. CASE UNCHANGED <<changed, asked, effect, answer, phase>>
  BY <1>0, <1>4 DEF AnswersTellEffect, CountReplacesWhatWasSeen, Changed, Asked
<1>5. CASE \/ \E f \in Forms, o \in Opening : Opens(f, o)
           \/ \E f \in Forms : CloseForm(f)
           \/ \E f \in fetches : Fetched(f)
           \/ \E f \in fetches : Reads(f)
           \/ Refreshed \/ Outside \/ Gates \/ UNCHANGED vars
  BY <1>4, <1>5 DEF Opens, CloseForm, Fetched, Reads, Refreshed, Outside, Gates, vars
<1>. QED
  BY <1>1, <1>2, <1>3, <1>5 DEF Effect

\* A step makes nobody wait for a command but the one submitted, and lets the form
\* go of the one it stops waiting for.
LEMMA PendingStep ==
    ASSUME IInv, Effect, NEW b \in Calls,
           ~\E c \in Calls, f \in Forms, k \in Command : Submitted(c, f, k)
    PROVE  /\ Pending(b)' => Pending(b)
           /\ Pending(b) /\ ~Pending(b)' =>
                 /\ Asked(b) /\ FormOf(b) \in Forms
                 /\ answer'[b] = "ok" => Finished(b, TRUE)
<1>. USE DEF forms, commands, listing
<1>1. ASSUME NEW c \in Calls, NEW a \in {"ok", "rejected", "lost"}, AnsweredBy(c, a)
      PROVE  /\ Pending(b)' => Pending(b)
             /\ Pending(b) /\ ~Pending(b)' =>
                   /\ Asked(b) /\ FormOf(b) \in Forms
                   /\ answer'[b] = "ok" => Finished(b, TRUE)
  <2>1. /\ phase[c] = "open" /\ phase'[c] = "ended" /\ answer'[c] = a
        /\ b # c => phase'[b] = phase[b]
        /\ Asked(c) /\ FormOf(c) \in Forms
    BY <1>1 DEF AnsweredBy, IInv, TypeOK, Client!TypeOK
  <2>2. /\ c # 0 /\ b # 0
    BY CallFacts
  <2>3. CASE a = "ok" /\ Form[FormOf(c)].waits
    <3>1. Fetching(c)
      BY <1>1, <2>3 DEF AnsweredBy
    <3>2. \E n \in Nat : fetches' = fetches \cup {[n |-> n, got |-> NotYet, owner |-> c]}
      BY <3>1, FetchingType DEF IInv
    <3>3. Pending(c)' /\ Pending(c)
      <4>1. PICK n \in Nat : fetches' = fetches \cup {[n |-> n, got |-> NotYet, owner |-> c]}
        BY <3>2
      <4>. DEFINE g == [n |-> n, got |-> NotYet, owner |-> c]
      <4>2. g.owner = c /\ g \in fetches'
        BY <4>1
      <4>. HIDE DEF g
      <4>. QED
        BY <2>1, <4>2 DEF Pending
    <3>4. b # c => (Pending(b)' <=> Pending(b))
      BY <2>1, <3>2 DEF Pending
    <3>. QED
      BY <3>3, <3>4
  <2>4. CASE a = "ok" /\ ~Form[FormOf(c)].waits
    <3>1. Fetching(0) /\ Finished(c, TRUE)
      BY <1>1, <2>4 DEF AnsweredBy
    <3>2. \E n \in Nat : fetches' = fetches \cup {[n |-> n, got |-> NotYet, owner |-> 0]}
      BY <3>1, FetchingType DEF IInv
    <3>3. b # c => (Pending(b)' <=> Pending(b))
      BY <2>1, <2>2, <3>2 DEF Pending
    <3>4. Pending(c)
      BY <2>1 DEF Pending
    <3>. QED
      BY <2>1, <3>1, <3>3, <3>4
  <2>5. CASE a # "ok"
    <3>1. fetches' = fetches
      BY <1>1, <2>5 DEF AnsweredBy
    <3>2. b # c => (Pending(b)' <=> Pending(b))
      BY <2>1, <3>1 DEF Pending
    <3>3. Pending(c)
      BY <2>1 DEF Pending
    <3>. QED
      BY <2>1, <2>5, <3>2, <3>3
  <2>. QED
    BY <2>3, <2>4, <2>5
<1>2. ASSUME NEW f \in fetches, Fetched(f)
      PROVE  /\ Pending(b)' => Pending(b)
             /\ Pending(b) /\ ~Pending(b)' =>
                   /\ Asked(b) /\ FormOf(b) \in Forms
                   /\ answer'[b] = "ok" => Finished(b, TRUE)
  <2>1. fetches' = fetches \ {f} /\ UNCHANGED <<phase, answer>>
    BY <1>2 DEF Fetched
  <2>2. Pending(b)' => Pending(b)
    BY <2>1 DEF Pending
  <2>3. Pending(b) /\ ~Pending(b)' => b = f.owner /\ b # 0
    BY <2>1, CallFacts DEF Pending
  <2>4. f.owner # 0 => Asked(f.owner) /\ FormOf(f.owner) \in Forms /\ Finished(f.owner, TRUE)
    BY <1>2 DEF Fetched
  <2>. QED
    BY <2>2, <2>3, <2>4
<1>3. ASSUME NEW f \in fetches, Reads(f)
      PROVE  Pending(b)' <=> Pending(b)
  <2>. DEFINE got == [rows |-> rows, told |-> {c \in Calls : Changed(c)}]
  <2>1. fetches' = (fetches \ {f}) \cup {[f EXCEPT !.got = got]} /\ UNCHANGED phase
    BY <1>3 DEF Reads
  <2>2. [f EXCEPT !.got = got].owner = f.owner
    BY OwnerFacts DEF Fetch
  <2>. HIDE DEF got
  <2>. QED
    BY <2>1, <2>2 DEF Pending
<1>4. CASE Refreshed
  <2>1. \E n \in Nat : fetches' = fetches \cup {[n |-> n, got |-> NotYet, owner |-> 0]}
    BY <1>4, FetchingType DEF Refreshed, IInv
  <2>2. UNCHANGED phase /\ b # 0
    BY <1>4, CallFacts DEF Refreshed
  <2>3. Pending(b)' <=> Pending(b)
    BY <2>1, <2>2 DEF Pending
  <2>. QED
    BY <2>3
<1>5. CASE UNCHANGED <<fetches, phase>>
  BY <1>5 DEF Pending
<1>6. CASE \/ \E f \in Forms, o \in Opening : Opens(f, o)
           \/ \E f \in Forms : CloseForm(f)
           \/ \E c \in Calls, r \in Rows : Served(c, r)
           \/ Outside \/ Gates \/ UNCHANGED vars
  BY <1>5, <1>6 DEF Opens, CloseForm, Served, Outside, Gates, vars
<1>. QED
  BY <1>1, <1>2, <1>3, <1>4, <1>6 DEF Effect

LEMMA OwnersStep ==
    ASSUME IInv, Effect
    PROVE  OwnersSucceeded'
<1>. USE DEF forms, commands, listing
<1>0. OwnersSucceeded
  BY DEF IInv
<1>1. ASSUME NEW c \in Calls, NEW a \in {"ok", "rejected", "lost"}, AnsweredBy(c, a)
      PROVE  OwnersSucceeded'
  <2>1. /\ \A b \in Calls : b # c => answer'[b] = answer[b]
        /\ answer'[c] = a
        /\ \A f \in fetches : f.owner # c
    BY <1>1 DEF AnsweredBy, IInv, TypeOK, Client!TypeOK
  <2>2. \A f \in fetches : f.owner # 0 => answer'[f.owner] = "ok"
    BY <1>0, <2>1, OwnerFacts DEF OwnersSucceeded
  <2>3. CASE a = "ok"
    <3>1. PICK owner \in {c, 0} : Fetching(owner)
      BY <1>1, <2>3 DEF AnsweredBy
    <3>2. PICK n \in Nat : fetches' = fetches \cup {[n |-> n, got |-> NotYet, owner |-> owner]}
      BY <3>1, FetchingType DEF IInv
    <3>. DEFINE g == [n |-> n, got |-> NotYet, owner |-> owner]
    <3>3. g.owner = owner
      OBVIOUS
    <3>. HIDE DEF g
    <3>4. fetches' = fetches \cup {g}
      BY <3>2 DEF g
    <3>. QED
      BY <1>0, <2>1, <2>2, <2>3, <3>1, <3>3, <3>4 DEF OwnersSucceeded
  <2>4. CASE a # "ok"
    <3>1. fetches' = fetches
      BY <1>1, <2>4 DEF AnsweredBy
    <3>. QED
      BY <1>0, <2>2, <3>1 DEF OwnersSucceeded
  <2>. QED
    BY <2>3, <2>4
<1>2. ASSUME NEW f \in fetches, Reads(f)
      PROVE  OwnersSucceeded'
  <2>. DEFINE g == [f EXCEPT !.got = [rows |-> rows, told |-> {c \in Calls : Changed(c)}]]
  <2>1. fetches' = (fetches \ {f}) \cup {g} /\ UNCHANGED answer
    BY <1>2 DEF Reads
  <2>2. g.owner = f.owner
    BY OwnerFacts DEF Fetch
  <2>. HIDE DEF g
  <2>. QED
    BY <1>0, <2>1, <2>2 DEF OwnersSucceeded
<1>3. CASE Refreshed
  <2>1. PICK n \in Nat : fetches' = fetches \cup {[n |-> n, got |-> NotYet, owner |-> 0]}
    BY <1>3, FetchingType DEF Refreshed, IInv
  <2>. DEFINE g == [n |-> n, got |-> NotYet, owner |-> 0]
  <2>2. g.owner = 0 /\ UNCHANGED answer
    BY <1>3 DEF Refreshed
  <2>. HIDE DEF g
  <2>3. fetches' = fetches \cup {g}
    BY <2>1 DEF g
  <2>. QED
    BY <1>0, <2>2, <2>3 DEF OwnersSucceeded
<1>4. CASE fetches' \subseteq fetches /\ UNCHANGED answer
  BY <1>0, <1>4 DEF OwnersSucceeded
<1>5. ASSUME NEW f \in fetches, Fetched(f)
      PROVE  OwnersSucceeded'
  BY <1>4, <1>5 DEF Fetched
<1>6. ASSUME NEW c \in Calls, NEW r \in Rows, Served(c, r)
      PROVE  OwnersSucceeded'
  BY <1>4, <1>6 DEF Served
<1>7. ASSUME NEW c \in Calls, NEW f \in Forms, NEW k \in Command, Submitted(c, f, k)
      PROVE  OwnersSucceeded'
  BY <1>4, <1>7 DEF Submitted
<1>8. CASE \/ \E f \in Forms, o \in Opening : Opens(f, o)
           \/ \E f \in Forms : CloseForm(f)
           \/ Outside \/ Gates \/ UNCHANGED vars
  <2>1. UNCHANGED <<fetches, answer>>
    BY <1>8 DEF Opens, CloseForm, Outside, Gates, vars
  <2>. QED
    BY <1>4, <2>1
<1>. QED
  BY <1>1, <1>2, <1>3, <1>5, <1>6, <1>7, <1>8 DEF Effect

\* No command of a form is under way while another may be submitted from it.
LEMMA SubmitAlone ==
    ASSUME IInv, NEW c \in Calls, NEW f \in Forms, NEW k \in Command, Submitted(c, f, k)
    PROVE  /\ \A b \in Calls : b # c => /\ asked'[b] = asked[b] /\ phase'[b] = phase[b]
                                        /\ (Pending(b)' <=> Pending(b))
           /\ asked'[c] = k /\ FormOf(c)' = f /\ Pending(c)' /\ ~Asked(c)
           /\ k.opening = open[f].n /\ open[f] # Closed
           /\ busy'[f] # NoRow
           /\ \A g \in Forms : g # f => busy'[g] = busy[g]
           /\ Form[f].locks = "form" => \A b \in Calls : Asked(b) /\ FormOf(b) = f => ~Pending(b)
<1>. USE DEF listing
<1>1. /\ asked'[c] = k /\ k.form = f /\ phase'[c] = "open" /\ asked[c] = NoCommand
      /\ k.opening = open[f].n /\ open[f] # Closed
      /\ \A b \in Calls : b # c => asked'[b] = asked[b] /\ phase'[b] = phase[b]
      /\ busy'[f] = open[f].row
      /\ \A g \in Forms : g # f => busy'[g] = busy[g]
      /\ UNCHANGED fetches
  BY DEF Submitted, IInv, TypeOK, Client!TypeOK
<1>2. open[f].row # NoRow
  BY <1>1, OpenFacts, OfficeAssumption DEF IInv
<1>3. Form[f].locks = "form" => busy[f] = NoRow
  BY DEF Submitted, Locked
<1>4. Form[f].locks = "form" => \A b \in Calls : Asked(b) /\ FormOf(b) = f => ~Pending(b)
  BY <1>3 DEF IInv, LockedWhilePending
<1>5. Pending(c)' /\ \A b \in Calls : b # c => (Pending(b)' <=> Pending(b))
  BY <1>1 DEF Pending
<1>. QED
  BY <1>1, <1>2, <1>4, <1>5 DEF Asked, FormOf

LEMMA LockedStep ==
    ASSUME IInv, Effect
    PROVE  LockedWhilePending'
<1>. USE DEF forms, commands, listing
<1>0. LockedWhilePending
  BY DEF IInv
<1>1. ASSUME NEW c \in Calls, NEW f \in Forms, NEW k \in Command, Submitted(c, f, k)
      PROVE  LockedWhilePending'
  <2>1. /\ \A b \in Calls : b # c => /\ asked'[b] = asked[b]
                                     /\ (Pending(b)' <=> Pending(b))
        /\ FormOf(c)' = f /\ busy'[f] # NoRow
        /\ \A g \in Forms : g # f => busy'[g] = busy[g]
        /\ Form[f].locks = "form" => \A b \in Calls : Asked(b) /\ FormOf(b) = f => ~Pending(b)
    BY <1>1, SubmitAlone
  <2>2. \A b \in Calls : b # c => (Asked(b)' <=> Asked(b)) /\ FormOf(b)' = FormOf(b)
    BY <2>1 DEF Asked, FormOf
  <2>3. \A b \in Calls : Asked(b) => FormOf(b) \in Forms
    BY CallFacts
  <2>4. ASSUME NEW b \in Calls, Asked(b)', Form[FormOf(b)'].locks = "form", Pending(b)'
        PROVE  busy'[FormOf(b)'] # NoRow
    BY <1>0, <2>1, <2>2, <2>3, <2>4 DEF LockedWhilePending
  <2>5. ASSUME NEW b \in Calls, NEW d \in Calls, Asked(b)', Asked(d)', FormOf(b)' = FormOf(d)',
               Form[FormOf(b)'].locks = "form", Pending(b)', Pending(d)'
        PROVE  b = d
    BY <1>0, <2>1, <2>2, <2>5 DEF LockedWhilePending
  <2>. QED
    BY <2>4, <2>5 DEF LockedWhilePending
<1>2. CASE ~\E c \in Calls, f \in Forms, k \in Command : Submitted(c, f, k)
  <2>1. \A b \in Calls : Pending(b)' => Pending(b)
    BY <1>2, PendingStep
  <2>2. UNCHANGED asked
    BY <1>2 DEF Effect, Opens, CloseForm, Served, AnsweredBy, Fetched, Reads, Refreshed, Outside,
       Gates, vars
  <2>3. ASSUME NEW c \in Calls, NEW ok \in BOOLEAN, Finished(c, ok),
               Asked(c), FormOf(c) \in Forms, Pending(c), ~Pending(c)'
        PROVE  LockedWhilePending'
    <3>1. \A g \in Forms : g # FormOf(c) => busy'[g] = busy[g]
      BY <2>3 DEF Finished, FormOf, IInv, TypeOK
    <3>2. ASSUME NEW b \in Calls, Asked(b), Form[FormOf(b)].locks = "form", Pending(b)'
          PROVE  busy'[FormOf(b)] # NoRow
      <4>1. Pending(b) /\ b # c /\ FormOf(b) \in Forms
        BY <2>1, <2>3, <3>2, CallFacts
      <4>2. FormOf(b) # FormOf(c)
        BY <1>0, <2>3, <3>2, <4>1 DEF LockedWhilePending
      <4>. QED
        BY <1>0, <3>1, <3>2, <4>1, <4>2 DEF LockedWhilePending
    <3>. QED
      BY <1>0, <2>1, <2>2, <3>2 DEF LockedWhilePending, Asked, FormOf
  <2>4. CASE UNCHANGED busy
    BY <1>0, <2>1, <2>2, <2>4 DEF LockedWhilePending, Asked, FormOf
  <2>5. ASSUME NEW c \in Calls, NEW a \in {"ok", "rejected", "lost"}, AnsweredBy(c, a)
        PROVE  LockedWhilePending'
    <3>1. CASE UNCHANGED forms
      BY <2>4, <3>1
    <3>2. CASE a = "ok" /\ ~Form[FormOf(c)].waits
      <4>1. Fetching(0) /\ Finished(c, TRUE) /\ c # 0
        BY <2>5, <3>2, CallFacts DEF AnsweredBy
      <4>2. PICK n \in Nat : fetches' = fetches \cup {[n |-> n, got |-> NotYet, owner |-> 0]}
        BY <4>1, FetchingType DEF IInv
      <4>3. ~Pending(c)'
        BY <2>5, <4>1, <4>2 DEF AnsweredBy, Pending, IInv, TypeOK, Client!TypeOK
      <4>. QED
        BY <2>3, <2>5, <4>1, <4>3 DEF AnsweredBy, Pending
    <3>3. CASE a # "ok"
      <4>1. Finished(c, FALSE) /\ UNCHANGED fetches
        BY <2>5, <3>3 DEF AnsweredBy
      <4>2. ~Pending(c)'
        BY <2>5, <4>1 DEF AnsweredBy, Pending, IInv, TypeOK, Client!TypeOK
      <4>. QED
        BY <2>3, <2>5, <4>1, <4>2 DEF AnsweredBy, Pending
    <3>. QED
      BY <2>5, <3>1, <3>2, <3>3 DEF AnsweredBy
  <2>6. ASSUME NEW f \in fetches, Fetched(f)
        PROVE  LockedWhilePending'
    <3>1. CASE UNCHANGED forms
      BY <2>4, <3>1
    <3>2. CASE ~UNCHANGED forms
      <4>. DEFINE c == f.owner
      <4>1. /\ c \in Calls /\ Asked(c) /\ FormOf(c) \in Forms
            /\ answer[c] = "ok" /\ Finished(c, TRUE)
            /\ fetches' = fetches \ {f} /\ UNCHANGED phase
        BY <2>6, <3>2 DEF Fetched
      <4>2. phase[c] # "open" /\ c # 0
        BY <4>1, CallFacts DEF IInv, AnswersTellEffect
      <4>3. \A g \in fetches' : g.owner # c
        BY <4>1, <4>2 DEF IInv, OwnersSucceeded
      <4>4. Pending(c) /\ ~Pending(c)'
        BY <4>1, <4>2, <4>3 DEF Pending
      <4>. QED
        BY <2>3, <4>1, <4>4
    <3>. QED
      BY <3>1, <3>2
  <2>7. CASE \/ \E f \in Forms, o \in Opening : Opens(f, o)
             \/ \E f \in Forms : CloseForm(f)
             \/ \E c \in Calls, r \in Rows : Served(c, r)
             \/ \E f \in fetches : Reads(f)
             \/ Refreshed \/ Outside \/ Gates \/ UNCHANGED vars
    BY <2>4, <2>7 DEF Opens, CloseForm, Served, Reads, Refreshed, Outside, Gates, vars
  <2>. QED
    BY <1>2, <2>5, <2>6, <2>7 DEF Effect
<1>. QED
  BY <1>1, <1>2

LEMMA AskedStays ==
    ASSUME IInv, Effect, ~\E c \in Calls, f \in Forms, k \in Command : Submitted(c, f, k)
    PROVE  UNCHANGED asked
  BY DEF Effect, Opens, CloseForm, Served, AnsweredBy, Fetched, Reads, Refreshed, Outside, Gates,
     vars, commands

\* Forms open with a new number, and only those that were open stay so.
LEMMA StaysClosed ==
    ASSUME IInv, Effect, NEW c \in Calls, Asked(c),
           open[FormOf(c)].n # asked[c].opening
    PROVE  open'[FormOf(c)].n # asked[c].opening
<1>. USE DEF forms
<1>1. asked[c].opening \in Nat \ {0} /\ asked[c].opening <= openings /\ openings \in Nat
      /\ FormOf(c) \in Forms
  BY Numbers, CallFacts DEF IInv, OpeningsNumbered
<1>2. CASE open'[FormOf(c)] = Closed
  BY <1>1, <1>2 DEF Closed
<1>3. CASE open'[FormOf(c)] = open[FormOf(c)]
  BY <1>3
<1>4. ASSUME NEW f \in Forms, NEW o \in Opening, Opens(f, o)
      PROVE  open'[FormOf(c)].n # asked[c].opening
  <2>1. \/ open'[FormOf(c)] = open[FormOf(c)]
        \/ open'[FormOf(c)] = o /\ o.n = openings + 1
    BY <1>1, <1>4 DEF Opens, IInv, TypeOK
  <2>. QED
    BY <1>1, <1>3, <2>1
<1>5. ASSUME NEW b \in Calls, NEW ok \in BOOLEAN, Finished(b, ok)
      PROVE  open'[FormOf(c)] = Closed \/ open'[FormOf(c)] = open[FormOf(c)]
  BY <1>1, <1>5 DEF Finished, IInv, TypeOK
<1>6. ASSUME NEW f \in Forms, CloseForm(f)
      PROVE  open'[FormOf(c)] = Closed \/ open'[FormOf(c)] = open[FormOf(c)]
  BY <1>1, <1>6 DEF CloseForm, IInv, TypeOK
<1>7. ASSUME NEW b \in Calls, NEW a \in {"ok", "rejected", "lost"}, AnsweredBy(b, a)
      PROVE  open'[FormOf(c)] = Closed \/ open'[FormOf(c)] = open[FormOf(c)]
  BY <1>5, <1>7 DEF AnsweredBy
<1>8. ASSUME NEW f \in fetches, Fetched(f)
      PROVE  open'[FormOf(c)] = Closed \/ open'[FormOf(c)] = open[FormOf(c)]
  BY <1>5, <1>8 DEF Fetched
<1>9. CASE \/ \E b \in Calls, f \in Forms, k \in Command : Submitted(b, f, k)
           \/ \E b \in Calls, r \in Rows : Served(b, r)
           \/ \E f \in fetches : Reads(f)
           \/ Refreshed \/ Outside \/ Gates \/ UNCHANGED vars
  BY <1>3, <1>9 DEF Submitted, Served, Reads, Refreshed, Outside, Gates, vars
<1>. QED
  BY <1>2, <1>3, <1>4, <1>6, <1>7, <1>8, <1>9 DEF Effect

LEMMA ClosedStep ==
    ASSUME IInv, Effect
    PROVE  ClosedBySuccess'
<1>1. ASSUME NEW c \in Calls, NEW f \in Forms, NEW k \in Command, Submitted(c, f, k)
      PROVE  ClosedBySuccess'
  <2>1. /\ \A b \in Calls : b # c => asked'[b] = asked[b] /\ (Pending(b)' <=> Pending(b))
        /\ Pending(c)'
    BY <1>1, SubmitAlone
  <2>2. UNCHANGED <<answer, open>>
    BY <1>1 DEF Submitted
  <2>. QED
    BY <2>1, <2>2 DEF ClosedBySuccess, FormOf, IInv
<1>2. CASE ~\E c \in Calls, f \in Forms, k \in Command : Submitted(c, f, k)
  <2>1. UNCHANGED asked
    BY <1>2, AskedStays
  <2>2. ASSUME NEW c \in Calls, answer'[c] = "ok", Form[FormOf(c)].closes, ~Pending(c)'
        PROVE  open'[FormOf(c)].n # asked[c].opening
    <3>1. CASE Pending(c)
      <4>1. Asked(c) /\ FormOf(c) \in Forms /\ Finished(c, TRUE)
        BY <1>2, <2>2, <3>1, PendingStep
      <4>2. open'[FormOf(c)] = Closed
        BY <2>2, <4>1 DEF Finished, FormOf, IInv, TypeOK
      <4>3. asked[c].opening # 0
        BY <4>1, Numbers
      <4>. QED
        BY <4>2, <4>3 DEF Closed
    <3>2. CASE ~Pending(c)
      <4>1. answer[c] = "ok"
        <5>1. phase[c] # "open"
          BY <3>2 DEF Pending
        <5>2. ASSUME NEW b \in Calls, NEW a \in {"ok", "rejected", "lost"}, AnsweredBy(b, a)
              PROVE  answer[c] = "ok"
          BY <2>2, <5>1, <5>2 DEF AnsweredBy, IInv, TypeOK, Client!TypeOK
        <5>3. CASE UNCHANGED answer
          BY <2>2, <5>3
        <5>. QED
          BY <1>2, <5>2, <5>3 DEF Effect, Opens, CloseForm, Served, Fetched, Reads, Refreshed,
             Outside, Gates, vars, commands
      <4>2. Asked(c) /\ open[FormOf(c)].n # asked[c].opening
        BY <2>2, <3>2, <4>1, CallFacts DEF IInv, ClosedBySuccess
      <4>. QED
        BY <4>2, StaysClosed
    <3>. QED
      BY <3>1, <3>2
  <2>. QED
    BY <2>1, <2>2 DEF ClosedBySuccess, FormOf
<1>. QED
  BY <1>1, <1>2

LEMMA NextStep ==
    ASSUME IInv, Effect
    PROVE  NextAfterAnswer'
<1>. USE DEF commands
<1>0. NextAfterAnswer
  BY DEF IInv
<1>1. ASSUME NEW c \in Calls, NEW f \in Forms, NEW k \in Command, Submitted(c, f, k)
      PROVE  NextAfterAnswer'
  <2>1. /\ \A b \in Calls : b # c => asked'[b] = asked[b] /\ phase'[b] = phase[b]
        /\ asked'[c] = k /\ FormOf(c)' = f /\ ~Asked(c)
        /\ k.opening = open[f].n /\ open[f] # Closed
        /\ Form[f].locks = "form" => \A b \in Calls : Asked(b) /\ FormOf(b) = f => ~Pending(b)
    BY <1>1, SubmitAlone
  <2>2. UNCHANGED answer /\ \A b \in Calls : Asked(b) => b < c
    BY <1>1 DEF Submitted, Asked
  <2>3. ASSUME NEW b \in Calls, b # c, Twins(b, c)', Form[FormOf(b)'].locks = "form"
        PROVE  phase[b] = "ended" /\ (answer[b] = "ok" => ~Form[FormOf(b)].closes)
    <3>1. Asked(b) /\ asked[b].opening = open[f].n /\ FormOf(b)' = FormOf(b)
      BY <2>1, <2>3 DEF Twins, Asked, FormOf
    <3>2. FormOf(b) = f
      BY <2>1, <3>1 DEF IInv, OpeningsNumbered
    <3>3. ~Pending(b)
      BY <2>1, <2>3, <3>1, <3>2
    <3>4. phase[b] = "ended"
      BY <3>1, <3>3, CallFacts DEF Pending
    <3>5. answer[b] = "ok" => ~Form[FormOf(b)].closes
      BY <3>1, <3>2, <3>3 DEF IInv, ClosedBySuccess
    <3>. QED
      BY <3>4, <3>5
  <2>4. ASSUME NEW b \in Calls, NEW d \in Calls, b < d, Twins(b, d)', Form[FormOf(b)'].locks = "form"
        PROVE  phase'[b] = "ended" /\ (answer'[b] = "ok" => ~Form[FormOf(b)'].closes)
    <3>1. b # c
      <4>1. CASE b = c
        <5>1. d # c /\ Asked(d)
          BY <2>1, <2>4, <4>1, CallFacts DEF Twins, Asked
        <5>2. d < c /\ c \in Nat /\ d \in Nat
          BY <2>2, <5>1, CallFacts
        <5>. QED
          BY <2>4, <4>1, <5>2
      <4>. QED
        BY <4>1
    <3>2. FormOf(b)' = FormOf(b) /\ phase'[b] = phase[b]
      BY <2>1, <3>1 DEF FormOf
    <3>3. CASE d = c
      BY <2>2, <2>3, <2>4, <3>1, <3>2, <3>3
    <3>4. CASE d # c
      <4>1. Twins(b, d)
        BY <2>1, <2>4, <3>1, <3>4 DEF Twins, Asked
      <4>. QED
        BY <1>0, <2>2, <2>4, <3>2, <4>1 DEF NextAfterAnswer
    <3>. QED
      BY <3>3, <3>4
  <2>. QED
    BY <2>4 DEF NextAfterAnswer
<1>2. ASSUME NEW c \in Calls, NEW a \in {"ok", "rejected", "lost"}, AnsweredBy(c, a)
      PROVE  NextAfterAnswer'
  <2>1. /\ phase[c] = "open" /\ UNCHANGED asked
        /\ \A b \in Calls : b # c => phase'[b] = phase[b] /\ answer'[b] = answer[b]
    BY <1>2 DEF AnsweredBy, IInv, TypeOK, Client!TypeOK
  <2>. QED
    BY <1>0, <2>1 DEF NextAfterAnswer, Twins, Asked, FormOf
<1>3. CASE UNCHANGED <<asked, phase, answer>>
  BY <1>0, <1>3 DEF NextAfterAnswer, Twins, Asked, FormOf
<1>4. CASE \/ \E f \in Forms, o \in Opening : Opens(f, o)
           \/ \E f \in Forms : CloseForm(f)
           \/ \E c \in Calls, r \in Rows : Served(c, r)
           \/ \E f \in fetches : Fetched(f)
           \/ \E f \in fetches : Reads(f)
           \/ Refreshed \/ Outside \/ Gates \/ UNCHANGED vars
  BY <1>3, <1>4 DEF Opens, CloseForm, Served, Fetched, Reads, Refreshed, Outside, Gates, vars
<1>. QED
  BY <1>1, <1>2, <1>4 DEF Effect

-----------------------------------------------------------------------------
(***************************************************************************)
(* What the forms that do not lock themselves ask for, and the rows.       *)
(***************************************************************************)
\* A row as a command of form "detail" or "history", that changed it, left it.
Done(c, row) ==
    /\ FormOf(c) = "detail" => row.status = "gone"
    /\ FormOf(c) = "history" =>
          /\ row.status # "absent"
          /\ asked[c].shown <= row.level
          /\ row.level = asked[c].shown => row.status = "gone"

\* An open row of these pages is done with only by its own forms.
LEMMA DoneStays ==
    ASSUME IInv, NEW b \in Calls, Asked(b), NEW row \in Row, Done(b, row),
           NEW c \in Calls, NEW r \in Rows, Served(c, r), rows[r] = row
    PROVE  Done(b, After(asked[c], row))
<1>. DEFINE k == asked[c]
<1>1. /\ Form[FormOf(b)].page = page /\ Form[k.form].page = page
      /\ k.form \in Forms /\ FormOf(b) \in Forms /\ k.does \in Form[k.form].does
      /\ k \in Command /\ Accepted(k, row) /\ k.expected \in Level
  <2>1. Asked(c) /\ k \in Command /\ Accepted(k, row)
    BY DEF Served
  <2>2. FormOf(b) \in Forms
    BY CallFacts
  <2>. QED
    BY <2>1, <2>2 DEF IInv, FormsOfPage, ExpectsWhatWasShown, FormOf, Command
<1>2. asked[b].shown \in Level /\ row.level \in Level
  BY CallFacts DEF Command, Row
<1>. HIDE DEF k
<1>3. CASE FormOf(b) = "detail"
  <2>1. k.does \in {"issue", "end"} /\ row.status = "gone"
    BY <1>1, <1>3, FormDoes DEF Done
  <2>2. k.does = "end"
    BY <1>1, <2>1 DEF Accepted
  <2>3. After(k, row) = [row EXCEPT !.status = "gone"]
    BY <2>2 DEF After
  <2>4. After(k, row).status = "gone"
    BY <2>3 DEF Row
  <2>. QED
    BY <1>3, <2>4 DEF Done, k
<1>4. CASE FormOf(b) = "history"
  <2>1. /\ k.does \in {"add", "register", "revoke"}
        /\ row.status # "absent"
        /\ asked[b].shown <= row.level
        /\ row.level = asked[b].shown => row.status = "gone"
    BY <1>1, <1>4, FormDoes DEF Done
  <2>2. k.does # "add"
    BY <1>1, <2>1 DEF Accepted
  <2>3. CASE k.does = "register"
    <3>1. After(k, row) = [status |-> "live", level |-> row.level + 1]
      BY <2>3 DEF After
    <3>2. asked[b].shown < row.level + 1
      BY <1>2, <2>1, OfficeAssumption DEF Level
    <3>. QED
      BY <1>2, <1>4, <3>1, <3>2, OfficeAssumption DEF Done, Level, k
  <2>4. CASE k.does = "revoke"
    <3>1. After(k, row) = IF row.level = k.expected THEN [row EXCEPT !.status = "gone"] ELSE row
      BY <2>4 DEF After
    <3>2. After(k, row).level = row.level /\ After(k, row).status \in {"gone", row.status}
      BY <3>1 DEF Row
    <3>. QED
      BY <1>4, <2>1, <3>2 DEF Done, k
  <2>. QED
    BY <2>1, <2>2, <2>3, <2>4
<1>5. CASE FormOf(b) \notin {"detail", "history"}
  BY <1>5 DEF Done
<1>. QED
  BY <1>3, <1>4, <1>5

\* A command of these forms leaves its row done, and does nothing to one that is.
LEMMA DoneByCommand ==
    ASSUME IInv, NEW c \in Calls, NEW r \in Rows, Served(c, r), FormOf(c) \in {"detail", "history"}
    PROVE  /\ r = asked[c].row
           /\ Changed(c)' => Done(c, rows'[r])
           /\ Done(c, rows[r]) => ~Changed(c)'
<1>. DEFINE k == asked[c]
            row == rows[r]
<1>1. /\ FormOf(c) = k.form /\ k.does \in Form[k.form].does /\ k.expected = k.shown
      /\ Accepted(k, row) /\ (r = k.row \/ k.does = "issue")
      /\ rows'[r] = After(k, row)
      /\ row \in Row /\ k.shown \in Level
      /\ k.form \in Forms
      /\ Changed(c)' => After(k, row) # row
  <2>1. Asked(c) /\ k \in Command /\ Accepted(k, row) /\ (r = k.row \/ k.does = "issue")
        /\ rows' = [rows EXCEPT ![r] = After(k, row)]
        /\ changed' = [changed EXCEPT ![c] = IF After(k, row) = row THEN Unchanged ELSE row.level]
    BY DEF Served
  <2>2. rows \in [Rows -> Row] /\ changed \in [Calls -> Level \cup {Unchanged}]
    BY DEF IInv, TypeOK
  <2>. QED
    BY <2>1, <2>2 DEF Changed, FormOf, IInv, ExpectsWhatWasShown, Command
<1>2. row.level \in Nat /\ k.shown \in Nat
  BY <1>1, OfficeAssumption DEF Row, Level
<1>. HIDE DEF k, row
<1>3. CASE FormOf(c) = "detail"
  <2>1. k.does = "end" /\ r = k.row
    BY <1>1, <1>3, FormDoes
  <2>2. After(k, row) = [row EXCEPT !.status = "gone"]
    BY <2>1 DEF After
  <2>3. After(k, row).status = "gone"
    BY <1>1, <2>2 DEF Row
  <2>4. row.status = "gone" => After(k, row) = row
    BY <1>1, <2>2 DEF Row
  <2>. QED
    BY <1>1, <1>3, <2>1, <2>3, <2>4 DEF Done, k, row
<1>4. CASE FormOf(c) = "history"
  <2>1. k.does = "revoke" /\ r = k.row
    BY <1>1, <1>4, FormDoes
  <2>2. After(k, row) = IF row.level = k.shown THEN [row EXCEPT !.status = "gone"] ELSE row
    BY <1>1, <2>1 DEF After
  <2>3. After(k, row) # row =>
           /\ row.level = k.shown
           /\ After(k, row).level = k.shown /\ After(k, row).status = "gone"
    BY <1>1, <2>2 DEF Row
  <2>4. row.status = "gone" => After(k, row) = row
    BY <1>1, <2>2 DEF Row
  <2>5. Changed(c)' => Done(c, rows'[r])
    BY <1>1, <1>2, <1>4, <2>3 DEF Done, k
  <2>6. Done(c, rows[r]) => ~Changed(c)'
    BY <1>1, <1>4, <2>3, <2>4 DEF Done, k, row
  <2>. QED
    BY <2>1, <2>5, <2>6 DEF k
<1>. QED
  BY <1>3, <1>4

LEMMA SettledDone ==
    ASSUME IInv, NEW c \in Calls, Changed(c)
    PROVE  Asked(c) /\ asked[c].row \in Rows /\ Done(c, rows[asked[c].row])
  BY CallFacts DEF IInv, Settled, Done, AnswersTellEffect

LEMMA SettledStep ==
    ASSUME IInv, Effect
    PROVE  Settled' /\ SettledOnce'
<1>. USE DEF commands, backend
<1>0. Settled /\ SettledOnce /\ rows \in [Rows -> Row] /\ changed \in [Calls -> Level \cup {Unchanged}]
  BY DEF IInv, TypeOK
<1>1. ASSUME NEW c \in Calls, NEW r \in Rows, Served(c, r)
      PROVE  Settled' /\ SettledOnce'
  <2>1. /\ UNCHANGED asked /\ rows'[r] = After(asked[c], rows[r])
        /\ \A q \in Rows : q # r => rows'[q] = rows[q]
        /\ \A b \in Calls : b # c => (Changed(b)' <=> Changed(b))
        /\ ~Changed(c)
    BY <1>0, <1>1 DEF Served, Changed
  <2>2. \A b \in Calls : Changed(b) => Done(b, rows'[asked[b].row])
    <3>1. ASSUME NEW b \in Calls, Changed(b)
          PROVE  Done(b, rows'[asked[b].row])
      <4>1. Asked(b) /\ asked[b].row \in Rows /\ Done(b, rows[asked[b].row])
        BY <3>1, SettledDone
      <4>2. CASE asked[b].row = r
        BY <1>0, <1>1, <2>1, <4>1, <4>2, DoneStays
      <4>3. CASE asked[b].row # r
        BY <2>1, <4>1, <4>3
      <4>. QED
        BY <4>2, <4>3
    <3>. QED
      BY <3>1
  <2>3. Changed(c)' => Done(c, rows'[asked[c].row])
    <3>1. CASE FormOf(c) \in {"detail", "history"}
      BY <1>1, <3>1, DoneByCommand
    <3>2. CASE FormOf(c) \notin {"detail", "history"}
      BY <3>2 DEF Done
    <3>. QED
      BY <3>1, <3>2
  <2>4. Settled'
    <3>1. \A b \in Calls : Changed(b)' => Done(b, rows'[asked[b].row])
      BY <2>1, <2>2, <2>3
    <3>. QED
      BY <2>1, <3>1 DEF Settled, Done, FormOf
  <2>5. ASSUME NEW b \in Calls, b # c, Twins(b, c) \/ Twins(c, b), FormOf(c) \in {"detail", "history"},
               Changed(b)
        PROVE  ~Changed(c)'
    <3>1. FormOf(b) = FormOf(c) /\ asked[b].row = asked[c].row /\ asked[b].shown = asked[c].shown
      BY <2>5 DEF IInv, OpeningsNumbered
    <3>2. r = asked[c].row
      BY <1>1, <2>5, DoneByCommand
    <3>3. Done(b, rows[r])
      BY <2>5, <3>1, <3>2, SettledDone
    <3>4. Done(c, rows[r])
      BY <3>1, <3>3 DEF Done
    <3>. QED
      BY <1>1, <2>5, <3>4, DoneByCommand
  <2>6. ASSUME NEW b \in Calls, NEW d \in Calls, Twins(b, d), FormOf(b) \in {"detail", "history"},
               b # d
        PROVE  ~(Changed(b)' /\ Changed(d)')
    <3>1. FormOf(b) = FormOf(d)
      BY <2>6 DEF IInv, OpeningsNumbered
    <3>2. CASE b = c
      BY <2>1, <2>5, <2>6, <3>2
    <3>3. CASE d = c
      BY <2>1, <2>5, <2>6, <3>1, <3>3
    <3>4. CASE b # c /\ d # c
      BY <1>0, <2>1, <2>6, <3>4 DEF SettledOnce
    <3>. QED
      BY <3>2, <3>3, <3>4
  <2>7. SettledOnce'
    BY <2>1, <2>6 DEF SettledOnce, Twins, Asked, FormOf
  <2>. QED
    BY <2>4, <2>7
<1>2. CASE Outside
  <2>1. PICK r \in Rows, row \in Row :
          /\ rows[r].status # "absent" /\ row.status # "absent"
          /\ page = "purchases" /\ rows[r].status = "gone" => row.status = "gone"
          /\ page = "certificates" => rows[r].level < row.level
          /\ rows' = [rows EXCEPT ![r] = row]
    BY <1>2 DEF Outside
  <2>2. UNCHANGED <<asked, changed>>
    BY <1>2 DEF Outside
  <2>3. ASSUME NEW b \in Calls, Changed(b)
        PROVE  Done(b, rows'[asked[b].row])
    <3>1. Asked(b) /\ asked[b].row \in Rows /\ Done(b, rows[asked[b].row])
      BY <2>3, SettledDone
    <3>2. CASE asked[b].row # r
      BY <1>0, <2>1, <3>1, <3>2
    <3>3. CASE asked[b].row = r
      <4>1. FormOf(b) \in Forms /\ Form[FormOf(b)].page = page
        BY <3>1, CallFacts DEF IInv, FormsOfPage
      <4>2. rows'[r] = row /\ rows[r].level \in Nat /\ row.level \in Nat /\ asked[b].shown \in Nat
        BY <1>0, <2>1, <3>1, CallFacts, OfficeAssumption DEF Row, Level, Command
      <4>3. FormOf(b) = "detail" => page = "purchases"
        BY <4>1, FormDoes
      <4>4. FormOf(b) = "history" => page = "certificates"
        BY <4>1, FormDoes
      <4>. QED
        BY <2>1, <3>1, <3>3, <4>2, <4>3, <4>4 DEF Done
    <3>. QED
      BY <3>2, <3>3
  <2>4. Settled'
    BY <2>2, <2>3 DEF Settled, Done, FormOf, Changed
  <2>. QED
    BY <1>0, <2>2, <2>4 DEF SettledOnce, Twins, Asked, FormOf, Changed
<1>3. ASSUME NEW c \in Calls, NEW f \in Forms, NEW k \in Command, Submitted(c, f, k)
      PROVE  Settled' /\ SettledOnce'
  <2>1. /\ UNCHANGED <<rows, changed>> /\ ~Asked(c)
        /\ \A b \in Calls : b # c => asked'[b] = asked[b]
    BY <1>3, SubmitAlone DEF Submitted
  <2>2. ~Changed(c)
    BY <2>1 DEF IInv, AnswersTellEffect
  <2>. QED
    BY <1>0, <2>1, <2>2 DEF Settled, SettledOnce, Twins, Asked, FormOf, Changed
<1>4. CASE UNCHANGED <<rows, changed, asked>>
  BY <1>0, <1>4 DEF Settled, SettledOnce, Twins, Asked, FormOf, Changed
<1>5. CASE \/ \E f \in Forms, o \in Opening : Opens(f, o)
           \/ \E f \in Forms : CloseForm(f)
           \/ \E c \in Calls, a \in {"ok", "rejected", "lost"} : AnsweredBy(c, a)
           \/ \E f \in fetches : Fetched(f)
           \/ \E f \in fetches : Reads(f)
           \/ Refreshed \/ Gates \/ UNCHANGED vars
  BY <1>4, <1>5 DEF Opens, CloseForm, AnsweredBy, Fetched, Reads, Refreshed, Gates, vars
<1>. QED
  BY <1>1, <1>2, <1>3, <1>5 DEF Effect

-----------------------------------------------------------------------------
(***************************************************************************)
(* The list, and the gate.                                                 *)
(***************************************************************************)
\* A fetch that starts is on its way, and alone only if no other is.
LEMMA FetchingAlone ==
    ASSUME TypeOK, NEW owner \in Calls \cup {0}, Fetching(owner)
    PROVE  /\ fetches' # {}
           /\ ~overlapped' => \A f, g \in fetches' : f = g /\ f.got = NotYet
<1>1. PICK n \in Nat : fetches' = fetches \cup {[n |-> n, got |-> NotYet, owner |-> owner]}
  BY FetchingType
<1>. DEFINE h == [n |-> n, got |-> NotYet, owner |-> owner]
<1>2. h.got = NotYet /\ fetches' = fetches \cup {h}
  BY <1>1
<1>. HIDE DEF h
<1>3. overlapped' = (fetches # {})
  BY DEF Fetching
<1>4. ~overlapped' => fetches' = {h}
  BY <1>2, <1>3
<1>. QED
  BY <1>2, <1>4

\* The changes reported as successes, before and after a step.
Told(c) == answer[c] = "ok" /\ Changed(c)

LEMMA ListStep ==
    ASSUME IInv, Effect
    PROVE  FetchedAlone' /\ ListTellsOwnChanges'
<1>. USE DEF listing, commands, backend
<1>0. /\ FetchedAlone /\ ListTellsOwnChanges /\ TypeOK
      /\ changed \in [Calls -> Level \cup {Unchanged}]
      /\ answer \in [Calls -> {"ok", "unauthorized", "rejected", "lost", "none"}]
  BY DEF IInv, TypeOK, Client!TypeOK, Client!Answers
<1>1. ASSUME NEW owner \in Calls \cup {0}, Fetching(owner)
      PROVE  FetchedAlone' /\ ListTellsOwnChanges'
  BY <1>0, <1>1, FetchingAlone DEF FetchedAlone, ListTellsOwnChanges
<1>2. ASSUME UNCHANGED <<list, fetches, overlapped>>, banner => banner',
             \A c \in Calls : Told(c)' => Told(c)
      PROVE  FetchedAlone' /\ ListTellsOwnChanges'
  BY <1>0, <1>2 DEF FetchedAlone, ListTellsOwnChanges, ToldOfSuccess, Told, Changed, TypeOK
<1>3. ASSUME NEW c \in Calls, NEW a \in {"ok", "rejected", "lost"}, AnsweredBy(c, a)
      PROVE  FetchedAlone' /\ ListTellsOwnChanges'
  <2>1. CASE a = "ok"
    <3>1. \E owner \in Calls \cup {0} : Fetching(owner)
      BY <1>3, <2>1 DEF AnsweredBy
    <3>. QED
      BY <1>1, <3>1
  <2>2. CASE a # "ok"
    <3>1. UNCHANGED <<list, fetches, overlapped>> /\ (banner => banner')
      BY <1>3, <2>2 DEF AnsweredBy
    <3>2. \A b \in Calls : Told(b)' => Told(b)
      BY <1>0, <1>3, <2>2 DEF AnsweredBy, Told, Changed
    <3>. QED
      BY <1>2, <3>1, <3>2
  <2>. QED
    BY <2>1, <2>2
<1>4. CASE Refreshed
  BY <1>1, <1>4 DEF Refreshed
<1>5. ASSUME NEW c \in Calls, NEW r \in Rows, Served(c, r)
      PROVE  FetchedAlone' /\ ListTellsOwnChanges'
  <2>1. answer[c] # "ok"
    BY <1>5, CallFacts DEF Served, IInv, AnswersTellEffect
  <2>2. \A b \in Calls : Told(b)' => Told(b)
    BY <1>0, <1>5, <2>1 DEF Served, Told, Changed
  <2>3. UNCHANGED <<list, fetches, overlapped, banner>>
    BY <1>5 DEF Served
  <2>. QED
    BY <1>2, <2>2, <2>3
<1>6. ASSUME NEW f \in fetches, Reads(f)
      PROVE  FetchedAlone' /\ ListTellsOwnChanges'
  <2>. DEFINE got == [rows |-> rows, told |-> {c \in Calls : Changed(c)}]
              h   == [f EXCEPT !.got = got]
  <2>1. h.got = got
    <3>1. f \in Fetch
      BY OwnerFacts
    <3>. QED
      BY <3>1 DEF Fetch
  <2>2. got.told = {c \in Calls : Changed(c)}
    OBVIOUS
  <2>3. fetches' = (fetches \ {f}) \cup {h} /\ UNCHANGED <<list, overlapped, banner, answer, changed>>
    BY <1>6 DEF Reads
  <2>. HIDE DEF got, h
  <2>4. ASSUME ~overlapped'
        PROVE  fetches' = {h}
    BY <1>0, <1>6, <2>3, <2>4 DEF FetchedAlone
  <2>5. \A c \in Calls : answer'[c] = "ok" /\ changed'[c] # Unchanged => c \in h.got.told
    BY <2>1, <2>2, <2>3 DEF Changed
  <2>6. FetchedAlone'
    BY <2>3, <2>4, <2>5 DEF FetchedAlone, ToldOfSuccess, Changed
  <2>7. ListTellsOwnChanges'
    BY <2>3 DEF ListTellsOwnChanges
  <2>. QED
    BY <2>6, <2>7
<1>7. ASSUME NEW f \in fetches, Fetched(f)
      PROVE  FetchedAlone' /\ ListTellsOwnChanges'
  <2>1. /\ fetches' = fetches \ {f} /\ UNCHANGED <<overlapped, answer, changed>>
        /\ \/ list' = f.got /\ f.got # NotYet
           \/ banner' = TRUE
    BY <1>7 DEF Fetched
  <2>2. FetchedAlone'
    BY <1>0, <2>1 DEF FetchedAlone, ToldOfSuccess, Changed
  <2>3. ListTellsOwnChanges'
    BY <1>0, <2>1 DEF FetchedAlone, ToldOfSuccess, ListTellsOwnChanges, Changed
  <2>. QED
    BY <2>2, <2>3
<1>8. CASE \/ \E f \in Forms, o \in Opening : Opens(f, o)
           \/ \E f \in Forms : CloseForm(f)
           \/ \E c \in Calls, f \in Forms, k \in Command : Submitted(c, f, k)
           \/ Outside \/ Gates \/ UNCHANGED vars
  <2>1. UNCHANGED <<list, fetches, overlapped, banner, answer, changed>>
    BY <1>8 DEF Opens, CloseForm, Submitted, Outside, Gates, vars
  <2>. QED
    BY <1>2, <2>1 DEF Told, Changed
<1>. QED
  BY <1>3, <1>4, <1>5, <1>6, <1>7, <1>8 DEF Effect

LEMMA GateStep ==
    ASSUME IInv, Effect
    PROVE  GateFollowsPlan'
<1>. USE DEF gating, plan
<1>0. GateFollowsPlan
  BY DEF IInv
<1>1. CASE Gates
  BY <1>0, <1>1 DEF Gates, GateFollowsPlan
<1>2. CASE ~Gates
  <2>1. UNCHANGED <<capabilities, entitled, everEntitled>>
    BY <1>2 DEF Effect, Opens, CloseForm, Submitted, Served, AnsweredBy, Fetched, Reads,
       Refreshed, Outside, vars
  <2>. QED
    BY <1>0, <2>1 DEF GateFollowsPlan
<1>. QED
  BY <1>1, <1>2

-----------------------------------------------------------------------------
(***************************************************************************)
(* The invariant, and what follows from it.                                *)
(***************************************************************************)
LEMMA InitIInv == Init => IInv
<1>. SUFFICES ASSUME Init PROVE IInv
  OBVIOUS
<1>1. TypeOK
  BY InitType
<1>2. /\ \A f \in Forms : open[f] = Closed
      /\ \A c \in Calls : /\ asked[c] = NoCommand /\ changed[c] = Unchanged
                          /\ phase[c] = "idle" /\ answer[c] = "none"
      /\ openings = 0 /\ list = NoList /\ overlapped = FALSE
      /\ fetches = {[n |-> 0, got |-> NotYet, owner |-> 0]}
      /\ capabilities = "unknown" /\ everEntitled = entitled
  BY DEF Init, Client!Init
<1>3. \A c \in Calls : ~Asked(c) /\ ~Changed(c) /\ answer[c] # "ok"
  BY <1>2 DEF Asked, Changed
<1>4. fetches # {} /\ \A f, g \in fetches : f = g /\ f.got = NotYet /\ f.owner = 0
  BY <1>2
<1>5. FormsOfPage /\ OpeningsNumbered /\ ExpectsWhatWasShown
  BY <1>2, <1>3 DEF FormsOfPage, OpeningsNumbered, ExpectsWhatWasShown, Twins
<1>6. CountReplacesWhatWasSeen /\ AnswersTellEffect
  BY <1>2, <1>3 DEF CountReplacesWhatWasSeen, AnswersTellEffect
<1>7. OwnersSucceeded
  BY <1>4 DEF OwnersSucceeded
<1>8. LockedWhilePending /\ ClosedBySuccess /\ NextAfterAnswer
  BY <1>2, <1>3 DEF LockedWhilePending, ClosedBySuccess, NextAfterAnswer, Twins
<1>9. Settled /\ SettledOnce
  BY <1>3 DEF Settled, SettledOnce
<1>10. FetchedAlone /\ ListTellsOwnChanges
  BY <1>4 DEF FetchedAlone, ListTellsOwnChanges
<1>11. GateFollowsPlan
  BY <1>2 DEF GateFollowsPlan
<1>. QED
  BY <1>1, <1>5, <1>6, <1>7, <1>8, <1>9, <1>10, <1>11 DEF IInv

LEMMA IInvStep == IInv /\ [Next]_vars => IInv'
<1>. SUFFICES ASSUME IInv, [Next]_vars PROVE IInv'
  OBVIOUS
<1>1. Effect
  BY Effects
<1>2. TypeOK'
  BY <1>1, TypeStep
<1>3. FormsOfPage' /\ OpeningsNumbered' /\ ExpectsWhatWasShown'
  BY <1>1, FormsStep
<1>4. AnswersTellEffect' /\ CountReplacesWhatWasSeen'
  BY <1>1, AnswersStep
<1>5. OwnersSucceeded'
  BY <1>1, OwnersStep
<1>6. LockedWhilePending'
  BY <1>1, LockedStep
<1>7. ClosedBySuccess'
  BY <1>1, ClosedStep
<1>8. NextAfterAnswer'
  BY <1>1, NextStep
<1>9. Settled' /\ SettledOnce'
  BY <1>1, SettledStep
<1>10. FetchedAlone' /\ ListTellsOwnChanges'
  BY <1>1, ListStep
<1>11. GateFollowsPlan'
  BY <1>1, GateStep
<1>. QED
  BY <1>2, <1>3, <1>4, <1>5, <1>6, <1>7, <1>8, <1>9, <1>10, <1>11 DEF IInv

\* Forms, commands, rows, list and gate always hang together as BackOfficeInv says:
\* whatever the order in which the user opens, closes and submits, the backend
\* answers or an answer is lost, and the lists arrive (the hooks and modals of
\* frontend/src/features).
THEOREM Inductive == Spec => []IInv
  BY InitIInv, IInvStep, PTL DEF Spec

\* The variables keep their types, and no two dialogs are open at a time.
THEOREM TypeCorrect == Spec => []TypeOK
<1>1. IInv => TypeOK
  BY DEF IInv
<1>. QED
  BY <1>1, Inductive, PTL

\* A recount that the backend accepts replaces the stock that its dialog showed
\* (use of previousStock in the stock adjustment form), for any number of rows,
\* forms opened and commands sent.
THEOREM CountsSeen == Spec => []CountReplacesWhatWasSeen
<1>1. IInv => CountReplacesWhatWasSeen
  BY DEF IInv
<1>. QED
  BY <1>1, Inductive, PTL

\* What is confirmed once in a form changes something at most once, unless the
\* answer was lost or the form stays open after a success.
THEOREM OnlyOnce == Spec => []OncePerConfirmation
<1>1. ASSUME IInv, NEW c \in Calls, NEW d \in Calls, c < d, Changed(c), Changed(d),
             asked[c].opening = asked[d].opening
      PROVE  answer[c] = "lost" \/ (answer[c] = "ok" /\ ~Form[asked[c].form].closes)
  <2>1. Twins(c, d) /\ c # d /\ effect[c] = 1 /\ FormOf(c) \in Forms
    <3>1. Asked(c) /\ Asked(d) /\ effect[c] = 1
      BY <1>1 DEF IInv, AnswersTellEffect
    <3>2. c # d
      BY <1>1, CallFacts
    <3>. QED
      BY <1>1, <3>1, <3>2, CallFacts DEF Twins
  <2>2. FormOf(c) \notin {"detail", "history"}
    BY <1>1, <2>1 DEF IInv, SettledOnce
  <2>3. Form[FormOf(c)].locks = "form"
    BY <2>1, <2>2, FormFacts
  <2>4. phase[c] = "ended" /\ (answer[c] = "ok" => ~Form[FormOf(c)].closes)
    BY <1>1, <2>1, <2>3 DEF IInv, NextAfterAnswer
  <2>5. answer[c] \in {"ok", "lost"}
    BY <1>1, <2>1, <2>4, CallFacts DEF IInv, AnswersTellEffect
  <2>. QED
    BY <2>4, <2>5 DEF FormOf
<1>2. IInv => OncePerConfirmation
  BY <1>1 DEF OncePerConfirmation, Changed
<1>. QED
  BY <1>2, Inductive, PTL

\* A list that was fetched alone and without an error tells of every change the
\* user was told had succeeded: what the hooks rely on when they fetch the list
\* again after a command.
THEOREM ListIsCurrent == Spec => []ListTellsOwnChanges
<1>1. IInv => ListTellsOwnChanges
  BY DEF IInv
<1>. QED
  BY <1>1, Inductive, PTL

\* The gate (FeatureGate) shows the figures of a page only to a role that may see
\* them, in a tenant whose plan has had the feature.
THEOREM ContentGranted == Spec => []ContentIsGranted
<1>1. IInv => ContentIsGranted
  BY DEF IInv, GateFollowsPlan, ContentIsGranted, FeatureGate, checkFeature
<1>. QED
  BY <1>1, Inductive, PTL
=============================================================================
