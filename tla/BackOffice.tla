----------------------------- MODULE BackOffice -----------------------------
(***************************************************************************)
(* The back office pages: a list fetched from the backend, the dialogs     *)
(* opened over its rows, the commands they submit, and the gate in front   *)
(* of the pages that only show figures.  Every page has one copy of this   *)
(* machinery; a form below says how its component differs.  Calls go       *)
(* through the HTTP client, which keeps the promise of CallPromise.        *)
(***************************************************************************)
EXTENDS Integers, FiniteSets

CONSTANTS
    Rows,         \* products, suppliers, orders or sales, whichever the page lists
    Listed,       \* those that are there at first
    MaxLevel,     \* bound on stock levels, and on the versions of a row
    MaxCalls,     \* bound on the commands submitted
    MaxOpenings,  \* bound on the forms opened
    MaxElsewhere, \* bound on what others change meanwhile
    MaxFetches,   \* bound on the fetches of a list at any one time
    NoRow

ASSUME OfficeAssumption ==
    /\ {MaxLevel, MaxCalls, MaxOpenings, MaxElsewhere, MaxFetches} \subseteq Nat
    /\ Listed \subseteq Rows /\ NoRow \notin Rows

VARIABLES
    page,       \* the page that is open
    permitted,  \* the user's role allows what the page is for
    rows,       \* backend: row -> status and level
    elsewhere,  \* changes made by others so far
    list,       \* what the page has: the rows, and the commands they tell of
    loading, banner, \* the list is being fetched; an error is shown
    fetches,    \* fetches of the list on their way
    overlapped, \* the newest of them was not alone
    open,       \* form -> what it was opened for, or Closed
    busy,       \* form -> the row being submitted, or NoRow
    openings,   \* forms opened so far
    phase, effect, answer, \* the commands on their way, as CallPromise has them
    asked,      \* command -> what was submitted, or NoCommand
    changed,    \* command -> the level it changed, or Unchanged
    gate, capabilities, \* of the tenant, as the page knows them
    entitled, everEntitled \* backend: the tenant's plan has the feature, or had it

backend  == <<rows, elsewhere, changed>>
listing  == <<list, loading, banner, fetches, overlapped>>
forms    == <<open, busy, openings>>
commands == <<phase, effect, answer, asked>>
gating   == <<gate, capabilities>>
plan     == <<entitled, everEntitled>>
vars     == <<page, permitted, backend, listing, forms, commands, gating, plan>>

Calls == 1 .. MaxCalls

Client == INSTANCE CallPromise

Closed    == [n |-> 0]
NoCommand == [form |-> "none"]
Unchanged == -1
NoList    == [rows |-> <<>>, told |-> {}]
NotYet    == [rows |-> <<>>, told |-> {0}]

Level == 0 .. MaxLevel
Row   == [status : {"absent", "live", "gone"}, level : Level]

(***************************************************************************)
(* The forms.  does: the commands a form may submit.  locks: what keeps    *)
(* its button disabled after a submission, the form's own flag, a flag for *)
(* the row, or nothing.  waits: a success is reported after the list was   *)
(* fetched again.  closes: a success closes the form.  dismissible: the    *)
(* user may close it while it is busy.                                     *)
(***************************************************************************)
ProductModal ==
    [page |-> "inventory", does |-> {"add", "edit"}, locks |-> "form",
     waits |-> TRUE, closes |-> TRUE, dismissible |-> TRUE]

StockAdjustModal ==
    [page |-> "inventory", does |-> {"adjust", "count"}, locks |-> "form",
     waits |-> TRUE, closes |-> TRUE, dismissible |-> TRUE]

ProductDeleteDialog ==
    [page |-> "inventory", does |-> {"end"}, locks |-> "form",
     waits |-> TRUE, closes |-> TRUE, dismissible |-> TRUE]

SupplierModal ==
    [page |-> "certificates", does |-> {"add"}, locks |-> "form",
     waits |-> TRUE, closes |-> TRUE, dismissible |-> TRUE]

RegisterCertModal ==
    [page |-> "certificates", does |-> {"register"}, locks |-> "form",
     waits |-> TRUE, closes |-> TRUE, dismissible |-> TRUE]

CertHistoryModal ==
    [page |-> "certificates", does |-> {"revoke"}, locks |-> "row",
     waits |-> TRUE, closes |-> FALSE, dismissible |-> TRUE]

PurchaseOrderForm ==
    [page |-> "purchases", does |-> {"issue"}, locks |-> "form",
     waits |-> TRUE, closes |-> FALSE, dismissible |-> TRUE]

PurchaseOrderDetail ==
    [page |-> "purchases", does |-> {"end"}, locks |-> "none",
     waits |-> TRUE, closes |-> TRUE, dismissible |-> TRUE]

VoidModal ==
    [page |-> "sales", does |-> {"end"}, locks |-> "form",
     waits |-> FALSE, closes |-> TRUE, dismissible |-> FALSE]

Form ==
    [product |-> ProductModal, adjust |-> StockAdjustModal, delete |-> ProductDeleteDialog,
     supplier |-> SupplierModal, renew |-> RegisterCertModal, history |-> CertHistoryModal,
     order |-> PurchaseOrderForm, detail |-> PurchaseOrderDetail, void |-> VoidModal]

Forms == DOMAIN Form

\* The order page shows its form and a detail side by side; a dialog makes the
\* rest of its page inert.
Dialogs == {f \in Forms : Form[f].page # "purchases"}

Desk == \A f \in Dialogs : open[f] = Closed

Gated == {"dashboard", "ledger"}
\* The pages that look at what the user's role permits.
Guarded == Gated \cup {"inventory"}

Pages == Gated \cup {Form[f].page : f \in Forms}

Opening == [row : Rows, seen : Row, n : 1 .. MaxOpenings]
Command ==
    [form : Forms, does : UNION {Form[f].does : f \in Forms}, row : Rows, opening : 1 .. MaxOpenings,
     shown : Level, expected : Level, value : Level]
Fetch == [n : Nat, got : {NotYet} \cup [rows : [Rows -> Row], told : SUBSET Calls], owner : Calls \cup {0}]

TypeOK ==
    /\ page \in Pages /\ permitted \in BOOLEAN
    /\ rows \in [Rows -> Row] /\ elsewhere \in 0 .. MaxElsewhere
    /\ list = NoList \/ list \in [rows : [Rows -> Row], told : SUBSET Calls]
    /\ loading \in BOOLEAN /\ banner \in BOOLEAN /\ overlapped \in BOOLEAN
    /\ fetches \subseteq Fetch
    /\ open \in [Forms -> Opening \cup {Closed}]
    /\ Cardinality({f \in Dialogs : open[f] # Closed}) <= 1
    /\ busy \in [Forms -> Rows \cup {NoRow}]
    /\ openings \in 0 .. MaxOpenings
    /\ Client!TypeOK
    /\ \A c \in Calls : asked[c] = NoCommand <=> phase[c] = "idle"
    /\ asked \in [Calls -> Command \cup {NoCommand}]
    /\ changed \in [Calls -> Level \cup {Unchanged}]
    /\ gate \in {"loading", "ready", "outage"}
    /\ capabilities \in {"unknown", "granted", "denied"}
    /\ entitled \in BOOLEAN /\ everEntitled \in BOOLEAN

Init ==
    /\ page \in Pages
    /\ permitted \in BOOLEAN /\ (page \in Guarded \/ permitted)
    /\ rows = [r \in Rows |-> [status |-> IF r \in Listed THEN "live" ELSE "absent", level |-> 0]]
    /\ elsewhere = 0
    /\ list = NoList /\ loading = TRUE /\ banner = FALSE
    /\ fetches = {[n |-> 0, got |-> NotYet, owner |-> 0]} /\ overlapped = FALSE
    /\ open = [f \in Forms |-> Closed] /\ busy = [f \in Forms |-> NoRow] /\ openings = 0
    /\ Client!Init
    /\ asked = [c \in Calls |-> NoCommand] /\ changed = [c \in Calls |-> Unchanged]
    /\ gate = "loading" /\ capabilities = "unknown"
    /\ entitled \in BOOLEAN /\ (page \in Gated \/ entitled) /\ everEntitled = entitled

(***************************************************************************)
(* The list.  A fetch is not told from another one: the last to end wins.  *)
(***************************************************************************)
Fetching(owner) ==
    /\ \E n \in 0 .. MaxFetches - 1 :
          /\ \A m \in 0 .. MaxFetches - 1 : m < n <=> m \in {f.n : f \in fetches}
          /\ fetches' = fetches \cup {[n |-> n, got |-> NotYet, owner |-> owner]}
    /\ overlapped' = (fetches # {})
    /\ loading' = TRUE /\ banner' = FALSE
    /\ UNCHANGED list

\* What the gate of a page renders: its content, or why not.
checkFeatureOpenly == capabilities # "denied"

checkFeature == capabilities = "granted"

FeatureGate == gate = "ready" /\ permitted /\ checkFeature

\* Where a page has a button for it.
OffersRefresh ==
    \/ page = "inventory" /\ Desk /\ ~loading
    \/ page = "sales" /\ Desk
    \/ page \in Gated /\ FeatureGate /\ ~loading

Refresh ==
    /\ OffersRefresh
    /\ Fetching(0)
    /\ UNCHANGED <<page, permitted, backend, forms, commands, gating, plan>>

FetchReads(f) ==
    /\ f.got = NotYet
    /\ LET got == [rows |-> rows, told |-> {c \in Calls : changed[c] # Unchanged}]
       IN  fetches' = (fetches \ {f}) \cup {[f EXCEPT !.got = got]}
    /\ UNCHANGED <<page, permitted, backend, list, loading, banner, overlapped, forms, commands, gating, plan>>

\* A command is over: its form is usable again, or closed, whatever it shows.
FinishedStuck(c, ok) ==
    LET f == asked[c].form
    IN  /\ busy' = IF ok THEN [busy EXCEPT ![f] = NoRow] ELSE busy
        /\ open' = IF ok /\ Form[f].closes THEN [open EXCEPT ![f] = Closed] ELSE open
        /\ UNCHANGED openings

Finished(c, ok) ==
    LET f == asked[c].form
    IN  /\ busy' = [busy EXCEPT ![f] = NoRow]
        /\ open' = IF ok /\ Form[f].closes THEN [open EXCEPT ![f] = Closed] ELSE open
        /\ UNCHANGED openings

\* Some pages fetch more than their list, and tell when any of it failed.
FetchesMore == page \in {"purchases", "ledger"}

FetchEnds(f, arrived, complete) ==
    /\ arrived => f.got # NotYet
    /\ ~FetchesMore => complete = arrived
    /\ list' = IF arrived THEN f.got ELSE list
    /\ banner' = (banner \/ ~arrived \/ ~complete)
    /\ loading' = FALSE
    /\ fetches' = fetches \ {f}
    /\ IF f.owner = 0 THEN UNCHANGED forms ELSE Finished(f.owner, TRUE)
    /\ UNCHANGED <<page, permitted, backend, overlapped, commands, gating, plan>>

(***************************************************************************)
(* What a page offers for a row that it lists.                             *)
(***************************************************************************)
InventoryTable(row) == IF permitted THEN {"product", "adjust", "delete"} ELSE {}

SupplierTable(row) == IF loading THEN {} ELSE {"renew", "history"}

OrderHistory(row) == IF row.status = "live" /\ ~loading /\ ~banner THEN {"void"} ELSE {}

InventoryHeader == IF permitted THEN {"product"} ELSE {}

\* What it offers for a row that is not there yet.
NewRow == InventoryHeader \cup {"supplier", "order"}

Offered(f, row) ==
    IF row.status = "absent" THEN f \in NewRow
    ELSE f \in InventoryTable(row) \cup SupplierTable(row) \cup OrderHistory(row)

OpenFormAnywhere(f, r) ==
    /\ Form[f].page = page
    /\ openings < MaxOpenings
    /\ list # NoList
    /\ Offered(f, list.rows[r])
    /\ openings' = openings + 1
    /\ open' = [open EXCEPT ![f] = [row |-> r, seen |-> list.rows[r], n |-> openings + 1]]
    /\ UNCHANGED <<page, permitted, backend, listing, busy, commands, gating, plan>>

\* A dialog opens with what the list says of its row, and keeps it.
OpenForm(f, r) ==
    /\ Form[f].page = page
    /\ f \in Dialogs => Desk
    /\ openings < MaxOpenings
    /\ list # NoList
    /\ Offered(f, list.rows[r])
    /\ openings' = openings + 1
    /\ open' = [open EXCEPT ![f] = [row |-> r, seen |-> list.rows[r], n |-> openings + 1]]
    /\ UNCHANGED <<page, permitted, backend, listing, busy, commands, gating, plan>>

\* The detail of an order is fetched on its own, and replaces the one shown.
OpenDetail(r) ==
    /\ page = "purchases"
    /\ openings < MaxOpenings
    /\ list # NoList /\ list.rows[r].status # "absent"
    /\ openings' = openings + 1
    /\ open' = [open EXCEPT !["detail"] = [row |-> r, seen |-> rows[r], n |-> openings + 1]]
    /\ UNCHANGED <<page, permitted, backend, listing, busy, commands, gating, plan>>

CloseForm(f) ==
    /\ open[f] # Closed
    /\ Form[f].dismissible \/ busy[f] = NoRow
    /\ open' = [open EXCEPT ![f] = Closed]
    /\ UNCHANGED <<page, permitted, backend, listing, busy, openings, commands, gating, plan>>

(***************************************************************************)
(* The commands.                                                           *)
(***************************************************************************)
LockedNever(f, r) == FALSE

Locked(f, r) ==
    CASE Form[f].locks = "form" -> busy[f] # NoRow
      [] Form[f].locks = "row"  -> busy[f] = r
      [] OTHER                  -> FALSE

\* What a form does to the row it shows.
Does(f, seen) ==
    IF seen.status = "absent" THEN Form[f].does \cap {"add", "issue"}
    ELSE {d \in Form[f].does \ {"add", "issue"} : d \in {"end", "revoke"} /\ f # "delete" => seen.status = "live"}

ExpectedNow(f) == list.rows[open[f].row].level

\* The stock a count is said to replace, the certificate to be revoked.
Expected(f) == open[f].seen.level

Submit(f, d, value) ==
    /\ open[f] # Closed
    /\ ~Locked(f, open[f].row)
    /\ f = "order" => ~loading
    /\ d \in Does(f, open[f].seen)
    /\ d \notin {"count", "edit"} => value = 0
    /\ \E c \in Calls :
          /\ \A b \in Calls : b < c <=> phase[b] # "idle"
          /\ Client!Submit(c)
          /\ asked' = [asked EXCEPT ![c] =
                [form |-> f, does |-> d, row |-> open[f].row, opening |-> open[f].n,
                 shown |-> open[f].seen.level, expected |-> Expected(f), value |-> value]]
    /\ busy' = [busy EXCEPT ![f] = open[f].row]
    /\ UNCHANGED <<page, permitted, backend, listing, open, openings, gating, plan>>

\* The row after a command, the same if the backend accepts it as done already.
After(k, row) ==
    CASE k.does = "edit"     -> [row EXCEPT !.status = IF k.value = 0 THEN "gone" ELSE "live"]
      [] k.does = "adjust"   -> [row EXCEPT !.level = @ + 1]
      [] k.does = "count"    -> [row EXCEPT !.level = k.value]
      [] k.does = "register" -> [status |-> "live", level |-> row.level + 1]
      [] k.does = "revoke"   -> IF row.level = k.expected THEN [row EXCEPT !.status = "gone"] ELSE row
      [] k.does = "end"      -> [row EXCEPT !.status = "gone"]
      [] OTHER               -> [status |-> "live", level |-> 0]

Accepted(k, row) ==
    /\ k.does \in {"add", "issue"} <=> row.status = "absent"
    /\ k.does = "count" => row.level = k.expected
    /\ k.does \in {"adjust", "register"} => row.level < MaxLevel
    /\ k.form = "void" => row.status = "live"

\* An order is a new row, whichever it is; anything else names its row.
Serve(c) ==
    /\ Client!TakeEffect(c)
    /\ \E r \in Rows :
          /\ r = asked[c].row \/ asked[c].does = "issue"
          /\ Accepted(asked[c], rows[r])
          /\ rows' = [rows EXCEPT ![r] = After(asked[c], @)]
          /\ changed' = [changed EXCEPT ![c] = IF rows'[r] = rows[r] THEN Unchanged ELSE rows[r].level]
    /\ UNCHANGED <<page, permitted, elsewhere, listing, forms, asked, gating, plan>>

\* A hook that reports its failures on the page, not in the form.
ReportsOnPage(f) == Form[f].page = "certificates"

AnsweredUnlisted(c, a) ==
    /\ Client!Answer(c, a)
    /\ Finished(c, a = "ok")
    /\ banner' = (banner \/ (a # "ok" /\ ReportsOnPage(asked[c].form)))
    /\ UNCHANGED <<page, permitted, backend, list, loading, fetches, overlapped, asked, gating, plan>>

Answered(c, a) ==
    LET f == asked[c].form
    IN  /\ Client!Answer(c, a)
        /\ IF a = "ok"
           THEN /\ Fetching(IF Form[f].waits THEN c ELSE 0)
                /\ IF Form[f].waits THEN UNCHANGED forms ELSE Finished(c, TRUE)
           ELSE /\ banner' = (banner \/ ReportsOnPage(f))
                /\ Finished(c, FALSE)
                /\ UNCHANGED <<list, loading, fetches, overlapped>>
        /\ UNCHANGED <<page, permitted, backend, asked, gating, plan>>

(***************************************************************************)
(* The gate, and what happens elsewhere.                                   *)
(***************************************************************************)
CapabilitiesArrive ==
    /\ page \in Gated /\ gate = "loading"
    /\ gate' \in {"ready", "outage"}
    /\ \/ gate' = "ready" /\ capabilities' = IF entitled THEN "granted" ELSE "denied"
       \/ UNCHANGED capabilities
    /\ UNCHANGED <<page, permitted, backend, listing, forms, commands, plan>>

\* The button of the page shown instead of the content.
RetryGate ==
    /\ page \in Gated /\ gate = "outage"
    /\ gate' = "loading"
    /\ UNCHANGED <<page, permitted, backend, listing, forms, commands, capabilities, plan>>

\* What others make of a row: they move stock, register a newer certificate, end
\* the life of an order or a sale.
Possible(row) ==
    CASE page = "inventory"    -> {[row EXCEPT !.level = l] : l \in Level}
      [] page = "certificates" -> [status : {"live"}, level : row.level + 1 .. MaxLevel]
      [] OTHER                 -> {[row EXCEPT !.status = "gone"]}

Elsewhere ==
    /\ elsewhere < MaxElsewhere
    /\ elsewhere' = elsewhere + 1
    /\ \E r \in Rows :
          /\ rows[r].status # "absent"
          /\ \E row \in Possible(rows[r]) \ {rows[r]} : rows' = [rows EXCEPT ![r] = row]
    /\ UNCHANGED <<page, permitted, changed, listing, forms, commands, gating, plan>>

PlanChanges ==
    /\ page \in Gated
    /\ elsewhere < MaxElsewhere
    /\ elsewhere' = elsewhere + 1
    /\ entitled' = ~entitled /\ everEntitled' = TRUE
    /\ UNCHANGED <<page, permitted, rows, changed, listing, forms, commands, gating>>

FetchStep(n) ==
    \E f \in {g \in fetches : g.n = n} :
        \/ FetchReads(f)
        \/ \E arrived, complete \in BOOLEAN : FetchEnds(f, arrived, complete)

\* A form does not tell "unauthorized" from any other refusal.
AnyAnswer == \E c \in Calls, a \in {"ok", "rejected", "lost"} : Answered(c, a)

Next ==
    \/ Refresh
    \/ \E n \in 0 .. MaxFetches - 1 : FetchStep(n)
    \/ \E f \in Forms, r \in Rows : OpenForm(f, r)
    \/ \E r \in Rows : OpenDetail(r)
    \/ \E f \in Forms : CloseForm(f)
    \/ \E f \in Forms, v \in Level : \E d \in Form[f].does : Submit(f, d, v)
    \/ \E c \in Calls : Serve(c)
    \/ AnyAnswer
    \/ CapabilitiesArrive \/ RetryGate
    \/ Elsewhere \/ PlanChanges

Spec == Init /\ [][Next]_vars

\* The client answers whatever it is asked.
FairSpec ==
    /\ Spec
    /\ \A n \in 0 .. MaxFetches - 1 : WF_vars(FetchStep(n))
    /\ WF_vars(AnyAnswer)

(***************************************************************************)
(* Properties.                                                             *)
(***************************************************************************)
\* An accepted recount replaced the very stock that its dialog showed, however
\* long the dialog was open and whatever came to the list meanwhile.
CountReplacesWhatWasSeen ==
    \A c \in Calls :
        changed[c] # Unchanged /\ asked[c].does = "count" => changed[c] = asked[c].shown

\* One opening of a form changes something twice only if the answer to the first
\* submission was lost, or was a success that left the form open for more.
OncePerConfirmation ==
    \A c, d \in Calls :
        /\ c < d /\ changed[c] # Unchanged /\ changed[d] # Unchanged
        /\ asked[c].opening = asked[d].opening
        => answer[c] = "lost" \/ (answer[c] = "ok" /\ ~Form[asked[c].form].closes)

\* A list at rest, fetched by itself and without an error, tells of every change
\* that the user was told had succeeded.
ListTellsOwnChanges ==
    fetches = {} /\ ~overlapped /\ ~banner =>
        \A c \in Calls : answer[c] = "ok" /\ changed[c] # Unchanged => c \in list.told

\* The figures behind a gate are shown to nobody whose role forbids it, nor to a
\* tenant whose plan did not have the feature at any time.
ContentIsGranted == page \in Gated /\ FeatureGate => permitted /\ everEntitled

Waiting == loading \/ \E f \in Forms : busy[f] # NoRow

\* Whatever is refused or lost, the user is let go on: every form that was
\* submitted can be used again, and the list is there or an error in its place.
NobodyIsLeftWaiting == Waiting ~> ~Waiting
=============================================================================
