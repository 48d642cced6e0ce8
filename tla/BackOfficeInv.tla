---------------------------- MODULE BackOfficeInv ----------------------------
(***************************************************************************)
(* The inductive invariant of BackOffice: how the forms, the commands they *)
(* submitted, the rows and the list hang together.  BackOffice_proofs      *)
(* proves it, TLC checks it.                                               *)
(***************************************************************************)
EXTENDS BackOffice

Asked(c)   == asked[c] # NoCommand
Changed(c) == changed[c] # Unchanged
FormOf(c)  == asked[c].form

\* The user is kept waiting for a command until it is answered, and for one that
\* waits for the list until that was fetched.
Pending(c) == phase[c] = "open" \/ \E f \in fetches : f.owner = c

Twins(c, d) == Asked(c) /\ Asked(d) /\ asked[c].opening = asked[d].opening

(***************************************************************************)
(* Forms and commands.                                                     *)
(***************************************************************************)
\* Only forms of the page are open, and were.
FormsOfPage ==
    /\ \A f \in Forms : open[f] # Closed => Form[f].page = page
    /\ \A c \in Calls : Asked(c) => Form[FormOf(c)].page = page

\* No number is given to two openings, and what was submitted from one is about
\* the row it was opened for, as it was then.
OpeningsNumbered ==
    /\ \A f \in Forms : open[f] # Closed => open[f].n <= openings
    /\ \A c \in Calls : Asked(c) => asked[c].opening <= openings
    /\ \A f, g \in Forms : open[f] # Closed /\ open[f].n = open[g].n => f = g
    /\ \A f \in Forms, c \in Calls :
          open[f] # Closed /\ Asked(c) /\ open[f].n = asked[c].opening =>
             /\ FormOf(c) = f
             /\ asked[c].row = open[f].row
             /\ asked[c].shown = open[f].seen.level
    /\ \A c, d \in Calls : Twins(c, d) =>
          FormOf(c) = FormOf(d) /\ asked[c].row = asked[d].row /\ asked[c].shown = asked[d].shown

\* A command expects the level that its form showed.
ExpectsWhatWasShown ==
    \A c \in Calls : Asked(c) =>
        asked[c].expected = asked[c].shown /\ asked[c].does \in Form[FormOf(c)].does

\* Only what was carried out changes anything, and a refusal tells that nothing was.
AnswersTellEffect ==
    \A c \in Calls :
        /\ Changed(c) => Asked(c) /\ effect[c] = 1
        /\ answer[c] = "none" <=> phase[c] # "ended"
        /\ answer[c] \in {"rejected", "unauthorized"} => effect[c] = 0

\* A fetch that a command waits for is that command's only one, after its success.
OwnersSucceeded ==
    /\ \A f \in fetches : f.owner # 0 => answer[f.owner] = "ok"
    /\ \A f, g \in fetches : f.owner = g.owner /\ f.owner # 0 => f = g

\* A form that locks itself is locked by the one command it is waiting for.
LockedWhilePending ==
    /\ \A c \in Calls : Asked(c) /\ Form[FormOf(c)].locks = "form" /\ Pending(c) =>
          busy[FormOf(c)] # NoRow
    /\ \A c, d \in Calls :
          /\ Asked(c) /\ Asked(d) /\ FormOf(c) = FormOf(d) /\ Form[FormOf(c)].locks = "form"
          /\ Pending(c) /\ Pending(d)
          => c = d

\* A success that closes its form has closed it by the time nobody waits for it.
ClosedBySuccess ==
    \A c \in Calls : answer[c] = "ok" /\ Form[FormOf(c)].closes /\ ~Pending(c) =>
        open[FormOf(c)].n # asked[c].opening

\* From one opening of such a form, nothing is submitted before the last answer,
\* nor after a success that closed it.
NextAfterAnswer ==
    \A c, d \in Calls : c < d /\ Twins(c, d) /\ Form[FormOf(c)].locks = "form" =>
        phase[c] = "ended" /\ (answer[c] = "ok" => ~Form[FormOf(c)].closes)

\* The other forms do not lock out a second submission; what the first has done to
\* its row, a second cannot do again.
Settled ==
    \A c \in Calls : Changed(c) =>
        LET row == rows[asked[c].row]
        IN  /\ FormOf(c) = "detail" => row.status = "gone"
            /\ FormOf(c) = "history" =>
                  /\ row.status # "absent"
                  /\ asked[c].shown <= row.level
                  /\ row.level = asked[c].shown => row.status = "gone"

SettledOnce ==
    \A c, d \in Calls : Twins(c, d) /\ FormOf(c) \in {"detail", "history"} /\ c # d =>
        ~(Changed(c) /\ Changed(d))

(***************************************************************************)
(* The list and the gate.                                                  *)
(***************************************************************************)
ToldOfSuccess(told) == \A c \in Calls : answer[c] = "ok" /\ Changed(c) => c \in told

\* A fetch that was always alone has read every change reported before it read, and
\* no other is reported as long as it is alone.
FetchedAlone ==
    ~overlapped =>
        /\ \A f, g \in fetches : f = g
        /\ \A f \in fetches : f.got = NotYet \/ ToldOfSuccess(f.got.told)

GateFollowsPlan ==
    /\ entitled => everEntitled
    /\ capabilities = "granted" => everEntitled

IInv ==
    /\ TypeOK
    /\ FormsOfPage
    /\ OpeningsNumbered
    /\ ExpectsWhatWasShown
    /\ CountReplacesWhatWasSeen
    /\ AnswersTellEffect
    /\ OwnersSucceeded
    /\ LockedWhilePending
    /\ ClosedBySuccess
    /\ NextAfterAnswer
    /\ Settled
    /\ SettledOnce
    /\ FetchedAlone
    /\ ListTellsOwnChanges
    /\ GateFollowsPlan
=============================================================================
