----------------------------- MODULE CallPromise -----------------------------
(***************************************************************************)
(* What the browser's HTTP client promises the pages that use it: a call   *)
(* is answered, takes effect at most once whatever is sent on its behalf,  *)
(* and the answer tells as much of the effect as it can.  An answer that   *)
(* was lost on the way tells nothing: the effect may even come after it.   *)
(***************************************************************************)
EXTENDS Integers

CONSTANTS Calls

VARIABLES
    phase,   \* call -> "idle", "open" or "ended"
    effect,  \* call -> how often the backend carried it out
    answer   \* call -> what the page was told, "none" until then

vars == <<phase, effect, answer>>

\* "ok", or the class of the error that apiFetch throws.
Answers == {"ok", "unauthorized", "rejected", "lost"}

TypeOK ==
    /\ phase \in [Calls -> {"idle", "open", "ended"}]
    /\ effect \in [Calls -> 0 .. 1]
    /\ answer \in [Calls -> Answers \cup {"none"}]

Init ==
    /\ phase = [c \in Calls |-> "idle"]
    /\ effect = [c \in Calls |-> 0]
    /\ answer = [c \in Calls |-> "none"]

Submit(c) ==
    /\ phase[c] = "idle"
    /\ phase' = [phase EXCEPT ![c] = "open"]
    /\ UNCHANGED <<effect, answer>>

TakeEffect(c) ==
    /\ phase[c] = "open" \/ answer[c] = "lost"
    /\ effect[c] = 0
    /\ effect' = [effect EXCEPT ![c] = 1]
    /\ UNCHANGED <<phase, answer>>

Answer(c, a) ==
    /\ phase[c] = "open"
    /\ a = "ok" => effect[c] = 1
    /\ a \in {"unauthorized", "rejected"} => effect[c] = 0
    /\ phase' = [phase EXCEPT ![c] = "ended"]
    /\ answer' = [answer EXCEPT ![c] = a]
    /\ UNCHANGED effect

Next ==
    \E c \in Calls :
        \/ Submit(c)
        \/ TakeEffect(c)
        \/ \E a \in Answers : Answer(c, a)

Spec ==
    /\ Init
    /\ [][Next]_vars
    /\ \A c \in Calls : WF_vars(\E a \in Answers : Answer(c, a))
=============================================================================
