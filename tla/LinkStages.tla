----------------------------- MODULE LinkStages -----------------------------
(***************************************************************************)
(* What billing promises of the periods of a subscription, whoever keeps   *)
(* the promise and in however many steps: a period is open, is announced   *)
(* before it ends, is closed once, and is followed by at most one paid     *)
(* period, paid for while the announcement stands.  A period can be used   *)
(* only while it is not closed, and one that renews another only if it was *)
(* paid for; a period that was paid for is never taken away.               *)
(***************************************************************************)
EXTENDS FiniteSets

CONSTANTS
    Links,   \* names for periods
    None     \* not one of them: the period before a first one

VARIABLES
    stage,    \* how far each period has come
    renewal,  \* renewal[l]: the period that l renews, or None
    paid,     \* periods a card was charged for
    on,       \* periods that can be used
    cutShort  \* periods whose process died while it worked on them

vars == <<stage, renewal, paid, on, cutShort>>

Stage == {"absent", "open", "announced", "closed", "deleted"}

Present(l) == stage[l] \in {"open", "announced", "closed"}

To(l, s) == stage' = [stage EXCEPT ![l] = s]

Init ==
    /\ stage \in [Links -> {"absent", "open"}]
    /\ renewal = [l \in Links |-> None]
    /\ paid \in SUBSET {l \in Links : stage[l] = "open"}
    /\ on = paid
    /\ cutShort = {}

Create(l) ==
    /\ stage[l] = "absent"
    /\ To(l, "open")
    /\ \E p \in {None} \cup {q \in Links : stage[q] = "announced"} :
          renewal' = [renewal EXCEPT ![l] = p]
    /\ UNCHANGED <<paid, on, cutShort>>

Announce(l) ==
    /\ stage[l] = "open"
    /\ To(l, "announced")
    /\ UNCHANGED <<renewal, paid, on, cutShort>>

\* The other periods that renew the same one.
Rivals(l) == {i \in Links \ {l} : renewal[i] = renewal[l]}

\* A renewal is paid for while the announcement stands, and only one is,
\* unless a process died over one of them.
Pay(l) ==
    /\ stage[l] = "open"
    /\ renewal[l] # None
    /\ stage[renewal[l]] = "announced"
    /\ Rivals(l) \cap paid \subseteq cutShort
    /\ paid' = paid \cup {l}
    /\ UNCHANGED <<stage, renewal, on, cutShort>>

SwitchOn(l) ==
    /\ stage[l] \in {"open", "announced"}
    /\ renewal[l] # None => l \in paid
    /\ on' = on \cup {l}
    /\ UNCHANGED <<stage, renewal, paid, cutShort>>

Close(l) ==
    /\ stage[l] \in {"open", "announced"}
    /\ To(l, "closed")
    /\ on' = on \ {l}
    /\ UNCHANGED <<renewal, paid, cutShort>>

Remove(l) ==
    /\ Present(l)
    /\ l \notin paid \cup on
    /\ To(l, "deleted")
    /\ UNCHANGED <<renewal, paid, on, cutShort>>

Interrupt(l) ==
    /\ cutShort' = cutShort \cup {l}
    /\ UNCHANGED <<stage, renewal, paid, on>>

Next ==
    \E l \in Links : \/ Create(l) \/ Announce(l) \/ Pay(l) \/ SwitchOn(l)
                     \/ Close(l) \/ Remove(l) \/ Interrupt(l)

Spec == Init /\ [][Next]_vars

=============================================================================
