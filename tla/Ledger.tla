-------------------------------- MODULE Ledger --------------------------------
(***************************************************************************)
(* What a block ledger promises its user, without files, frames or syncs:  *)
(* a block that a sound ledger acknowledged stays where it is until the    *)
(* medium fails, and a ledger that comes back after a crash is sound and   *)
(* shows the committed blocks first.  It may also show blocks whose commit *)
(* was cut short.  A ledger that is not sound still grows, but what it     *)
(* then acknowledges is tentative until it is reopened.                    *)
(***************************************************************************)
EXTENDS Naturals, Sequences

VARIABLES
    committed,   \* the blocks whose commit was acknowledged, with all before them
    visible,     \* the blocks a reader of the running ledger sees
    up,          \* is the ledger running
    sound,       \* is it running, and does it keep what it acknowledges
    faults       \* how often an operation of the medium failed so far

ledgerVars == <<committed, visible, up, sound, faults>>

Extends(t, s) == Len(s) <= Len(t) /\ \A i \in 1..Len(s) : s[i] = t[i]

Init ==
    /\ committed = <<>>
    /\ visible = <<>>
    /\ up = FALSE
    /\ sound = FALSE
    /\ faults = 0

\* One more block behind everything visible.
Grow == Len(visible') = Len(visible) + 1 /\ Extends(visible', visible)

Commit ==
    /\ up /\ sound
    /\ Grow
    /\ committed' = visible'
    /\ UNCHANGED <<up, sound, faults>>

\* An append to a ledger that is not sound, or of a block that it cannot keep.
AppendTentatively ==
    /\ up
    /\ Grow
    /\ sound' = FALSE
    /\ UNCHANGED <<committed, up, faults>>

\* An append or a recovery fails.
Fault ==
    /\ faults' > faults
    /\ sound' => sound
    /\ UNCHANGED <<committed, visible, up>>

\* The medium destroys a committed block, and with it all behind it, now or in a
\* recovery that fails.
Decay ==
    /\ faults' > faults
    /\ Extends(committed, committed')
    /\ sound' = FALSE
    /\ UNCHANGED <<visible, up>>

Crash ==
    /\ up /\ ~up'
    /\ visible' = <<>>
    /\ sound' = FALSE
    /\ UNCHANGED <<committed, faults>>

Recover ==
    /\ ~up /\ up'
    /\ Extends(visible', committed)
    /\ sound' = TRUE
    /\ UNCHANGED <<committed, faults>>

\* The medium does not give everything back: what it withholds is lost.
RecoverPartly ==
    /\ ~up /\ up'
    /\ faults' > faults
    /\ Extends(committed, committed')
    /\ Extends(visible', committed')
    /\ sound' = TRUE

Next ==
    \/ Commit
    \/ AppendTentatively
    \/ Fault
    \/ Decay
    \/ Crash
    \/ Recover
    \/ RecoverPartly

Spec == Init /\ [][Next]_ledgerVars
===============================================================================
