---------------------------- MODULE OnboardingSteps ----------------------------
(***************************************************************************)
(* What the onboarding wizard promises, as its progress bar shows it       *)
(* (ONBOARDING_STEPS in src/dashboard/src/components/OnboardingPanel.tsx): *)
(* welcome, identity, connect, reputation, taken in this order one at a    *)
(* time, never back.  Leaving the identity step gives the user the one     *)
(* identity they keep; entering the network hands that identity over.  The *)
(* panel can be closed at any step.                                        *)
(***************************************************************************)
EXTENDS Naturals

CONSTANTS
    Ids,    \* identities
    None    \* no identity

VARIABLES
    step,    \* the step shown: 0 welcome .. 3 reputation
    id,      \* the identity obtained
    done,    \* the panel is gone
    handed   \* the identity handed over on entering the network

stepVars == <<step, id, done, handed>>

StepsInit ==
    /\ step = 0 /\ id = None /\ done = FALSE /\ handed = None

\* The next step; the identity step is left only with an identity.
Advance ==
    /\ ~done /\ step < 3
    /\ step' = step + 1
    /\ IF step = 1 THEN id' \in Ids ELSE id' = id
    /\ UNCHANGED <<done, handed>>

\* Entering the network from the last step hands the identity over.
Enter ==
    /\ ~done /\ step = 3
    /\ done' = TRUE /\ handed' = id
    /\ UNCHANGED <<step, id>>

Leave ==
    /\ ~done
    /\ done' = TRUE
    /\ UNCHANGED <<step, id, handed>>

StepsNext == Advance \/ Enter \/ Leave

StepsSpec == StepsInit /\ [][StepsNext]_stepVars
==============================================================================
