------------------------------ MODULE Onboarding ------------------------------
(***************************************************************************)
(* The onboarding wizard (src/dashboard/src/components/OnboardingPanel.tsx):*)
(* the states currentStep, identity, isGenerating and copied, the          *)
(* keypair generation it awaits, the clipboard writes it awaits and the    *)
(* 2 s timers that clear the "Copied!" label.  Each button is an action;   *)
(* an awaited promise settles in an action of its own, in any order.       *)
(*                                                                         *)
(* An identity is a model value: the key material, the peer id derived     *)
(* from it and the invite link built from the peer id are functions of it. *)
(* onClose unmounts the panel; what is still pending then settles on an    *)
(* unmounted component and changes nothing, so the model stops there.      *)
(***************************************************************************)
EXTENDS Naturals, Bags

CONSTANTS
    Identities,      \* the identities generateKeypair() may return
    NoIdentity,      \* identity === null
    CopyLabels,      \* labels of the copy buttons used: "peerId", ...
    MaxGenerations,  \* bound on clicks of "Generate Secure Identity"
    MaxCopies        \* bound on clicks of the copy buttons

ASSUME NoIdentity \notin Identities
ASSUME CopyLabels \subseteq {"peerId", "invite", "bootstrap"}
ASSUME MaxGenerations \in Nat /\ MaxCopies \in Nat

\* Copies of these labels put the identity's peer id on the clipboard.
IdentityLabels == {"peerId", "invite"}

\* The text each copy button of step 2 passes to handleCopy: the peer id,
\* the invite link (which carries the peer id), or the bootstrap address;
\* here, the identity whose peer id it contains.
CopiedIdentity(label, i) == IF label \in IdentityLabels THEN i ELSE NoIdentity

VARIABLES
    currentStep,     \* 0 welcome, 1 identity, 2 connect, 3 reputation
    identity,        \* the identity state
    isGenerating,    \* isGenerating state
    keygen,          \* generateKeypair() calls awaiting their result
    copied,          \* copied state: a label or "none"
    clipWrites,      \* bag of <<label, identity>>: pending writeText calls
    copyTimers,      \* bag of labels: pending setTimeout(setCopied(null))
    open,            \* the panel is mounted
    clipboard,       \* the identity whose peer id the clipboard holds
    completedWith,   \* the argument of onComplete, NoIdentity if not called
    generations,     \* generate clicks so far (bounded)
    copies,          \* copy clicks so far (bounded)
    peerName         \* peerName state: "empty" or "text"

onboardingVars == <<currentStep, identity, isGenerating, keygen, copied,
                    clipWrites, copyTimers, open, clipboard, completedWith,
                    generations, copies, peerName>>

OnboardingInit ==
    /\ currentStep = 0
    /\ identity = NoIdentity
    /\ isGenerating = FALSE
    /\ keygen = 0
    /\ copied = "none"
    /\ clipWrites = EmptyBag
    /\ copyTimers = EmptyBag
    /\ open = TRUE
    /\ clipboard = NoIdentity
    /\ completedWith = NoIdentity
    /\ generations = 0
    /\ copies = 0
    /\ peerName = "empty"

\* "Get Started"
GetStarted ==
    /\ open /\ currentStep = 0
    /\ currentStep' = 1
    /\ UNCHANGED <<identity, isGenerating, keygen, copied, clipWrites,
                   copyTimers, open, clipboard, completedWith, generations,
                   copies, peerName>>

\* Mutant: the generate button stays enabled while a keypair is pending.
GenerateIdentityUnguarded ==
    /\ open /\ currentStep = 1
    /\ generations < MaxGenerations
    /\ generations' = generations + 1
    /\ isGenerating' = TRUE
    /\ keygen' = keygen + 1
    /\ UNCHANGED <<currentStep, identity, copied, clipWrites, copyTimers,
                   open, clipboard, completedWith, copies, peerName>>

\* The optional display name of step 1.
TypePeerName(t) ==
    /\ open /\ currentStep = 1
    /\ peerName' = t
    /\ UNCHANGED <<currentStep, identity, isGenerating, keygen, copied,
                   clipWrites, copyTimers, open, clipboard, completedWith,
                   generations, copies>>

\* handleGenerateIdentity, up to its await; the button is disabled while
\* isGenerating.
GenerateIdentity ==
    /\ open /\ currentStep = 1 /\ ~isGenerating
    /\ generations < MaxGenerations
    /\ generations' = generations + 1
    /\ isGenerating' = TRUE
    /\ keygen' = keygen + 1
    /\ UNCHANGED <<currentStep, identity, copied, clipWrites, copyTimers,
                   open, clipboard, completedWith, copies, peerName>>

\* The rest of handleGenerateIdentity: setIdentity, setCurrentStep(2) on
\* success, a log on failure, setIsGenerating(false) in finally.
KeygenSucceeds(i) ==
    /\ open /\ keygen > 0
    /\ keygen' = keygen - 1
    /\ identity' = i
    /\ currentStep' = 2
    /\ isGenerating' = FALSE
    /\ UNCHANGED <<copied, clipWrites, copyTimers, open, clipboard,
                   completedWith, generations, copies, peerName>>

\* Mutant: setCurrentStep(2) moved into the finally block.
KeygenFailsAdvances ==
    /\ open /\ keygen > 0
    /\ keygen' = keygen - 1
    /\ isGenerating' = FALSE
    /\ currentStep' = 2
    /\ UNCHANGED <<identity, copied, clipWrites, copyTimers,
                   open, clipboard, completedWith, generations, copies,
                       peerName>>

KeygenFails ==
    /\ open /\ keygen > 0
    /\ keygen' = keygen - 1
    /\ isGenerating' = FALSE
    /\ UNCHANGED <<currentStep, identity, copied, clipWrites, copyTimers,
                   open, clipboard, completedWith, generations, copies,
                       peerName>>

\* A copy button of step 2 (rendered only with an identity): handleCopy
\* up to its await; the text is taken from the identity of this render.
Copy(l) ==
    /\ open /\ currentStep = 2 /\ identity # NoIdentity
    /\ copies < MaxCopies
    /\ copies' = copies + 1
    /\ clipWrites' = clipWrites (+) SetToBag({<<l, identity>>})
    /\ UNCHANGED <<currentStep, identity, isGenerating, keygen, copied,
                   copyTimers, open, clipboard, completedWith, generations,
                       peerName>>

\* Mutant: the label is set but no timer is started to clear it.
ClipboardWrittenNoTimer(w) ==
    /\ open /\ BagIn(w, clipWrites)
    /\ clipWrites' = clipWrites (-) SetToBag({w})
    /\ clipboard' = CopiedIdentity(w[1], w[2])
    /\ copied' = w[1]
    /\ UNCHANGED <<currentStep, identity, isGenerating, keygen, open,
                   completedWith, generations, copies, copyTimers, peerName>>

\* writeText resolves: setCopied(label), then the 2 s timer.
ClipboardWritten(w) ==
    /\ open /\ BagIn(w, clipWrites)
    /\ clipWrites' = clipWrites (-) SetToBag({w})
    /\ clipboard' = CopiedIdentity(w[1], w[2])
    /\ copied' = w[1]
    /\ copyTimers' = copyTimers (+) SetToBag({w[1]})
    /\ UNCHANGED <<currentStep, identity, isGenerating, keygen, open,
                   completedWith, generations, copies, peerName>>

\* writeText rejects (no permission): the error is logged.
ClipboardRefused(w) ==
    /\ open /\ BagIn(w, clipWrites)
    /\ clipWrites' = clipWrites (-) SetToBag({w})
    /\ UNCHANGED <<currentStep, identity, isGenerating, keygen, copied,
                   copyTimers, open, clipboard, completedWith, generations,
                   copies, peerName>>

\* A 2 s timer: setCopied(null), whichever label is shown by then.
CopyTimerFires(l) ==
    /\ open /\ BagIn(l, copyTimers)
    /\ copyTimers' = copyTimers (-) SetToBag({l})
    /\ copied' = "none"
    /\ UNCHANGED <<currentStep, identity, isGenerating, keygen, clipWrites,
                   open, clipboard, completedWith, generations, copies,
                       peerName>>

\* "Continue to Reputation", in the step 2 view.
ContinueToReputation ==
    /\ open /\ currentStep = 2 /\ identity # NoIdentity
    /\ currentStep' = 3
    /\ UNCHANGED <<identity, isGenerating, keygen, copied, clipWrites,
                   copyTimers, open, clipboard, completedWith, generations,
                   copies, peerName>>

\* "Enter the Network": handleComplete calls onComplete(identity) when
\* there is an identity, then onClose().
Complete ==
    /\ open /\ currentStep = 3
    /\ completedWith' = IF identity # NoIdentity THEN identity
                        ELSE completedWith
    /\ open' = FALSE
    /\ UNCHANGED <<currentStep, identity, isGenerating, keygen, copied,
                   clipWrites, copyTimers, clipboard, generations, copies,
                       peerName>>

\* The close button of the header.
Close ==
    /\ open
    /\ open' = FALSE
    /\ UNCHANGED <<currentStep, identity, isGenerating, keygen, copied,
                   clipWrites, copyTimers, clipboard, completedWith,
                   generations, copies, peerName>>

OnboardingNext ==
    \/ GetStarted
    \/ \E t \in {"empty", "text"} : TypePeerName(t)
    \/ GenerateIdentity
    \/ \E i \in Identities : KeygenSucceeds(i)
    \/ KeygenFails
    \/ \E l \in CopyLabels : Copy(l)
    \/ \E w \in DOMAIN clipWrites : ClipboardWritten(w)
    \/ \E w \in DOMAIN clipWrites : ClipboardRefused(w)
    \/ \E l \in DOMAIN copyTimers : CopyTimerFires(l)
    \/ ContinueToReputation
    \/ Complete
    \/ Close

OnboardingTypeOK ==
    /\ currentStep \in 0..3
    /\ identity \in Identities \cup {NoIdentity}
    /\ isGenerating \in BOOLEAN
    /\ keygen \in 0..MaxGenerations
    /\ copied \in CopyLabels \cup {"none"}
    /\ IsABag(clipWrites) /\ IsABag(copyTimers)
    /\ open \in BOOLEAN
    /\ clipboard \in Identities \cup {NoIdentity}
    /\ completedWith \in Identities \cup {NoIdentity}
    /\ generations \in 0..MaxGenerations
    /\ copies \in 0..MaxCopies
    /\ peerName \in {"empty", "text"}

\* The peer id the user copied (alone or inside the invite link) is the
\* one of the identity handed to onComplete: the identity shown in step 2
\* is never replaced by a later keypair, because the generate button is
\* disabled while a generation is pending.
CopiedIdentityIsCompleted ==
    (clipboard # NoIdentity /\ completedWith # NoIdentity)
        => clipboard = completedWith

\* The "Copied!" label goes away: every successful copy starts a 2 s
\* timer that clears it, so while the panel is open it does not stay.
CopiedLabelClears == (copied # "none") ~> (copied = "none" \/ ~open)

\* The wizard keeps the promise of its progress bar: it goes through the
\* four steps in order, one at a time and never back, leaves the identity
\* step only with the identity it then keeps, and hands exactly that
\* identity to onComplete; awaited keypairs and clipboard writes settle in
\* any order.
Steps == INSTANCE OnboardingSteps
            WITH step <- currentStep, id <- identity, done <- ~open,
                 handed <- completedWith, Ids <- Identities, None <- NoIdentity

WizardFollowsSteps == Steps!StepsSpec
==============================================================================
