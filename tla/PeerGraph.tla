------------------------------ MODULE PeerGraph ------------------------------
(***************************************************************************)
(* The peer graph (src/dashboard/src/components/PeerGraph.tsx) composed    *)
(* with the theme hook that feeds it.  The graph reads its palette from    *)
(* the CSS variables of <html>, which depend on the data-theme attribute   *)
(* that useTheme writes: once in the useState initialiser at render, once  *)
(* in its mount effect, and in the callback of a MutationObserver on       *)
(* data-theme that the mount effect registers.                             *)
(*                                                                         *)
(* Where useTheme sits in the tree relative to the graph is up to the      *)
(* application, and React runs passive effects child first, in tree order,  *)
(* so the theme effect and the graph's mount effect of one commit may run  *)
(* in either order.  The observer callback is a microtask; it may run      *)
(* before or after any other pending effect.                               *)
(***************************************************************************)
EXTENDS Theme

CONSTANT MaxGraphMounts   \* bound on mounts of the graph

ASSUME MaxGraphMounts \in Nat

VARIABLES
    graphMounted,    \* the PeerGraph component is mounted
    colors,          \* the palette in the colors state: "light" or "dark"
    graphEffectDue,  \* the mount effect of the graph is pending
    observing,       \* the MutationObserver is connected
    mutationQueued,  \* a data-theme mutation record awaits the callback
    graphMounts      \* mounts so far (bounded)

graphVars == <<graphMounted, colors, graphEffectDue, observing,
               mutationQueued, graphMounts>>
vars == <<themeVars, graphVars>>

\* getThemeColors(): the CSS variables follow the data-theme attribute.
Palette(a) == IF a = "light" THEN "light" ELSE "dark"

Init ==
    /\ ThemeInit
    /\ graphMounted = FALSE
    /\ colors = "dark"
    /\ graphEffectDue = FALSE
    /\ observing = FALSE
    /\ mutationQueued = FALSE
    /\ graphMounts = 0

\* The theme effect: setAttribute always queues a record for an observer;
\* removeAttribute queues one only when the attribute was present.
ThemeEffect ==
    /\ ApplyTheme
    /\ mutationQueued' =
           (mutationQueued \/ (observing /\ (theme = "light" \/ attr = "light")))
    /\ UNCHANGED <<graphMounted, colors, graphEffectDue, observing, graphMounts>>

ThemeStep ==
    /\ \/ \E t \in Themes : SetTheme(t)
       \/ ToggleTheme
       \/ SystemChange
    /\ UNCHANGED graphVars

\* First render of <PeerGraph>: useState(getThemeColors).
MountGraph ==
    /\ ~graphMounted
    /\ graphMounts < MaxGraphMounts
    /\ graphMounts' = graphMounts + 1
    /\ graphMounted' = TRUE
    /\ colors' = Palette(attr)
    /\ graphEffectDue' = TRUE
    /\ UNCHANGED <<observing, mutationQueued, themeVars>>

\* Mutant: the mount effect connects the observer but keeps the colours
\* read at render.
GraphEffectNoRead ==
    /\ graphEffectDue
    /\ graphEffectDue' = FALSE
    /\ observing' = TRUE
    /\ UNCHANGED <<graphMounted, colors, mutationQueued, graphMounts, themeVars>>

\* The mount effect: observe data-theme, then setColors(getThemeColors()).
GraphEffect ==
    /\ graphEffectDue
    /\ graphEffectDue' = FALSE
    /\ observing' = TRUE
    /\ colors' = Palette(attr)
    /\ UNCHANGED <<graphMounted, mutationQueued, graphMounts, themeVars>>

\* The observer callback: setColors(getThemeColors()).
ObserverCallback ==
    /\ mutationQueued
    /\ mutationQueued' = FALSE
    /\ colors' = Palette(attr)
    /\ UNCHANGED <<graphMounted, graphEffectDue, observing, graphMounts,
                   themeVars>>

\* Unmount runs the cleanup observer.disconnect(), which also drops the
\* records not yet delivered.  React flushes a pending mount effect first.
UnmountGraph ==
    /\ graphMounted
    /\ ~graphEffectDue
    /\ graphMounted' = FALSE
    /\ observing' = FALSE
    /\ mutationQueued' = FALSE
    /\ UNCHANGED <<colors, graphEffectDue, graphMounts, themeVars>>

Next ==
    \/ ThemeEffect
    \/ ThemeStep
    \/ MountGraph
    \/ GraphEffect
    \/ ObserverCallback
    \/ UnmountGraph

Spec == Init /\ [][Next]_vars

GraphTypeOK ==
    /\ ThemeTypeOK
    /\ graphMounted \in BOOLEAN
    /\ colors \in Themes
    /\ graphEffectDue \in BOOLEAN /\ observing \in BOOLEAN
    /\ mutationQueued \in BOOLEAN
    /\ graphMounts \in 0..MaxGraphMounts

\* Once the theme effect, the graph's mount effect and the observer
\* callback have all run, the graph is drawn in the palette of the theme
\* the user sees: whichever order the two effects of a commit ran in,
\* however theme changes interleave with mounts and unmounts of the graph.
GraphFollowsTheme ==
    (graphMounted /\ ~effectDue /\ ~graphEffectDue /\ ~mutationQueued)
        => colors = Palette(attr) /\ Palette(attr) = theme
==============================================================================
