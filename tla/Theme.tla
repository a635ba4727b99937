-------------------------------- MODULE Theme --------------------------------
(***************************************************************************)
(* The theme preference of the dashboard: the hook useTheme               *)
(* (src/dashboard/src/hooks/useTheme.ts).  Its state is the React state    *)
(* theme; it writes the data-theme attribute of <html> and the             *)
(* localStorage key 'mycelial-theme' from an effect that runs after every  *)
(* render that changed theme, and listens to the prefers-color-scheme      *)
(* media query from a second effect registered once at mount.              *)
(*                                                                         *)
(* The two effects of the hook run one after the other in the commit of   *)
(* the first render, so they are one step here.  A stored value other      *)
(* than 'light' and 'dark' (a value written by another version, or by      *)
(* hand) is "other"; "none" is a missing key.                              *)
(***************************************************************************)
EXTENDS Naturals

CONSTANTS
    MaxThemeCalls,      \* bound on setTheme()/toggleTheme() calls
    MaxSystemChanges    \* bound on changes of the system colour scheme

ASSUME MaxThemeCalls \in Nat /\ MaxSystemChanges \in Nat

Themes       == {"light", "dark"}
StoredValues == Themes \cup {"none", "other"}
\* the data-theme attribute of document.documentElement
Attributes   == {"light", "none"}

VARIABLES
    theme,         \* the React state theme
    stored,        \* localStorage['mycelial-theme']
    systemLight,   \* matchMedia('(prefers-color-scheme: light)').matches
    attr,          \* data-theme attribute of <html>
    effectDue,     \* the [theme] effect is pending after a render
    listening,     \* the media-query 'change' listener is registered
    themeCalls,    \* setTheme()/toggleTheme() calls so far (bounded)
    systemChanges  \* system scheme changes so far (bounded)

themeVars == <<theme, stored, systemLight, attr, effectDue, listening,
               themeCalls, systemChanges>>

\* getInitialTheme(): a valid stored value wins, then the system scheme.
GetInitialTheme(s, sysLight) ==
    IF s \in Themes THEN s
    ELSE IF sysLight THEN "light" ELSE "dark"

ThemeInit ==
    /\ stored \in StoredValues
    /\ systemLight \in BOOLEAN
    /\ theme = GetInitialTheme(stored, systemLight)
    /\ attr = "none"
    /\ effectDue = TRUE
    /\ listening = FALSE
    /\ themeCalls = 0
    /\ systemChanges = 0

\* setThemeState(t): React skips the render, and so the effect, when t is
\* the current state.
SetThemeState(t) ==
    /\ theme' = t
    /\ effectDue' = (effectDue \/ t # theme)

\* Mutant: data-theme is set to the theme name instead of being removed
\* for the dark theme.
ApplyThemeAlwaysSet ==
    /\ effectDue
    /\ attr' = theme
    /\ stored' = theme
    /\ effectDue' = FALSE
    /\ listening' = TRUE
    /\ UNCHANGED <<theme, systemLight, themeCalls, systemChanges>>

\* The [theme] effect: set or remove data-theme, then persist the theme.
\* On the first commit the mount-only effect registers the listener.
ApplyTheme ==
    /\ effectDue
    /\ attr' = IF theme = "light" THEN "light" ELSE "none"
    /\ stored' = theme
    /\ effectDue' = FALSE
    /\ listening' = TRUE
    /\ UNCHANGED <<theme, systemLight, themeCalls, systemChanges>>

\* setTheme(newTheme)
SetTheme(t) ==
    /\ themeCalls < MaxThemeCalls
    /\ themeCalls' = themeCalls + 1
    /\ SetThemeState(t)
    /\ UNCHANGED <<stored, systemLight, attr, listening, systemChanges>>

\* toggleTheme()
ToggleTheme ==
    /\ themeCalls < MaxThemeCalls
    /\ themeCalls' = themeCalls + 1
    /\ SetThemeState(IF theme = "dark" THEN "light" ELSE "dark")
    /\ UNCHANGED <<stored, systemLight, attr, listening, systemChanges>>

\* The operating system switches scheme; handleChange follows it only
\* when nothing is stored ("Only auto-switch if user hasn't set a
\* preference") and only once the listener is registered.
SystemChange ==
    /\ systemChanges < MaxSystemChanges
    /\ systemChanges' = systemChanges + 1
    /\ systemLight' = ~systemLight
    /\ IF listening /\ stored = "none"
         THEN SetThemeState(IF systemLight' THEN "light" ELSE "dark")
         ELSE UNCHANGED <<theme, effectDue>>
    /\ UNCHANGED <<stored, attr, listening, themeCalls>>

ThemeTypeOK ==
    /\ theme \in Themes
    /\ stored \in StoredValues
    /\ systemLight \in BOOLEAN
    /\ attr \in Attributes
    /\ effectDue \in BOOLEAN /\ listening \in BOOLEAN
    /\ themeCalls \in 0..MaxThemeCalls
    /\ systemChanges \in 0..MaxSystemChanges

==============================================================================
