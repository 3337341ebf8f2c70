----------------------- MODULE PreferencesRefinement -----------------------
(***************************************************************************)
(* The sessions, the lock file and the renamed files implement the         *)
(* register: the rename is the moment at which a document is published.    *)
(***************************************************************************)
EXTENDS Preferences

storedText == IF Current = 0 THEN {} ELSE data[Current]
freshSessions == {s \in accessed : base[s] = Current}

Register == INSTANCE PreferencesRegister
              WITH text <- storedText, draft <- prefs, fresh <- freshSessions

\* Everything that sessions do to the stored preferences, with crashes between
\* any two system calls, is reading, editing, dropping and publishing documents
\* as the register allows it.
ImplementsRegister ==
  /\ Register!Init
  /\ [][Protected => Register!Next]_(Register!vars)
=============================================================================
