------------------------------ MODULE Telling ------------------------------
(***************************************************************************)
(* What oidc/backchannel.ts promises to whoever ends a session: every app  *)
(* that is owed the news gets it, or the audit trail says that it did not  *)
(* -- "Resolves once delivered or given up on."  Only a stop of the process*)
(* forgets an errand.                                                      *)
(***************************************************************************)
CONSTANT Errands    \* one app, one ended session, one handler

VARIABLES owed, told, failed

tellings == <<owed, told, failed>>

Init == owed = {} /\ told = {} /\ failed = {}

\* Some errands begin, and an app without an endpoint has failed as it begins.
Owe ==
    /\ owed \subseteq owed' /\ failed \subseteq failed'
    /\ (owed' \ owed) \cap (failed' \ failed) = {}
    /\ (owed' \ owed) \cup (failed' \ failed) \subseteq Errands \ (owed \cup told \cup failed)
    /\ UNCHANGED told

Tell(e) ==
    /\ e \in owed
    /\ owed' = owed \ {e} /\ told' = told \cup {e}
    /\ UNCHANGED failed

GiveUp(e) ==
    /\ e \in owed
    /\ owed' = owed \ {e} /\ failed' = failed \cup {e}
    /\ UNCHANGED told

Stop == owed' = {} /\ UNCHANGED <<told, failed>>

Next == Owe \/ Stop \/ \E e \in Errands : Tell(e) \/ GiveUp(e)

Safety == Init /\ [][Next]_tellings

Spec ==
    /\ Safety
    /\ \A e \in Errands : WF_tellings(Tell(e) \/ GiveUp(e))

=============================================================================
