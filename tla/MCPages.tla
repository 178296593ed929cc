-------------------------------- MODULE MCPages --------------------------------
(***************************************************************************)
(* The small components around the run page, in one model.  They share no  *)
(* variable, so which steps of the others come between those of one makes  *)
(* no difference to it: here only one of them, chosen at the start, moves. *)
(***************************************************************************)
EXTENDS Settings, Vault, History, CredentialList, Frames, Routing

VARIABLE part

CONSTANTS p1, p2

MCInit ==
    /\ part \in {"settings", "vault", "history", "list", "frames", "routing"}
    /\ SettingsInit /\ stored.provider = p1   \* the mains are alike at the start
    /\ VaultInit /\ HistoryInit /\ ListInit /\ FramesInit /\ RoutingInit

MCNext ==
    \/ /\ part = "settings" /\ SettingsNext
       /\ UNCHANGED <<part, vaultVars, historyVars, listVars, framesVars, routingVars>>
    \/ /\ part = "vault" /\ VaultNext
       /\ UNCHANGED <<part, settingsVars, historyVars, listVars, framesVars, routingVars>>
    \/ /\ part = "history" /\ HistoryNext
       /\ UNCHANGED <<part, settingsVars, vaultVars, listVars, framesVars, routingVars>>
    \/ /\ part = "list" /\ ListNext
       /\ UNCHANGED <<part, settingsVars, vaultVars, historyVars, framesVars, routingVars>>
    \/ /\ part = "frames" /\ FramesNext
       /\ UNCHANGED <<part, settingsVars, vaultVars, historyVars, listVars, routingVars>>
    \/ /\ part = "routing" /\ RoutingNext
       /\ UNCHANGED <<part, settingsVars, vaultVars, historyVars, listVars, framesVars>>

MCSpec == MCInit /\ [][MCNext]_<<part, settingsVars, vaultVars, historyVars, listVars,
                                 framesVars, routingVars>>
===============================================================================
