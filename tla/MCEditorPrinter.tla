-------------------------- MODULE MCEditorPrinter --------------------------
(* Two printers of different resolutions and one that is not at hand,      *)
(* chosen and edited by one user.                                          *)
EXTENDS EditorPrinter

MCPfInfo == [a |-> [dpi |-> 203, head |-> 384, precut |-> FALSE, offline |-> FALSE, model |-> "x"],
             b |-> [dpi |-> 300, head |-> 354, precut |-> FALSE, offline |-> FALSE, model |-> "y"],
             o |-> [dpi |-> 203, head |-> 384, precut |-> FALSE, offline |-> TRUE, model |-> "x"]]
=============================================================================
