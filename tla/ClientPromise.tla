--------------------------- MODULE ClientPromise ---------------------------
(* What a printer client owes to the executor that called print_images     *)
(* (services/print_executor.py): it returns only when every page has been  *)
(* delivered, an error that says delivery_uncertain = False ("The printer  *)
(* rejected the job before label data was sent.") is raised only while no  *)
(* label data has left, and any other error says nothing.                  *)
EXTENDS Naturals
CONSTANT Pages
VARIABLES begun, given, verdict

vars == <<begun, given, verdict>>

Init == begun = FALSE /\ given = 0 /\ verdict = "open"

(* Label data leaves for the printer.                                      *)
Begin == verdict = "open" /\ ~begun /\ begun' = TRUE /\ UNCHANGED <<given, verdict>>

(* The printer has got another page, perhaps after the client gave up.     *)
Give == begun /\ given < Pages /\ given' = given + 1 /\ UNCHANGED <<begun, verdict>>

Return == verdict = "open" /\ given = Pages /\ verdict' = "printed" /\ UNCHANGED <<begun, given>>
Refuse == verdict = "open" /\ ~begun /\ verdict' = "refused" /\ UNCHANGED <<begun, given>>

(* The link may break in the middle of the first write.                    *)
GiveUp ==
  /\ verdict = "open" /\ verdict' = "uncertain"
  /\ begun' \in {begun, TRUE} /\ UNCHANGED given

Next == Begin \/ Give \/ Return \/ Refuse \/ GiveUp

Spec == Init /\ [][Next]_vars
=============================================================================
