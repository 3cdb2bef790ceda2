----------------------------- MODULE ClientPages -----------------------------
(* One browser tab: the router (client/src/app/Router.svelte) shows the play   *)
(* page of a campaign or the admin page, by the address the tab was opened at. *)
(* Each page has its stores and its components; on the play page the floating  *)
(* windows lie over the canvas and take the events meant for them. The three   *)
(* parts share no state, so each is followed by itself; a tab that goes from   *)
(* one page to the other is not modelled.                                      *)
EXTENDS Windows, AdminTree, Canvas

VARIABLE part   \* the page shown, and of the play page the part that is followed

pageVars == <<part, winVars, treeVars, canvasVars>>

ClientPagesInit ==
  /\ part \in {"windows", "canvas", "admin"}
  /\ WindowsInit
  /\ AdminTreeInit
  /\ CanvasInit

ClientPagesNext ==
  \/ part = "windows" /\ WindowsNext /\ UNCHANGED <<part, treeVars, canvasVars>>
  \/ part = "canvas" /\ CanvasNext /\ UNCHANGED <<part, winVars, treeVars>>
  \/ part = "admin" /\ AdminTreeNext /\ UNCHANGED <<part, winVars, canvasVars>>

ClientPagesSpec == ClientPagesInit /\ [][ClientPagesNext]_pageVars
==============================================================================
