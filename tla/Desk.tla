-------------------------------- MODULE Desk --------------------------------
(***************************************************************************)
(* What an author has at hand: the page on which links are created, named  *)
(* here so that it can be explored beside others and proved about.         *)
(***************************************************************************)
CONSTANTS None, Picture, Domain, MaxImages

VARIABLES image, keep, single, pool, batch, preference, scope, told

Page == INSTANCE DashboardPage

(* What is ready and what is being uploaded fits one batch, and a message  *)
(* that a link was, or was not, created is true                            *)
(* (dashboard-shell.js:702-728, 2159-2205, links/http.ts:342-364).         *)
PageInv == Page!PageInv

(* An answer that comes late overrides neither the image nor the domain    *)
(* the author chose since (dashboard-shell.js:616-700, 967-1099).          *)
AnswersYield == Page!AnswersYield
=============================================================================
