---------------------------- MODULE ReviewScreen ----------------------------
(***************************************************************************)
(* handle_last followed by the review screen: what the adapter lays out of *)
(* the review it is handed (ui_display_transaction,                        *)
(* crates/sunrise-edge-ledger-app/src/app_ui.rs).                          *)
(***************************************************************************)
EXTENDS ClearSigning, ReviewFacts

VARIABLES
    display,        \* what became of the review: shown, or an error
    screen          \* the facts laid out

screenVars == <<vars, display, screen>>

ScreenInit ==
    /\ Init
    /\ display = "none"
    /\ screen = <<>>

DisplayTransaction ==
    /\ status = "displayed"
    /\ display = "none"
    /\ display' = IF Formats(review) THEN "facts" ELSE "InternalFailure"
    /\ screen' = IF Formats(review) THEN Facts(review) ELSE <<>>
    /\ UNCHANGED vars

ScreenNext ==
    \/ Next /\ UNCHANGED <<display, screen>>
    \/ DisplayTransaction

ScreenSpec == ScreenInit /\ [][ScreenNext]_screenVars

-----------------------------------------------------------------------------
(* Properties. *)

\* The errors of the formatter are there for defence: every review that passes
\* the policy has three entries, a fee, and texts and digests that fit into a
\* fact, so no transfer is lost between LAST and the screen.
EveryReviewIsShown == display # "InternalFailure"

\* The facts alone determine every byte that is signed: a reader who looks them
\* up by name finds the one frame that can be signed, so no signed field is
\* missing, shown twice under one name or shown as another.
FactsTellTheFrame == display = "facts" => message = Rebuilt(ReviewOf(screen))

=============================================================================
