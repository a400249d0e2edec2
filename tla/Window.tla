-------------------------------- MODULE Window -------------------------------
(***************************************************************************)
(* The seven-day compatibility window that a conversion opens (storage.py):*)
(* checked writes may not bring custom-field shapes that the legacy board  *)
(* did not have, and the window closes only on an acceptance receipt that  *)
(* binds gate evidence to the present board, HEAD and configuration.       *)
(* Accepting and lifting take no lock: mutations run between their steps.  *)
(***************************************************************************)
EXTENDS Naturals, FiniteSets

CONSTANTS
    Cards,       \* tasks of the converted board
    Shapes,      \* custom-field shapes
    Gates,       \* the acceptance gates that bind the board's state
    Unset,       \* no evidence, no receipt, no lift under way
    MaxWork      \* bound: HEAD moves and configuration edits

ASSUME WindowAssumption == MaxWork \in Nat

VARIABLES
    window,     \* active, past its end, and the shapes it allows
    shapes,     \* task -> its custom-field shapes, which stand for all its content
    head,       \* Git HEAD
    conf,       \* the configuration
    evidence,   \* gate -> what its file binds, or Unset
    receipt,    \* the acceptance receipt, or Unset
    lift        \* the receipt and the truth a lift compared, until it saves, or Unset

windowVars == <<window, shapes, head, conf, evidence, receipt, lift>>

Truth == [content |-> shapes, head |-> head, conf |-> conf]

---------------------------------------------------------------------------
(* The board works on                                                      *)

\* _enforce_window: the window's list, or the task's own shapes if it is empty.
Legacy(before) == IF window.allowed # {} THEN window.allowed ELSE before

\* update and create (of a task with no shapes before).
EditFields ==
    /\ \E c \in Cards, S \in SUBSET Shapes :
          /\ window.active => S \subseteq Legacy(shapes[c])
          /\ shapes' = [shapes EXCEPT ![c] = S]
    /\ UNCHANGED <<window, head, conf, evidence, receipt, lift>>

\* exact_replace_record at /fields validates the record, not the window.
ReplaceFields ==
    /\ \E c \in Cards, S \in SUBSET Shapes : shapes' = [shapes EXCEPT ![c] = S]
    /\ UNCHANGED <<window, head, conf, evidence, receipt, lift>>

Environment ==
    /\ \/ head < MaxWork /\ head' = head + 1 /\ UNCHANGED <<conf, window>>
       \/ conf < MaxWork /\ conf' = conf + 1 /\ UNCHANGED <<head, window>>
       \/ /\ ~window.ended /\ window' = [window EXCEPT !.ended = TRUE]
          /\ UNCHANGED <<head, conf>>
    /\ UNCHANGED <<shapes, evidence, receipt, lift>>

---------------------------------------------------------------------------
(* Acceptance                                                              *)

\* A gate runs and writes its sealed evidence.
RunGate ==
    /\ \E g \in Gates : evidence' = [evidence EXCEPT ![g] = Truth]
    /\ UNCHANGED <<window, shapes, head, conf, receipt, lift>>

\* generate_acceptance_receipt: the window has ended, and every gate binds the
\* present truth.  (Conversion and performance evidence bind the window and
\* the package, which do not change here.)
AcceptGates ==
    /\ window.active /\ window.ended
    /\ \A g \in Gates : evidence[g] = Truth
    /\ receipt' = [bound |-> evidence, truth |-> Truth]
    /\ UNCHANGED <<window, shapes, head, conf, evidence, lift>>

\* Wrong: the state of the board is not compared again.
StillAcceptedAnyBoard ==
    /\ receipt.truth.head = head /\ receipt.truth.conf = conf
    /\ receipt.bound = evidence
\* The receipt is about the present truth, and its evidence files are as bound.
StillAccepted == receipt.truth = Truth /\ receipt.bound = evidence

\* lift_compatibility_window compares ...
LiftCompare ==
    /\ lift = Unset /\ receipt # Unset
    /\ window.active /\ window.ended
    /\ StillAccepted
    /\ lift' = [bound |-> evidence, truth |-> Truth]
    /\ UNCHANGED <<window, shapes, head, conf, evidence, receipt>>

\* ... and saves the configuration.
LiftSave ==
    /\ lift # Unset
    /\ window' = [window EXCEPT !.active = FALSE]
    /\ conf' = conf + 1
    /\ lift' = Unset
    /\ UNCHANGED <<shapes, head, evidence, receipt>>

---------------------------------------------------------------------------

\* As convert_legacy leaves it: the shapes of the board are those allowed.
WindowInit ==
    /\ shapes \in [Cards -> SUBSET Shapes]
    /\ window = [active |-> TRUE, ended |-> FALSE, allowed |-> UNION {shapes[c] : c \in Cards}]
    /\ head = 0 /\ conf = 0
    /\ evidence = [g \in Gates |-> Unset] /\ receipt = Unset /\ lift = Unset

WindowNext ==
    \/ EditFields \/ ReplaceFields \/ Environment
    \/ RunGate \/ AcceptGates \/ LiftCompare \/ LiftSave

WindowSpec == WindowInit /\ [][WindowNext]_windowVars

---------------------------------------------------------------------------
(* Properties *)

\* A window is lifted for the board that all gates have seen: what the call
\* found when it compared, content, HEAD and configuration, is what each of the
\* evidence files was made from.
LiftIsEarned ==
    lift # Unset => \A g \in Gates : lift.bound[g] = lift.truth

=============================================================================
