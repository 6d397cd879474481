---------------------------- MODULE SourceLedger ----------------------------
(***************************************************************************)
(* What payroll, materials, real estate and construction rely on when they *)
(* post to the journal through a hook: what the hook of a source record    *)
(* posts takes the place, in one step, of all that hooks posted for it     *)
(* before; a withdrawal leaves nothing; and a batch that stopped counting  *)
(* never counts again.  They may not rely on being alone: a posting by     *)
(* hand under the name of the source adds a batch, and a hook retracts it  *)
(* only when it saw it.  Journal implements this.                          *)
(***************************************************************************)
CONSTANTS
  Source,   \* source records: an order, a deal, a payroll run
  BatchId   \* the batches the journal may write

VARIABLES
  counting,  \* counting[s]: the batches of source s that count
  hooked,    \* the batches that hooks posted
  used       \* every batch written so far, reversals included

vars == <<counting, hooked, used>>

Init ==
  /\ counting = [s \in Source |-> {}]
  /\ hooked = {}
  /\ used = {}

\* Every step writes batches, and none removes one.
Grows == used' # used /\ used \subseteq used' /\ used' \subseteq BatchId

\* The hook of s posts new batches, in place of whatever hooks had posted before, and of
\* what was posted by hand except what it missed.
Replace(s, missed) ==
  /\ hooked \subseteq hooked' /\ hooked' # hooked
  /\ hooked' \ hooked \subseteq used' \ used
  /\ missed \subseteq counting[s] \ hooked
  /\ counting' = [counting EXCEPT ![s] = (hooked' \ hooked) \cup missed]

\* The source is gone.
Withdraw(s) ==
  /\ counting' = [counting EXCEPT ![s] = {}]
  /\ UNCHANGED hooked

\* Somebody reverses one of its batches by hand ...
Reverse(s, b) ==
  /\ counting' = [counting EXCEPT ![s] = @ \ {b}]
  /\ UNCHANGED hooked

\* ... or posts one under its name.
Add(s, b) ==
  /\ b \in used' \ used
  /\ counting' = [counting EXCEPT ![s] = @ \cup {b}]
  /\ UNCHANGED hooked

\* Batches of no source: other entries by hand and the reversals of them.
Record == UNCHANGED <<counting, hooked>>

Next ==
  /\ Grows
  /\ \/ \E s \in Source :
          \/ \E missed \in SUBSET counting[s] : Replace(s, missed)
          \/ Withdraw(s)
          \/ \E b \in counting[s] : Reverse(s, b)
          \/ \E b \in BatchId : Add(s, b)
     \/ Record

Spec == Init /\ [][Next]_vars
=============================================================================
