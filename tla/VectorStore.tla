----------------------------- MODULE VectorStore -----------------------------
(***************************************************************************)
(* What an appendable volume promises the callers of `append` and of       *)
(* search: an insert-only store (sector-os/src/ingest.rs, module comment). *)
(* A volume stopped in the middle of an append may show more than it has   *)
(* acknowledged, and may lose that again; what it has acknowledged it      *)
(* keeps, and an id never means two vectors at once.                       *)
(***************************************************************************)
VARIABLES
  visible,   \* pairs <<id, vector>> a search can return
  stored     \* the pairs whose append has reported success

storeVars == <<visible, stored>>

\* One vector per id.
Functional(pairs) == \A p, q \in pairs : p[1] = q[1] => p = q

StoreInit == visible = stored /\ Functional(visible)

\* Vectors become visible; none that was visible changes.
Publish ==
  /\ visible \subseteq visible'
  /\ Functional(visible')
  /\ UNCHANGED stored

\* An append reports success: its vectors are visible by then.
Report ==
  /\ stored \subseteq stored'
  /\ stored' \subseteq visible
  /\ UNCHANGED visible

\* A power loss takes vectors no append has reported.
Lose ==
  /\ visible' \subseteq visible
  /\ stored \subseteq visible'
  /\ UNCHANGED stored

StoreNext == Publish \/ Report \/ Lose

StoreSpec == StoreInit /\ [][StoreNext]_storeVars
=============================================================================
