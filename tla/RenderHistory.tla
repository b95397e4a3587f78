--------------------------- MODULE RenderHistory ---------------------------
(***************************************************************************)
(* What the segment renderer promises about the renders of one segment: an *)
(* append-only history in which every render names its predecessor as its  *)
(* parent and no two renders answer the same request key.                  *)
(***************************************************************************)
EXTENDS Naturals, Sequences

CONSTANTS
  RenderId,   \* identifiers a render row can have
  Key,        \* request keys (text revision, resolved inputs, force nonce)
  NoRender    \* the parent of the first render

VARIABLE log  \* the renders, oldest first: [id, key, parent]

Last == IF log = <<>> THEN NoRender ELSE log[Len(log)].id

Init == log = <<>>

Append1(id, key) ==
  /\ \A i \in 1..Len(log) : log[i].id # id /\ log[i].key # key
  /\ log' = Append(log, [id |-> id, key |-> key, parent |-> Last])

Next == \E id \in RenderId, key \in Key : Append1(id, key)

Spec == Init /\ [][Next]_log
=============================================================================
