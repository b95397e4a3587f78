--------------------------- MODULE MCLlmExtraction ---------------------------
(***************************************************************************)
(* LlmExtraction over a scene of two batches followed by a scene of one.   *)
(***************************************************************************)
EXTENDS LlmExtraction

MCSceneOf == <<1, 1, 2>>
=============================================================================
