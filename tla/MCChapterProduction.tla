----------------------- MODULE MCChapterProduction -----------------------
(* Two threads of one engine: a job worker and a request, or two workers. *)
EXTENDS ChapterProduction

CONSTANTS t1, t2
===========================================================================
