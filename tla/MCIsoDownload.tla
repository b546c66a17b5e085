--------------------------- MODULE MCIsoDownload ---------------------------
(***************************************************************************)
(* An instance of IsoDownload for TLC: what an invocation does not use any *)
(* more is not part of the state.                                          *)
(***************************************************************************)
EXTENDS IsoDownload

CONSTANTS core, standard, one, two

Of(digest, n) == [digest |-> digest, name |-> n]

(* The published format, a digest alone, a body that lists another ISO     *)
(* first, one with a comment; and, to begin with, perhaps none.            *)
MCBodies ==
  {<<Of(one, core)>>, <<Of(two, NoName)>>, <<Of(two, standard), Of(one, core)>>,
   <<Of(Unusable, core), Of(two, core)>>}

View ==
  <<sums, files, dir, pc, ever, touched,
    [p \in Invocations |->
       CASE pc[p] \in Downloading -> <<name[p], want[p], raced[p]>>
         [] pc[p] = "listed" -> listing[p]
         [] pc[p] = "chosen" -> path[p]
         [] OTHER -> <<>>]>>
=============================================================================
