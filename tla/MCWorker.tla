------------------------------- MODULE MCWorker ------------------------------
(***************************************************************************)
(* An instance of Worker for TLC.                                          *)
(***************************************************************************)
EXTENDS Worker

CONSTANTS h1, h2

MCHelpers == {h1, h2}

Tickless == [tickless |-> TRUE, helpers |-> {h1}, exitOnException |-> FALSE, level |-> Info,
             warns |-> FALSE, raises |-> TRUE, strays |-> 0, prompt |-> TRUE]
Late == [Tickless EXCEPT !.prompt = FALSE, !.warns = TRUE]
Strays == [Tickless EXCEPT !.strays = 2, !.exitOnException = TRUE, !.level = Error]
Threaded == [tickless |-> FALSE, helpers |-> MCHelpers, exitOnException |-> FALSE, level |-> Info,
             warns |-> FALSE, raises |-> TRUE, strays |-> 0, prompt |-> TRUE]
Warns == [Threaded EXCEPT !.warns = TRUE, !.helpers = {h1}]
MCConfigs == {Tickless, Late, Strays, Threaded, Warns}

=============================================================================
