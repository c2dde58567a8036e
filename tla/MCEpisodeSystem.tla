-------------------------- MODULE MCEpisodeSystem --------------------------
(***************************************************************************)
(* The settings from which the runs choose.                                *)
(***************************************************************************)
EXTENDS EpisodeSystem

Cleaned    == [mode |-> "cache", processed |-> TRUE, hide |-> TRUE, ahead |-> FALSE, with |-> "a"]
Published  == [Cleaned EXCEPT !.hide = FALSE]
Plain      == [Published EXCEPT !.processed = FALSE]
PlainAhead == [Plain EXCEPT !.ahead = TRUE]
Streamed   == [Plain EXCEPT !.mode = "stream"]
Original   == [Plain EXCEPT !.mode = "original"]
StreamedCleaned == [Cleaned EXCEPT !.mode = "stream"]

SCleaned     == {Cleaned}
SPlainAhead  == {PlainAhead}
STwo         == {Published, [Published EXCEPT !.with = "b"]}
SServed      == {Cleaned, Published, Plain, Original}
SHidden      == {[Cleaned EXCEPT !.ahead = TRUE], PlainAhead}
SRestart     == {Cleaned, Published}
SReprocessed == {[StreamedCleaned EXCEPT !.ahead = TRUE], [StreamedCleaned EXCEPT !.with = "b"]}
=============================================================================
