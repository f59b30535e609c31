-------------------------- MODULE MCStreamDownload --------------------------
(***************************************************************************)
(* Bounds for TLC: a file of four chunks, or three segments.               *)
(***************************************************************************)
EXTENDS StreamDownload

BothModes == {"mp4", "hls"}
ThreeSegments == <<1, 3, 4>>
=============================================================================
