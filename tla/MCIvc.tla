--------------------------------- MODULE MCIvc ---------------------------------
(***************************************************************************)
(* Ivc on a ring of two slots whose counters wrap after four: the ring     *)
(* fills and empties, and the counters wrap, within a few frames.  One end *)
(* sends (the two rings do not interact except through a reset, which      *)
(* clears both), both ends reset and reboot.                               *)
(***************************************************************************)
EXTENDS Ivc

\* tegra_ivc_channel_sync takes the counters modulo nframes, which finds the
\* positions again only when nframes divides the range of the counters.
ASSUME MCDivides == Mod % NFrames = 0
================================================================================
