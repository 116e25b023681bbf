-------------------------- MODULE MCPlaybackWindow --------------------------
(* TLC instances of PlaybackWindow.                                        *)
EXTENDS PlaybackWindow, TLC

\* an episode, a sample and the next episode, in order of names; on disk the
\* second episode follows the first, and they share a piece
Sizes == <<4, 1, 4>>
Offsets == <<0, 8, 4>>

RangeHeaders == {[kind |-> "none", a |-> 0, b |-> 0], [kind |-> "suffix", a |-> 2, b |-> 0]}
=============================================================================
