----------------------------- MODULE Conversions -----------------------------
(***************************************************************************)
(* What a picture run makes of its inputs: the run itself, and the search  *)
(* behind one conversion of a clip.  The two share no state: FinalizeClip  *)
(* and ClipFails of Picture stand for the two ways a search is "done".     *)
(***************************************************************************)
EXTENDS Picture, WebpSearch

\* A picture run packs what it made, and an adaptive encode tells whether it made anything
\* (picture_process.cpp, video_encode_runner.cpp).
ConversionsAreSound == PictureRunIsSound /\ WebpIsHonest

=============================================================================
