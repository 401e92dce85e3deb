---------------------------- MODULE FrameCacheMC ----------------------------
(* FrameCache with frames whose rows are full and frames whose rows are padded; *)
(* for the latter the page makes buffers that are too narrow.                   *)
EXTENDS FrameCache
TheSizes == {<<2, 1, 2>>, <<2, 1, 1>>}
=============================================================================
