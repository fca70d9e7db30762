---------------------------- MODULE MCWindowLoop ----------------------------
(* WindowLoop on four framebuffer sizes: minimised, two of the same aspect  *)
(* ratio, and one of another.                                               *)
EXTENDS WindowLoop

MCSizes == {<<0, 0>>, <<4, 3>>, <<8, 6>>, <<3, 3>>}
MCInitialSize == <<4, 3>>
MCMinImageExtent == <<1, 1>>
=============================================================================
