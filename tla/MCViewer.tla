------------------------------ MODULE MCViewer ------------------------------
(* One raw file and one picture file, two zooms.                            *)
EXTENDS Viewer
=============================================================================
