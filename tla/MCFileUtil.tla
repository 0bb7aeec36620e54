------------------------------- MODULE MCFileUtil ------------------------------
(* A small instance of FileUtil for TLC.                                       *)
EXTENDS FileUtil
================================================================================
