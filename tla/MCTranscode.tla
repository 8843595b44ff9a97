---------------------------- MODULE MCTranscode ----------------------------
(* A file of three packets.                                                *)
EXTENDS Transcode

MCFile == <<<<0, 1>>, <<2>>, <<3, 4>>>>
=============================================================================
