---------------------------- MODULE MCAudioImport ----------------------------
(* Instances of AudioImport for TLC.                                       *)
EXTENDS AudioImport

CONSTANTS fev, mp3, engine

MCFiles == {fev, mp3, engine}
MCRequired == {fev, mp3}
=============================================================================
