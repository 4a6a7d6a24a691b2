---------------------------- MODULE MCTranscript ----------------------------
EXTENDS Transcript, TLC

CONSTANTS fileA, fileB, none

=============================================================================
