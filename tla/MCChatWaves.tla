---------------------------- MODULE MCChatWaves -----------------------------
(* Small jobs for ChatWaves: how many numbered lines a wave has, and how    *)
(* many components its agent makes of them.  The lines of a wave are those  *)
(* of a batch of ComponentBatches (B, which MCComponentBatches checks).     *)
EXTENDS ChatWaves, MCComponentBatches

\* The waves of a text of so many lines, cut into batches of at most `maximum'.
LinesPerWave(length, maximum) ==
  LET intake == B!NumberedIntake(length, maximum)
  IN  [w \in Waves |-> Cardinality(intake[w])]

OneEach == LinesPerWave(NumWaves, 1)
TwoThenOne == LinesPerWave(3, 2)
None == [w \in Waves |-> 0]
OneChild == [w \in Waves |-> IF w = 0 THEN 1 ELSE 0]
=============================================================================
