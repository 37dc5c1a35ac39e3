---------------------------- MODULE ReplayStream ----------------------------
(***************************************************************************)
(* What one replay session promises: the words the application hands over  *)
(* come out of the DAC one by one, in order, none of them twice. Silence   *)
(* in between is not observed; words still on their way when the session   *)
(* ends never come out.                                                    *)
(***************************************************************************)
EXTENDS Naturals

VARIABLES
    accepted,   \* words handed over so far
    played,     \* the number of the last word played
    plays       \* how often a word has been played

StreamInit == accepted = 0 /\ played = 0 /\ plays = 0

Accept == accepted' > accepted /\ UNCHANGED <<played, plays>>

Play == /\ played < accepted
        /\ played' = played + 1 /\ plays' = plays + 1
        /\ UNCHANGED accepted

StreamSpec == StreamInit /\ [][Accept \/ Play]_<<accepted, played, plays>>
=============================================================================
