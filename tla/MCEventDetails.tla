--------------------------- MODULE MCEventDetails ---------------------------
(* The two details with rules of their own; each also follows the general  *)
(* rules.  The organizer has published the letter and no link yet; the row *)
(* was created with the event's page for a letter.                         *)
EXTENDS EventDetails

CONSTANTS letter, link, a, b

LetterOnly == [f \in Detail |-> IF f = letter THEN a ELSE Blank]
PageOnly == [f \in Detail |-> IF f = letter THEN Page ELSE Blank]
=============================================================================
