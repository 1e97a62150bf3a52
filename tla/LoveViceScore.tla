---------------------------- MODULE LoveViceScore ----------------------------
(***************************************************************************)
(* The contract contracts/LoveViceScore.sol: love and vice of each user,   *)
(* which scorers move up and down and which decay by one per day, applied  *)
(* when a score is next moved.  Who may call updateScore is left out.      *)
(***************************************************************************)
EXTENDS Integers

CONSTANTS
  User,
  Delta,         \* moves scorers make: records [love, vice]
  MaxScore,      \* MAX_SCORE
  Day,           \* ticks in 1 days
  MaxUpdates     \* bound on the calls of updateScore

LoveViceScoreAssumption ==
  /\ Delta \subseteq [love : Int, vice : Int]
  /\ MaxScore \in Nat /\ Day \in Nat \ {0} /\ MaxUpdates \in Nat

VARIABLES
  now,           \* block.timestamp
  userScores,
  updates        \* number of calls of updateScore

scoreVars == <<userScores, updates>>

UserScore == [love : 0 .. MaxScore, vice : 0 .. MaxScore, lastUpdate : Nat, isActive : BOOLEAN]

ScoreInit ==
  /\ now = 1
  /\ userScores = [u \in User |-> [love |-> 0, vice |-> 0, lastUpdate |-> 0, isActive |-> FALSE]]
  /\ updates = 0

\* Love less vice, as it was when the score last moved: the decay since is not in it.
Reputation(u) ==
  LET s == userScores[u]
  IN IF s.isActive /\ s.love >= s.vice THEN s.love - s.vice ELSE 0

\* A value moved by d, kept between 0 and the maximum.
Moved(value, d) ==
  IF value + d < 0 THEN 0 ELSE IF d > 0 /\ value + d > MaxScore THEN MaxScore ELSE value + d

\* Days passed since a score last moved.
DaysPassed(s) == IF s.isActive THEN (now - s.lastUpdate) \div Day ELSE 0

UpdateScore(u, d) ==
  LET s    == userScores[u]
      days == DaysPassed(s)
  IN /\ updates < MaxUpdates
     /\ updates' = updates + 1
     /\ userScores' = [userScores EXCEPT ![u] =
          [love |-> Moved(Moved(s.love, -days), d.love),
           vice |-> Moved(Moved(s.vice, -days), d.vice),
           lastUpdate |-> now, isActive |-> TRUE]]
=============================================================================
