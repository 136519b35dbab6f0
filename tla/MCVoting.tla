------------------------------ MODULE MCVoting ------------------------------
\* The TLC run of Voting, with the constants of MCVoteStore.
EXTENDS Voting, MCVoteStore
=============================================================================
