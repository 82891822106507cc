------------------------------ MODULE MCVinfra ------------------------------
EXTENDS Vinfra, TLC

CONSTANTS hybrid, flash, m1, m2
MCMissions == <<m1, m2>>
=============================================================================
