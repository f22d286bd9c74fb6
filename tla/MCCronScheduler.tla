-------------------------- MODULE MCCronScheduler --------------------------
EXTENDS CronScheduler, TLC

MCSlot == 1 .. 2

Callers == Permutations(Caller)
=============================================================================
