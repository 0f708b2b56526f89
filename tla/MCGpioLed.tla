----------------------------- MODULE MCGpioLed ------------------------------
EXTENDS GpioLed, TLC

\* The users are alike.
Symm == Permutations(Users)
=============================================================================
