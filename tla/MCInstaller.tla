----------------------------- MODULE MCInstaller -----------------------------
\* Two banks of three blocks besides block 0; one of them bad in one chip, one in both.
EXTENDS Installer

BadBlks == {<<0, "low", 1>>, <<0, "high", 1>>, <<1, "high", 2>>}
==============================================================================
