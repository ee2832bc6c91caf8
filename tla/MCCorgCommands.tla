---------------------------- MODULE MCCorgCommands ----------------------------
\* Two commands side by side.
EXTENDS CorgCommands

CONSTANTS c1, c2, p0
===============================================================================
