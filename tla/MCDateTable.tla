----------------------------- MODULE MCDateTable -----------------------------
EXTENDS JavaDates
=============================================================================
