------------------------------ MODULE Absent ------------------------------
\* Python's None: the value of what is not there.
CONSTANT None
=============================================================================
