------------------------------ MODULE MCEditConflict ------------------------------
EXTENDS EditConflict
================================================================================
