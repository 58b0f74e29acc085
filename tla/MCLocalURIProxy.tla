--------------------------- MODULE MCLocalURIProxy ---------------------------
EXTENDS LocalURIProxy

CONSTANTS t1, t2

MCCallers == {t1, t2}
=============================================================================
