---------------------------- MODULE MCCodaVenus ----------------------------
EXTENDS CodaVenus, TLC

CONSTANTS c1, c2

\* A pioctl with less than no data, none, the most there may be, and one too many;
\* what it wants back is less than nothing, something, or more than a buffer has.
McDataSizes == {-1, 0, 4096, 4097}
McOutSizes == {-1, 8, 32767}

Same == Permutations(Callers)
=============================================================================
