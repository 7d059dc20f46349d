------------------------- MODULE MCStakePoolProgram -------------------------
EXTENDS StakePoolProgram

\* every discriminator in use, and 3, which no instruction has
MC_DataBytes == {0, 1, 2, 3, 6, 7, 8, 11, 12, 13, 15, 19, 20}

\* two argument encodings, so that a decoded argument can differ from the sent one
MC_ArgBytes == {0, 1}

====
