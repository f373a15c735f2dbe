---------------------------- MODULE MCX264Encoder ----------------------------
EXTENDS X264Encoder

\* TLC integers are 32-bit signed, so the u32 -> i32 cast is checked at a
\* width of 16 bits: the same two's complement rule, with UMax = 65535.
MCBits == 16

\* Strings that parse (0, a usual rate, the largest value the i32 keeps),
\* one that parse::<u32> rejects as negative and one it rejects as too large.
MCParamValues == {-1, 0, 30, 2^(MCBits - 1) - 1, 2^MCBits}

\* Adds the smallest value the cast turns negative, and the largest u32.
MCParamValuesWide == MCParamValues \cup {2^(MCBits - 1), 2^MCBits - 1}
=============================================================================
