----------------------------- MODULE MCStartup -----------------------------
EXTENDS Startup

\* Both limits of -m, the values next to them, and one that is in range only
\* after it was cut to 16 bits.
MCMtuValues == {-1, 0, 67, 68, 65535, 65536, 65604}

=============================================================================
