--------------------------- MODULE MCSignalSession --------------------------
\* Small instance: two bytes of text fit in a frame, so <<1, 0, 1>> is cut.
EXTENDS SignalSession

MCPayloads == {<<>>, <<1, 0>>, <<1, 0, 1>>}

MCOnePayload == {<<1, 0>>}
=============================================================================
